-------------------------------- MODULE Html --------------------------------
(***************************************************************************)
(* The strip of markup to visible text (src/src/convert/html.rs).          *)
(*                                                                         *)
(* A document is the sequence of events the streaming parser calls back    *)
(* with: start and end tags, and chunks of text nodes.  The parser builds  *)
(* no tree: an end tag ends the innermost open element of its name and     *)
(* everything opened inside it, and is ignored when there is none.  A      *)
(* character is a word (with the event it came from), white space, or one  *)
(* half of a numeric reference to a newline.                               *)
(***************************************************************************)
EXTENDS Integers, Sequences, FiniteSets, SequencesExt

CONSTANT MaxHtmlBytes   \* the working budget

ASSUME HtmlAssumption == MaxHtmlBytes \in Nat

Space == <<"space">>
Break == <<"break">>
Tab == <<"tab">>
Half(n) == <<"half", n>>

\* Elements that may come before the head has ended, and those whose start
\* and end break the line.
HeadContent == {"head", "script", "template", "title"}
Blocks == {"p", "tr"}

StripState == [error |-> "none", open |-> <<>>, raw |-> <<>>, title |-> <<>>,
               inTitle |-> FALSE, titleDone |-> FALSE, inHead |-> FALSE, templates |-> 0,
               rowHasCell |-> FALSE, node |-> <<>>, type |-> "none", charged |-> 0]

Charge(s, bytes) ==
  [s EXCEPT !.charged = @ + bytes,
            !.error = IF s.charged + bytes > MaxHtmlBytes THEN "resource_limit" ELSE @]

Push(s, mark) == LET paid == Charge(s, 1)
                 IN  IF paid.error = "none" THEN [paid EXCEPT !.raw = Append(@, mark)] ELSE paid

\* What kind of text the parser reports, by the element it is in.
TextType(s) == CASE s.open = <<>> -> "data"
                 [] s.open[Len(s.open)].tag = "script" -> "script"
                 [] s.open[Len(s.open)].tag = "title" -> "rcdata"
                 [] OTHER -> "data"

\* Runs of white space become one space.
Collapse(text) ==
  LET put(out, c) == CASE c \notin {Space, Break, Tab} -> Append(out, c)
                       [] out # <<>> /\ out[Len(out)] = Space -> out
                       [] OTHER -> Append(out, Space)
  IN  FoldLeft(put, <<>>, text)

\* A complete reference becomes its character; half of one stays as it is.
DecodeEntities(text) ==
  LET put(out, c) == IF c = Half(2) /\ out # <<>> /\ out[Len(out)] = Half(1)
                     THEN Append(SubSeq(out, 1, Len(out) - 1), Break) ELSE Append(out, c)
  IN  FoldLeft(put, <<>>, text)

\* Faulty variant: references are decoded after the white space was collapsed.
FlushNodeDecodedLast(s) ==
  LET done == [s EXCEPT !.node = <<>>, !.type = "none"]
      text == DecodeEntities(Collapse(s.node))
  IN  CASE s.node = <<>> \/ s.templates > 0 \/ s.type = "script" -> done
        [] s.inTitle -> [done EXCEPT !.title = @ \o text]
        [] s.inHead -> done
        [] OTHER -> [done EXCEPT !.raw = @ \o text]

\* The end of a text node: kept unless a template, a script or the head
\* holds it.
FlushNode(s) ==
  LET done == [s EXCEPT !.node = <<>>, !.type = "none"]
      text == DecodeEntities(s.node)
  IN  CASE s.node = <<>> \/ s.templates > 0 \/ s.type = "script" -> done
        [] s.inTitle -> [done EXCEPT !.title = @ \o text]
        [] s.inHead -> done
        [] OTHER -> [done EXCEPT !.raw = @ \o Collapse(text)]

Text(s, x) ==
  LET paid == Charge(s, Len(x.text))
      node == [paid EXCEPT !.type = IF @ = "none" /\ x.text # <<>> THEN TextType(s) ELSE @,
                           !.node = @ \o x.text]
  IN  IF paid.error = "none" /\ x.last THEN FlushNode(node) ELSE node

\* A start tag outside the head's own elements ends the head; "br" is void.
Start(s, tag) ==
  LET head == [s EXCEPT !.inHead = @ /\ tag \in HeadContent]
      hooked == tag = "title" => ~s.titleDone
      in == IF tag = "br" THEN head
            ELSE [head EXCEPT !.open = Append(@, [tag |-> tag, hooked |-> hooked])]
  IN  CASE tag = "head" -> [in EXCEPT !.inHead = TRUE]
        [] tag = "title" -> IF s.titleDone THEN in ELSE [in EXCEPT !.inTitle = TRUE]
        [] tag = "template" -> [in EXCEPT !.templates = @ + 1]
        [] tag = "br" -> Push(in, Break)
        [] tag = "td" -> IF s.rowHasCell THEN Push(in, Tab) ELSE [in EXCEPT !.rowHasCell = TRUE]
        [] tag \in Blocks -> LET out == Push(in, Break)
                             IN  IF tag = "tr" /\ out.error = "none"
                                 THEN [out EXCEPT !.rowHasCell = FALSE] ELSE out
        [] OTHER -> in

\* What the end of an element does.
Ended(s, element) ==
  CASE s.error # "none" \/ ~element.hooked -> s
    [] element.tag = "head" -> [s EXCEPT !.inHead = FALSE]
    [] element.tag = "title" -> [s EXCEPT !.inTitle = FALSE, !.titleDone = TRUE]
    [] element.tag = "template" -> [s EXCEPT !.templates = IF @ > 0 THEN @ - 1 ELSE 0]
    [] element.tag \in Blocks -> Push(s, Break)
    [] OTHER -> s

End(s, tag) ==
  LET same == {i \in DOMAIN s.open : s.open[i].tag = tag}
      from == CHOOSE i \in same : \A j \in same : j <= i
  IN  IF same = {} THEN s
      ELSE FoldLeft(Ended, [s EXCEPT !.open = SubSeq(@, 1, from - 1)],
                    SubSeq(s.open, from, Len(s.open)))

StripStep(s, x) ==
  CASE s.error # "none" -> s
    [] x.e = "text" -> Text(s, x)
    [] x.e = "start" -> Start(s, x.tag)
    [] x.e = "end" -> End(s, x.tag)

Split(text, mark) ==
  LET put(parts, c) == IF c = mark THEN Append(parts, <<>>)
                       ELSE [parts EXCEPT ![Len(parts)] = Append(@, c)]
  IN  FoldLeft(put, << <<>> >>, text)

Trim(text) ==
  LET kept == {i \in DOMAIN text : text[i] # Space}
  IN  IF kept = {} THEN <<>>
      ELSE SubSeq(text, CHOOSE i \in kept : \A j \in kept : i <= j,
                        CHOOSE i \in kept : \A j \in kept : j <= i)

\* The cells of a line, without the empty ones at its end.
Line(text) ==
  LET parts == Split(text, Tab)
      cells == [i \in DOMAIN parts |-> Trim(Collapse(parts[i]))]
      kept == {i \in DOMAIN cells : cells[i] # <<>>} \cup {1}
      join(out, i) == out \o (IF i = 1 THEN <<>> ELSE <<Tab>>) \o cells[i]
  IN  FoldLeft(join, <<>>, [i \in 1..(CHOOSE i \in kept : \A j \in kept : j <= i) |-> i])

\* The title's line, then the lines, at most one blank one between two.
Assemble(title, raw) ==
  LET put(o, text) ==
        LET line == Line(text)
        IN  IF line = <<>> THEN [o EXCEPT !.blank = o.out # <<>>]
            ELSE [blank |-> FALSE,
                  out |-> o.out \o (IF o.blank THEN <<Break>> ELSE <<>>) \o Append(line, Break)]
      body == FoldLeft(put, [blank |-> FALSE, out |-> <<>>], Split(raw, Break)).out
      first == Trim(Collapse(title))
  IN  IF first = <<>> THEN body ELSE Append(first, Break) \o body

Strip(file) == FoldLeft(StripStep, StripState, file)

StripHtml(file) ==
  LET assemble(end) == Assemble(end.title, end.raw)
      outcome(s, text) ==
        CASE s.error # "none" -> [error |-> s.error, text |-> <<>>]
          [] file # <<>> /\ text = <<>> -> [error |-> "empty_output", text |-> <<>>]
          [] OTHER -> [error |-> "none", text |-> text]
      finish(s) == outcome(s, assemble(FlushNode(s)))
  IN  finish(Strip(file))

-----------------------------------------------------------------------------
(* What a document shows, for the checks: told by the elements around a    *)
(* word and the tags between two of them                                   *)

\* The start tags of the elements open at event i.
OpenAt(file, i) ==
  LET step(open, j) ==
        LET same == {k \in DOMAIN open : file[open[k]].tag = file[j].tag}
        IN  CASE file[j].e = "start" /\ file[j].tag # "br" -> Append(open, j)
              [] file[j].e = "end" /\ same # {} ->
                   SubSeq(open, 1, (CHOOSE k \in same : \A l \in same : l <= k) - 1)
              [] OTHER -> open
  IN  ToSet(FoldLeft(step, <<>>, [j \in 1..i - 1 |-> j]))

Inside(file, i, tag) == {k \in OpenAt(file, i) : file[k].tag = tag}

InHead(file, i) ==
  \E h \in Inside(file, i, "head") :
     ~\E j \in h + 1..i - 1 : file[j].e = "start" /\ file[j].tag \notin HeadContent

\* The first title of a document names it.
InTitle(file, i) ==
  \E t \in Inside(file, i, "title") :
     ~\E j \in 1..t - 1 : file[j].e = "start" /\ file[j].tag = "title"

Shown(file, i) ==
  /\ Inside(file, i, "script") = {} /\ Inside(file, i, "template") = {}
  /\ InTitle(file, i) \/ ~InHead(file, i)

\* Event k starts or ends a block, or starts a cell after another one.
BlockAt(file, k) ==
  \/ file[k].e = "start" /\ file[k].tag \in Blocks \cup {"br"}
  \/ file[k].e = "end" /\ \E b \in OpenAt(file, k) \ OpenAt(file, k + 1) : file[b].tag \in Blocks
NextCell(file, k) ==
  /\ file[k].e = "start" /\ file[k].tag = "td"
  /\ \E c \in 1..k - 1 : /\ file[c].e = "start" /\ file[c].tag = "td"
                         /\ ~\E r \in c..k : file[r].e = "start" /\ file[r].tag = "tr"

\* White space the body shows: a space, or a whole reference to a newline.
Whitespace(file, k) == file[k].e = "text" /\ Shown(file, k) /\ ~InTitle(file, k) /\
  \/ \E p \in DOMAIN file[k].text : file[k].text[p] = Space
  \/ /\ file[k].text = <<Half(2)>> /\ k > 1 /\ file[k - 1].e = "text"
     /\ ~file[k - 1].last /\ file[k - 1].text = <<Half(1)>>

ShownWords(file) ==
  SelectSeq([i \in DOMAIN file |-> i],
            LAMBDA i : file[i].e = "text" /\ file[i].text = <<<<"word", i>>>> /\ Shown(file, i))

\* What lies between two neighbouring words, by whether a block boundary,
\* another cell or white space does in the document.
GapIsRight(between, block, cell, white) ==
  /\ Break \in between <=> block
  /\ cell => between \cap {Tab, Break} # {}
  /\ ~block /\ ~cell => Tab \notin between /\ (white <=> Space \in between)

\* Every visible word is kept, in order, the title's first, and no hidden
\* one; a block boundary between two words is a line break between them, a
\* cell boundary at least a tab, and nothing else separates or joins them.
Keeps(file, text, title, body) ==
  LET at(i) == CHOOSE p \in DOMAIN text : text[p] = <<"word", i>>
      between(i, j) == {text[p] : p \in at(i) + 1..at(j) - 1}
  IN  /\ [k \in DOMAIN (title \o body) |-> <<"word", (title \o body)[k]>>]
           = SelectSeq(text, LAMBDA c : c[1] = "word")
      /\ \A t \in ToSet(title), i \in ToSet(body) : Break \in between(t, i)
      /\ \A k \in 1..Len(body) - 1 :
           LET inner == body[k] + 1..body[k + 1] - 1
           IN  GapIsRight(between(body[k], body[k + 1]), \E p \in inner : BlockAt(file, p),
                          \E p \in inner : NextCell(file, p), \E p \in inner : Whitespace(file, p))

VisibleTextIsKept(file) ==
  LET split(words) == <<SelectSeq(words, LAMBDA i : InTitle(file, i)),
                        SelectSeq(words, LAMBDA i : ~InTitle(file, i))>>
      keeps(out, parts) == out.error # "resource_limit" => Keeps(file, out.text, parts[1], parts[2])
  IN  keeps(StripHtml(file), split(ShownWords(file)))

=============================================================================
