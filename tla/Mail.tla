-------------------------------- MODULE Mail --------------------------------
(***************************************************************************)
(* A message and the members it expands into (src/src/convert/eml.rs).     *)
(*                                                                         *)
(* A message is the sequence of its parts in the order they are written,   *)
(* each with the part that holds it (0 for the message itself), its type,  *)
(* whether it is marked as an attachment, and how many bytes its body      *)
(* decodes to: 0 when it shows nothing, -1 when it does not decode.        *)
(***************************************************************************)
EXTENDS Integers, Sequences, FiniteSets, SequencesExt

CONSTANTS MaxMailParts, MaxMailDepth, MaxMailBytes

ASSUME MailAssumption == {MaxMailParts, MaxMailDepth, MaxMailBytes} \subseteq Nat

Multipart == {"multipart/alternative", "multipart/mixed"}
TextTypes == {"text/plain", "text/html"}

SubParts(mail, i) == SelectSeq([j \in DOMAIN mail |-> j], LAMBDA j : mail[j].parent = i)

\* A nested message, and any leaf that is not text, is an attachment too.
IsAttachment(part) == part.attached \/ part.type \notin Multipart \cup TextTypes

MessageState == [error |-> "none", parts |-> 0, bytes |-> 0, bodies |-> <<>>, members |-> <<>>]

AccountPart(s) ==
  [s EXCEPT !.parts = @ + 1,
            !.error = IF s.parts + 1 > MaxMailParts THEN "resource_limit" ELSE @]

LiftMember(mail, i, s) ==
  CASE mail[i].bytes = -1 -> [s EXCEPT !.error = "mime_decode_error"]
    [] s.bytes + mail[i].bytes > MaxMailBytes -> [s EXCEPT !.error = "resource_limit"]
    [] OTHER -> [s EXCEPT !.bytes = @ + mail[i].bytes,
                          !.members = Append(@, [index |-> Len(@) + 1, part |-> i])]

PushBody(mail, i, s) ==
  CASE mail[i].bytes = -1 -> [s EXCEPT !.error = "mime_decode_error"]
    [] mail[i].bytes = 0 -> s
    [] OTHER -> [s EXCEPT !.bodies = Append(@, i)]

\* The rendition of an alternative: the plain one, else the html one, else
\* the first.
Rendition(mail, parts) ==
  LET of(type) == SelectSeq(parts, LAMBDA j : mail[j].type = type)
  IN  Head(of("text/plain") \o of("text/html") \o parts)

RECURSIVE Walk(_, _, _, _)

\* Faulty variant: every rendition of an alternative is walked.
WalkAlternativeWhole(mail, parts, depth, s) ==
  LET put(o, j) == Walk(mail, j, depth, o) IN FoldLeft(put, s, parts)

\* The other renditions are the same content: counted, and neither rendered
\* nor warned about.
WalkAlternative(mail, parts, depth, s) ==
  LET count(o, j) == IF o.error # "none" \/ j = Rendition(mail, parts) THEN o ELSE AccountPart(o)
  IN  IF parts = <<>> THEN s
      ELSE Walk(mail, Rendition(mail, parts), depth, FoldLeft(count, s, parts))

Walk(mail, i, depth, s) ==
  LET counted == AccountPart(s)
      put(o, j) == Walk(mail, j, depth + 1, o)
  IN  CASE s.error # "none" -> s
        [] depth > MaxMailDepth -> [s EXCEPT !.error = "resource_limit"]
        [] counted.error # "none" -> counted
        [] IsAttachment(mail[i]) -> LiftMember(mail, i, counted)
        [] mail[i].type = "multipart/alternative" ->
             WalkAlternative(mail, SubParts(mail, i), depth + 1, counted)
        [] mail[i].type = "multipart/mixed" -> FoldLeft(put, counted, SubParts(mail, i))
        [] OTHER -> PushBody(mail, i, counted)

\* A message that shows no header and no body is an error; so are its
\* members lost then.
ExpandEml(mail, headers) ==
  LET s == Walk(mail, 1, 0, MessageState)
  IN  IF s.error = "none" /\ ~headers /\ s.bodies = <<>>
      THEN [MessageState EXCEPT !.error = "empty_output"] ELSE s

-----------------------------------------------------------------------------
(* The parts a reader of the message would see, for the checks *)

\* j is the rendition of its alternative: none before it in preference.
Preferred(mail, j) ==
  LET rank(k) == CASE mail[k].type = "text/plain" -> 0 [] mail[k].type = "text/html" -> 1 [] OTHER -> 2
  IN  \A k \in DOMAIN mail : mail[k].parent = mail[j].parent /\ k # j =>
        \/ rank(k) > rank(j)
        \/ rank(k) = rank(j) /\ k > j

RECURSIVE Ancestors(_, _)
Ancestors(mail, i) == IF i = 1 THEN {} ELSE {mail[i].parent} \cup Ancestors(mail, mail[i].parent)

\* No part around i is lifted whole, and each that is a rendition is the chosen one.
Reached(mail, i) ==
  /\ \A j \in Ancestors(mail, i) : ~IsAttachment(mail[j])
  /\ \A j \in (Ancestors(mail, i) \cup {i}) \ {1} :
        mail[mail[j].parent].type = "multipart/alternative" => Preferred(mail, j)

\* Every part of the chosen renditions is in the artifact or among the
\* members, once and in order, and no alternative is there twice; anything
\* past a ceiling, or undecodable, fails the whole message.  The parts inside
\* a rendition that was not chosen are left out here.
EveryPartAccounted(mail, headers) ==
  LET out == ExpandEml(mail, headers)
      all == [i \in DOMAIN mail |-> i]
      members == SelectSeq(all, LAMBDA i : Reached(mail, i) /\ IsAttachment(mail[i]))
      texts == SelectSeq(all, LAMBDA i : Reached(mail, i) /\ ~IsAttachment(mail[i])
                                           /\ mail[i].type \in TextTypes)
      shown == SelectSeq(texts, LAMBDA i : mail[i].bytes > 0)
      counted == {i \in DOMAIN mail : i = 1 \/ (Reached(mail, mail[i].parent) /\ ~IsAttachment(mail[mail[i].parent]))}
      lifted == FoldLeft(LAMBDA n, i : n + mail[i].bytes, 0, members)
      fails == \/ \E i \in ToSet(members \o texts) : mail[i].bytes = -1
               \/ Cardinality(counted) > MaxMailParts
               \/ lifted > MaxMailBytes
               \/ \E i \in DOMAIN mail : Reached(mail, i) /\ Cardinality(Ancestors(mail, i)) > MaxMailDepth
               \/ ~headers /\ shown = <<>>
  IN  /\ out.error # "none" <=> fails
      /\ out.error = "none" =>
           /\ out.bodies = shown
           /\ [k \in DOMAIN out.members |-> out.members[k].part] = members

\* The parts the message itself has, not those of a message attached to it.
OwnParts(mail) == {i \in DOMAIN mail : \A j \in Ancestors(mail, i) : ~IsAttachment(mail[j])}

\* What is attached beside a text, not offered as another rendition of it.
EveryAttachmentLifted(mail) ==
  LET out == ExpandEml(mail, TRUE)
      beside(i) == i # 1 => mail[mail[i].parent].type # "multipart/alternative"
      lifted == {out.members[k].part : k \in DOMAIN out.members}
  IN  out.error = "none" =>
        \A i \in OwnParts(mail) : IsAttachment(mail[i]) /\ beside(i) => i \in lifted

EveryPartCounted(mail) ==
  ExpandEml(mail, TRUE).error = "none" => Cardinality(OwnParts(mail)) <= MaxMailParts

=============================================================================
