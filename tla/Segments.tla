------------------------------ MODULE Segments ------------------------------
(***************************************************************************)
(* The segment records that address a text (src/src/segments.rs).  A text  *)
(* is a sequence of pieces of width one, and an offset counts pieces; that *)
(* an offset may split a character is left out with the characters.        *)
(***************************************************************************)
EXTENDS Naturals, Sequences, TLC

Span(start, end, source) ==
  [kind |-> "span", start |-> start, end |-> end, source |-> source, hidden |-> FALSE]
Boundary(kind, at) ==
  [kind |-> kind, start |-> at, end |-> at, source |-> "none", hidden |-> FALSE]
Hidden(seg) == [seg EXCEPT !.hidden = TRUE]

Before(s, t) == s.start < t.start \/ (s.start = t.start /\ s.end < t.end)

\* sort_by_key is stable.
Ordered(segs) ==
  LET tagged == [i \in DOMAIN segs |-> <<i, segs[i]>>]
      less(x, y) == Before(x[2], y[2]) \/ (~Before(y[2], x[2]) /\ x[1] < y[1])
      sorted == SortSeq(tagged, less)
  IN  [i \in DOMAIN segs |-> sorted[i][2]]

Valid(segs, len) ==
  \A i \in DOMAIN segs :
    /\ segs[i].start <= segs[i].end /\ segs[i].end <= len
    /\ segs[i].kind # "span" => segs[i].start = segs[i].end
    /\ i > 1 => ~Before(segs[i], segs[i - 1])

=============================================================================
