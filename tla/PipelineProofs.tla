-------------------------- MODULE PipelineProofs --------------------------
(***************************************************************************)
(* Proofs about Pipeline.tla, for every set of paths, contents, formats,   *)
(* converters, rules and disturbances.  The invariant is inductive only    *)
(* with what the run holds between two steps (its cursor, what the front   *)
(* read, the record it is about to write, the dedup index), so IInv says   *)
(* of each program counter what the earlier steps on this path ensured.    *)
(***************************************************************************)
EXTENDS Pipeline, WellFoundedInduction, TLAPS

\* The stages at which the run is working on `cur`, by what they hold.
Fronted == {"checkpoint", "borrow", "convert", "write_text", "write_seg"}
Writing == {"write_text", "write_seg"}
Dropping == {"drop_text", "drop_seg"}
Working == {"detect", "append"} \cup Fronted \cup Dropping
Decided == {"borrow", "convert", "append"} \cup Writing \cup Dropping

\* A path is recorded once per run, and the one being worked on is not
\* recorded yet.
CursorInv ==
  /\ done \cap todo = {}
  /\ pc \in Working => cur \in todo
  /\ pc \notin Working => cur = 0
  /\ pc = "idle" => dedup = [c \in Content |-> None]
  /\ pc \in {"detect"} \cup Fronted => hash \in Content
  /\ pc \in Fronted => format \in Format

\* What is about to be written is an artifact of the bytes that were hashed.
WritingInv ==
  pc \in Writing =>
    /\ art \in Artifact /\ rec \in Record
    /\ <<art.seg, art.text>> \in Fits
    /\ rec.status \in {"converted", "dedup"}
    /\ rec.text = art.text /\ rec.hash = hash /\ rec.rules = rules
    /\ Route[rules][format] # None
    /\ Sound(rec)

DroppingInv ==
  pc \in Dropping => rec \in Record /\ rec.status \notin TextBearing

AppendInv ==
  pc = "append" => /\ rec \in Record
                   /\ rec.status \in TextBearing => Sound(rec)

\* The index only offers what the converter makes of the bytes it is keyed by.
DedupInv ==
  \A c \in Content : dedup[c] # None =>
    /\ dedup[c] \in Canonical
    /\ Result[dedup[c].conv][rules][c] # Fail
    /\ Result[dedup[c].conv][rules][c].text = dedup[c].text

\* Up to the append, an undamaged mirror is what the record will claim.
MirrorInv ==
  cur \notin hurt =>
    /\ pc = "write_seg" => text[cur] = art.text
    /\ pc = "drop_seg" => text[cur] = None
    /\ pc = "append" => Mirrors(cur, rec)

\* Until somebody edits it, the source is what the front read.
FrontInv ==
  cur \notin touched =>
    /\ pc \in {"detect"} \cup Fronted => source[cur] = hash
    /\ pc \in Fronted => format = Detected[source[cur]]
    /\ pc \in Dropping \cup {"append"} => Current(cur, rec)

\* A settled source stays skippable, and the run never gets past its
\* checkpoint on one.
SettledInv ==
  /\ \A p \in settled : /\ source[p] \in Content
                        /\ Skippable(p, source[p], Detected[source[p]])
  /\ cur \in settled => /\ pc \notin Decided
                        /\ pc \in {"detect", "checkpoint"} => hash = source[cur]
                        /\ pc = "checkpoint" => format = Detected[source[cur]]

SoundInv == CursorInv /\ WritingInv /\ DroppingInv /\ AppendInv /\ DedupInv /\ RecordSound

IInv == /\ TypeOK /\ SoundInv
        /\ MirrorInv /\ MirrorMatchesManifest
        /\ FrontInv /\ RecordCurrent
        /\ SettledInv

-----------------------------------------------------------------------------
(* The walk's order and the seeded index *)

\* The next entry of a non-empty worklist is one of its entries.
LEMMA FirstType ==
  ASSUME NEW S, S \subseteq Path, S # {}
  PROVE  First(S) \in S
  <1>1. S \subseteq Nat
    BY DEF Path
  <1> DEFINE R == OpToRel(<, Nat)
  <1>2. \A i, j \in Nat : i < j => <<i, j>> \in R
    BY Zenon DEF OpToRel
  <1>3. PICK m \in S : \A k \in S : <<k, m>> \notin R
    <2>1. IsWellFoundedOn(R, Nat)
      BY NatLessThanWellFounded
    <2> HIDE DEF R
    <2> QED BY <1>1, <2>1, WFMin, Zenon
  <1> HIDE DEF R
  <1>4. \A k \in S : ~(k < m)
    BY <1>1, <1>2, <1>3, Zenon
  <1>5. \A k \in S : m =< k
    BY <1>1, <1>4, SMT
  <1> QED BY <1>5 DEF First

\* A shard of sound records seeds a sound index.
LEMMA SeededSound ==
  ASSUME TypeOK, RecordSound
  PROVE  /\ Seeded \in [Content -> Canonical \cup {None}]
         /\ \A c \in Content : Seeded[c] # None =>
              /\ Seeded[c] \in Canonical
              /\ Result[Seeded[c].conv][rules][c] # Fail
              /\ Result[Seeded[c].conv][rules][c].text = Seeded[c].text
  <1> SUFFICES ASSUME NEW c \in Content, Seeds(c) # {}
               PROVE  /\ Seeded[c] \in Canonical
                      /\ Result[Seeded[c].conv][rules][c] # Fail
                      /\ Result[Seeded[c].conv][rules][c].text = Seeded[c].text
    BY DEF Seeded
  <1> DEFINE p == First(Seeds(c))
             r == terminal[p]
  <1>1. p \in Path /\ Seedable(p) /\ r.hash = c
    <2>1. Seeds(c) \subseteq Path
      BY DEF Seeds
    <2>2. p \in Seeds(c)
      BY <2>1, FirstType
    <2> QED BY <2>2 DEF Seeds
  <1>2. r \in Record /\ r.rules = rules /\ r.status \in TextBearing /\ Sound(r)
    BY <1>1 DEF Seedable, TypeOK, RecordSound, TextBearing
  <1>3. /\ r.conv \in Conv /\ rules \in Version
        /\ Result[r.conv][rules][c] # Fail
        /\ Result[r.conv][rules][c].text = r.text
    BY <1>1, <1>2 DEF Sound, Record, TypeOK
  <1>4. r.text \in Text
    <2>1. Result[r.conv][rules][c] \in Artifact
      BY <1>3, PipelineAssumption
    <2> QED BY <1>3, <2>1 DEF Artifact
  <1>5. Seeded[c] = [path |-> p, text |-> r.text, conv |-> r.conv]
    BY DEF Seeded
  <1> HIDE DEF p, r
  <1> QED BY <1>1, <1>3, <1>4, <1>5 DEF Canonical
-----------------------------------------------------------------------------
(* Every step keeps the types *)

\* The initial states satisfy every part of the inductive invariant.
LEMMA InitIInv == Init => IInv
  <1> SUFFICES ASSUME Init PROVE IInv
    OBVIOUS
  <1> USE PipelineAssumption DEF Init, Idle
  <1>1. TypeOK
    BY DEF TypeOK, Version
  <1>2. SoundInv
    BY DEF SoundInv, CursorInv, WritingInv, DroppingInv, AppendInv, DedupInv,
       RecordSound, Working, Fronted, Writing, Dropping
  <1>3. MirrorInv /\ MirrorMatchesManifest /\ FrontInv /\ RecordCurrent /\ SettledInv
    BY DEF MirrorInv, MirrorMatchesManifest, FrontInv, RecordCurrent, SettledInv,
       Fronted, Dropping
  <1> QED BY <1>1, <1>2, <1>3 DEF IInv

\* What convert_leaf emits: a failure, an unsupported record, or an artifact
\* that fits, made by the routed converter of the bytes that were hashed.
LEMMA ConvertType ==
  ASSUME NEW k \in Conv, NEW c \in Content, TypeOK, Result[k][rules][c] # Fail
  PROVE  /\ Result[k][rules][c] \in Artifact
         /\ Result[k][rules][c].text \in Text /\ Result[k][rules][c].seg \in Seg
         /\ <<Result[k][rules][c].seg, Result[k][rules][c].text>> \in Fits
  <1>1. rules \in Version
    BY DEF TypeOK
  <1>2. Result[k][rules][c] \in Artifact
    BY <1>1, PipelineAssumption
  <1> QED BY <1>1, <1>2, PipelineAssumption DEF Artifact

\* A format routes to a converter or to none.
LEMMA RouteType ==
  ASSUME NEW f \in Format, TypeOK
  PROVE  Route[rules][f] \in Conv \cup {None}
  BY PipelineAssumption DEF TypeOK

\* Every step of the run and of its environment keeps the types.
LEMMA TypeStep == IInv /\ [Next]_vars => TypeOK'
  <1> SUFFICES ASSUME TypeOK, SoundInv, [Next]_vars PROVE TypeOK'
    BY DEF IInv
  <1> USE PipelineAssumption DEF TypeOK, disk, work
  <1>1. CASE Start
    BY <1>1, SeededSound DEF Start, SoundInv
  <1>2. CASE Hash
    <2>1. todo # {} /\ cur' = First(todo) /\ cur' \in Path
      BY <1>2, FirstType DEF Hash
    <2> QED BY <1>2, <2>1 DEF Hash, Unreadable, NewRecord, Record, Status
  <1>3. CASE Detect
    <2>1. cur \in Path
      BY <1>3 DEF Detect, SoundInv, CursorInv, Working
    <2> QED BY <1>3, <2>1 DEF Detect, Unreadable, NewRecord, Record, Status
  <1>4. CASE Skip
    <2>1. cur \in Path /\ terminal[cur] \in Record
      BY <1>4 DEF Skip, Skippable, SoundInv, CursorInv, Working, Fronted
    <2>2. [terminal[cur] EXCEPT !.status = "skipped_unchanged"] \in Record
      BY <2>1 DEF Record, Status, TextBearing
    <2> QED BY <1>4, <2>1, <2>2 DEF Skip, Recorded
  <1>5. CASE Changed \/ NoBorrow
    BY <1>5 DEF Changed, NoBorrow
  <1>6. CASE Borrow
    <2>1. hash \in Content /\ format \in Format /\ dedup[hash] \in Canonical
      BY <1>6 DEF Borrow, Borrowable, SoundInv, CursorInv, DedupInv, Fronted
    <2>2. seg[dedup[hash].path] \in Seg
      BY <1>6, <2>1 DEF Borrow, Borrowable, EnvelopeIntact, Canonical
    <2> QED BY <1>6, <2>1, <2>2
        DEF Borrow, WithText, Record, Status, TextBearing, Artifact, Canonical
  <1>7. CASE Convert
    <2>1. hash \in Content /\ format \in Format
      BY <1>7 DEF Convert, SoundInv, CursorInv, Fronted
    <2>2. Route[rules][format] \in Conv \cup {None}
      BY <2>1, RouteType
    <2>3. CASE Route[rules][format] = None
      BY <1>7, <2>1, <2>3 DEF Convert, NewRecord, Record, Status
    <2> DEFINE k == Route[rules][format]
    <2>4. CASE k # None /\ (source[cur] # hash \/ Result[k][rules][hash] = Fail)
      <3>1. rec' \in Record /\ pc' = "drop_text" /\ art' = art
        BY <1>7, <2>1, <2>2, <2>4
        DEF Convert, NewRecord, Attributed, Record, Status, TextBearing
      <3> QED BY <1>7, <3>1 DEF Convert
    <2>5. CASE k # None /\ source[cur] = hash /\ Result[k][rules][hash] # Fail
      <3>1. k \in Conv
        BY <2>2, <2>5
      <3>2. art' = Result[k][rules][hash] /\ pc' = "write_text"
            /\ rec' = WithText("converted", hash, format, k, Result[k][rules][hash].text, 0)
        BY <1>7, <2>5 DEF Convert
      <3>3. art' \in Artifact /\ Result[k][rules][hash].text \in Text
        BY <2>1, <2>5, <3>1, <3>2, ConvertType
      <3>4. rec' \in Record
        BY <2>1, <3>1, <3>2, <3>3 DEF WithText, Record, Status, TextBearing
      <3> QED BY <1>7, <3>2, <3>3, <3>4 DEF Convert
    <2> QED BY <2>3, <2>4, <2>5
  <1>8. CASE WriteText \/ WriteSeg
    <2>1. cur \in Path /\ art \in Artifact /\ rec \in Record /\ hash \in Content
          /\ rec.conv \in Conv /\ rec.text = art.text
      BY <1>8 DEF WriteText, WriteSeg, SoundInv, CursorInv, WritingInv, Writing,
         Working, Fronted, Sound, Record
    <2>2. art.text \in Text /\ art.seg \in Seg
      BY <2>1 DEF Artifact
    <2>3. CASE WriteText
      BY <2>1, <2>2, <2>3 DEF WriteText
    <2>4. CASE WriteSeg
      <3>1. [path |-> cur, text |-> rec.text, conv |-> rec.conv] \in Canonical
        BY <2>1, <2>2 DEF Canonical
      <3>2. dedup' \in [Content -> Canonical \cup {None}]
        BY <2>1, <2>4, <3>1 DEF WriteSeg
      <3> QED BY <2>1, <2>2, <2>4, <3>2 DEF WriteSeg
    <2> QED BY <1>8, <2>3, <2>4
  <1>9. CASE WriteFails
    <2>1. cur \in Path /\ rec \in Record /\ hash \in Content /\ format \in Format
      BY <1>9 DEF WriteFails, SoundInv, CursorInv, WritingInv, Writing, Working, Fronted
    <2>2. rec' \in Record
      BY <1>9, <2>1 DEF WriteFails, Attributed, NewRecord, Record, Status
    <2>3. used' \in 0..MaxDisturbances /\ hurt' = hurt \cup {cur}
      BY <1>9 DEF WriteFails, Fault, Disturb
    <2> QED BY <1>9, <2>1, <2>2, <2>3 DEF WriteFails
  <1>10. CASE DropText \/ DropSeg
    <2>1. cur \in Path
      BY <1>10 DEF DropText, DropSeg, SoundInv, CursorInv, Working, Dropping
    <2>2. used' \in 0..MaxDisturbances /\ hurt' \subseteq Path
      BY <1>10, <2>1 DEF DropText, DropSeg, Fault, Disturb
    <2>3. text' \in [Path -> Text \cup {None}] /\ seg' \in [Path -> Seg \cup {None}]
      BY <1>10, <2>1 DEF DropText, DropSeg
    <2> QED BY <1>10, <2>1, <2>2, <2>3 DEF DropText, DropSeg
  <1>11. CASE AppendRecord
    <2>1. cur \in Path /\ rec \in Record
      BY <1>11 DEF AppendRecord, SoundInv, CursorInv, AppendInv, Working
    <2> QED BY <1>11, <2>1 DEF AppendRecord, Recorded
  <1>12. CASE Finish \/ Kill
    BY <1>12 DEF Finish, Kill, Disturb, Stopped
  <1>13. CASE \E p \in Path : \E c \in Content \cup {Absent} : Edit(p, c)
    BY <1>13 DEF Edit, Disturb
  <1>14. CASE \E p \in Path : Damage(p)
    <2> PICK p \in Path : Damage(p)
      BY <1>14
    <2>1. used' \in 0..MaxDisturbances
      BY DEF Damage, Disturb
    <2>2. text' \in [Path -> Text \cup {None}] /\ seg' \in [Path -> Seg \cup {None}]
      <3>1. CASE \E t \in Text \cup {None} : text' = [text EXCEPT ![p] = t] /\ seg' = seg
        BY <3>1
      <3>2. CASE text' = text /\ seg' = [seg EXCEPT ![p] = None]
        BY <3>2
      <3> QED BY <3>1, <3>2 DEF Damage
    <2> QED BY <2>1, <2>2 DEF Damage
  <1>15. CASE Bump
    BY <1>15 DEF Bump, Version
  <1>16. CASE UNCHANGED vars
    BY <1>16 DEF vars
  <1> QED
    BY <1>1, <1>2, <1>3, <1>4, <1>5, <1>6, <1>7, <1>8, <1>9, <1>10, <1>11, <1>12,
       <1>13, <1>14, <1>15, <1>16 DEF Next, Run, Environment
-----------------------------------------------------------------------------
(* Every step keeps the records sound *)

\* The run works on one unrecorded path at a time, with its front read.
LEMMA CursorStep == IInv /\ [Next]_vars => CursorInv'
  <1> SUFFICES ASSUME TypeOK, CursorInv, [Next]_vars PROVE CursorInv'
    BY DEF IInv, SoundInv
  <1> USE PipelineAssumption
      DEF CursorInv, disk, work, Working, Fronted, Writing, Dropping
  <1>1. CASE Start
    BY <1>1 DEF Start
  <1>2. CASE Hash
    <2>1. todo \subseteq Path /\ todo # {} /\ cur' = First(todo) /\ cur' \in todo
      BY <1>2, FirstType DEF Hash, TypeOK
    <2>2. source[cur'] \in Content \cup {Absent}
      BY <2>1 DEF TypeOK
    <2> QED BY <1>2, <2>1, <2>2 DEF Hash, Unreadable
  <1>3. CASE Detect
    <2>1. source[cur] \in Content \cup {Absent}
      BY <1>3 DEF Detect, TypeOK
    <2> QED BY <1>3, <2>1 DEF Detect, Unreadable
  <1>4. CASE Skip \/ AppendRecord
    <2>1. /\ done' = done \cup {cur} /\ todo' = todo \ {cur} /\ pc' = "next" /\ cur' = 0
          /\ pc # "idle"
      BY <1>4 DEF Skip, AppendRecord, Recorded
    <2> QED BY <2>1
  <1>5. CASE Changed \/ NoBorrow \/ Borrow
    BY <1>5 DEF Changed, NoBorrow, Borrow
  <1>6. CASE Convert
    BY <1>6 DEF Convert
  <1>7. CASE WriteText \/ WriteSeg \/ WriteFails
    BY <1>7 DEF WriteText, WriteSeg, WriteFails
  <1>8. CASE DropText \/ DropSeg
    BY <1>8 DEF DropText, DropSeg
  <1>9. CASE Finish \/ Kill
    BY <1>9 DEF Finish, Kill, Stopped
  <1>10. CASE \E p \in Path : \E c \in Content \cup {Absent} : Edit(p, c)
    BY <1>10 DEF Edit
  <1>11. CASE \E p \in Path : Damage(p)
    BY <1>11 DEF Damage
  <1>12. CASE Bump \/ UNCHANGED vars
    BY <1>12 DEF Bump, vars
  <1> QED
    BY <1>1, <1>2, <1>3, <1>4, <1>5, <1>6, <1>7, <1>8, <1>9, <1>10, <1>11, <1>12
    DEF Next, Run, Environment

\* What a borrow is about to write: the canonical's text, and a sidecar that
\* fits it.
LEMMA BorrowSound ==
  ASSUME IInv, Borrow
  PROVE  WritingInv'
  <1> USE DEF IInv, SoundInv
  <1>1. hash \in Content /\ format \in Format /\ dedup[hash] \in Canonical
    BY DEF Borrow, Borrowable, CursorInv, DedupInv, Fronted
  <1> DEFINE d == dedup[hash]
  <1>2. d.path \in Path /\ d.text \in Text /\ d.conv \in Conv
    BY <1>1 DEF Canonical
  <1>3. /\ Result[d.conv][rules][hash] # Fail
        /\ Result[d.conv][rules][hash].text = d.text
    BY <1>1 DEF Borrow, Borrowable, DedupInv
  <1>4. seg[d.path] \in Seg /\ <<seg[d.path], d.text>> \in Fits
        /\ d.conv = Route[rules][format]
    BY <1>2 DEF Borrow, Borrowable, EnvelopeIntact, TypeOK
  <1>5. /\ art' = [text |-> d.text, seg |-> seg[d.path]]
        /\ rec' = WithText("dedup", hash, format, d.conv, d.text, d.path)
        /\ UNCHANGED <<rules, hash, format>>
    BY DEF Borrow, work, disk
  <1> HIDE DEF d
  <1>6. rec' \in Record /\ art' \in Artifact
    BY <1>1, <1>2, <1>4, <1>5
    DEF WithText, Record, Status, TextBearing, Artifact, TypeOK
  <1>7. hash # None /\ d.conv # None
    BY <1>1, <1>2, PipelineAssumption
  <1>8. Sound(rec)'
    BY <1>3, <1>5, <1>7 DEF Sound, WithText
  <1> QED BY <1>4, <1>5, <1>6, <1>7, <1>8 DEF WritingInv, WithText

\* What a conversion is about to write, or that it dropped the text.
LEMMA ConvertSound ==
  ASSUME IInv, Convert
  PROVE  WritingInv' /\ DroppingInv' /\ AppendInv'
  <1> USE DEF IInv, SoundInv
  <1> DEFINE k == Route[rules][format]
             r == Result[k][rules][hash]
  <1>1. /\ hash \in Content /\ format \in Format
        /\ UNCHANGED <<rules, hash, format>>
    BY DEF Convert, CursorInv, Fronted, work, disk
  <1>2. k \in Conv \cup {None}
    BY <1>1, RouteType
  <1>3. CASE k = None
    <2>1. pc' = "drop_text" /\ rec' = NewRecord("unsupported", hash, format)
      BY <1>3 DEF Convert
    <2> QED BY <1>1, <2>1
            DEF WritingInv, DroppingInv, AppendInv, Writing, NewRecord, Record, Status,
                TextBearing, TypeOK
  <1>4. CASE k # None /\ (source[cur] # hash \/ r = Fail)
    <2>1. pc' = "drop_text" /\ rec' = Attributed(NewRecord("failed", hash, format), k)
      BY <1>4 DEF Convert
    <2> QED BY <1>1, <1>2, <2>1
            DEF WritingInv, DroppingInv, AppendInv, Writing, NewRecord, Attributed,
                Record, Status, TextBearing, TypeOK
  <1>5. CASE k # None /\ source[cur] = hash /\ r # Fail
    <2>1. /\ pc' = "write_text" /\ art' = r
          /\ rec' = WithText("converted", hash, format, k, r.text, 0)
      BY <1>5 DEF Convert
    <2>2. k \in Conv /\ r \in Artifact /\ r.text \in Text /\ <<r.seg, r.text>> \in Fits
      BY <1>1, <1>2, <1>5, ConvertType
    <2> HIDE DEF k, r
    <2>3. rec' \in Record
      BY <1>1, <2>1, <2>2 DEF WithText, Record, Status, TextBearing, TypeOK
    <2>4. hash # None
      BY <1>1, PipelineAssumption
    <2>5. Sound(rec)'
      BY <1>5, <2>1, <2>4 DEF Sound, WithText, k, r
    <2>6. Route[rules][format] # None
      BY <1>5 DEF k
    <2> QED BY <1>1, <2>1, <2>2, <2>3, <2>5, <2>6
            DEF WritingInv, DroppingInv, AppendInv, Dropping, WithText
  <1> QED BY <1>3, <1>4, <1>5

\* What is held between two steps of an emission stays what it was.
LEMMA EmissionStep == IInv /\ [Next]_vars => WritingInv' /\ DroppingInv' /\ AppendInv'
  <1> SUFFICES ASSUME IInv, [Next]_vars
               PROVE  WritingInv' /\ DroppingInv' /\ AppendInv'
    OBVIOUS
  <1> USE DEF disk, work, Writing, Dropping
  <1>1. CASE Hash \/ Detect
    <2>1. pc' \in {"drop_text", "detect", "checkpoint"}
      BY <1>1 DEF Hash, Detect, Unreadable
    <2>2. pc' = "drop_text" => rec' = NewRecord("failed", None, None)
      BY <1>1 DEF Hash, Detect, Unreadable
    <2>3. pc' = "drop_text" => rec' \in Record /\ rec'.status \notin TextBearing
      BY <1>1, <2>2 DEF Hash, Detect, NewRecord, Record, Status, TextBearing, IInv, TypeOK
    <2> QED BY <2>1, <2>3 DEF WritingInv, DroppingInv, AppendInv
  <1>2. CASE Start \/ Skip \/ Changed \/ NoBorrow \/ AppendRecord \/ Finish \/ Kill
    <2>1. pc' \in {"idle", "next", "borrow", "convert"}
      BY <1>2 DEF Start, Skip, Changed, NoBorrow, AppendRecord, Recorded, Finish, Kill,
         Stopped
    <2> QED BY <2>1 DEF WritingInv, DroppingInv, AppendInv
  <1>3. CASE Borrow
    BY <1>3, BorrowSound DEF Borrow, DroppingInv, AppendInv
  <1>4. CASE Convert
    BY <1>4, ConvertSound
  <1>5. CASE WriteText \/ WriteSeg
    <2>1. UNCHANGED <<rec, art, rules, hash, format>> /\ pc' \in {"write_seg", "append"}
          /\ pc \in Writing
      BY <1>5 DEF WriteText, WriteSeg
    <2> QED BY <2>1
            DEF IInv, SoundInv, WritingInv, DroppingInv, AppendInv, Sound
  <1>6. CASE WriteFails
    <2>1. rec \in Record /\ hash \in Content /\ format \in Format /\ pc' = "drop_text"
          /\ rules \in Version
      BY <1>6 DEF WriteFails, IInv, SoundInv, CursorInv, WritingInv, Fronted, TypeOK
    <2>2. rec' \in Record /\ rec'.status = "failed"
      BY <1>6, <2>1 DEF WriteFails, Attributed, NewRecord, Record, Status
    <2> QED BY <2>1, <2>2 DEF WritingInv, DroppingInv, AppendInv, TextBearing
  <1>7. CASE DropText \/ DropSeg
    <2>1. UNCHANGED rec /\ pc' \in {"drop_seg", "append"} /\ pc \in Dropping
      BY <1>7 DEF DropText, DropSeg
    <2> QED BY <2>1 DEF IInv, SoundInv, DroppingInv, WritingInv, AppendInv
  <1>8. CASE Bump
    BY <1>8 DEF Bump, WritingInv, DroppingInv, AppendInv
  <1>9. CASE UNCHANGED <<pc, rec, art, rules, hash, format>>
    BY <1>9 DEF IInv, SoundInv, WritingInv, DroppingInv, AppendInv, Sound
  <1>10. ASSUME \/ \E p \in Path : \E c \in Content \cup {Absent} : Edit(p, c)
                \/ \E p \in Path : Damage(p)
                \/ UNCHANGED vars
         PROVE  UNCHANGED <<pc, rec, art, rules, hash, format>>
    BY <1>10 DEF Edit, Damage, vars
  <1> QED
    BY <1>1, <1>2, <1>3, <1>4, <1>5, <1>6, <1>7, <1>8, <1>9, <1>10
    DEF Next, Run, Environment

\* The index is seeded from sound records and extended with conversions.
LEMMA DedupStep == IInv /\ [Next]_vars => DedupInv'
  <1> SUFFICES ASSUME IInv, [Next]_vars PROVE DedupInv'
    OBVIOUS
  <1> USE DEF IInv, SoundInv, disk, work
  <1>1. CASE Start
    <2>1. dedup' = Seeded /\ rules' = rules
      BY <1>1 DEF Start
    <2> QED BY <2>1, SeededSound DEF DedupInv
  <1>2. CASE WriteSeg
    <2>1. /\ Sound(rec) /\ rec.hash = hash /\ rec.rules = rules /\ rec \in Record
          /\ cur \in Path /\ hash \in Content
      BY <1>2 DEF WriteSeg, WritingInv, Writing, CursorInv, Working, Fronted, TypeOK
    <2>2. /\ rec.conv \in Conv /\ Result[rec.conv][rules][hash] # Fail
          /\ Result[rec.conv][rules][hash].text = rec.text
      BY <2>1 DEF Sound, Record
    <2>3. rec.text \in Text
      BY <2>1, <2>2, ConvertType
    <2> DEFINE d == [path |-> cur, text |-> rec.text, conv |-> rec.conv]
    <2>4. d \in Canonical /\ d.conv = rec.conv /\ d.text = rec.text
      BY <2>1, <2>2, <2>3 DEF Canonical
    <2>5. rules' = rules /\ (dedup' = dedup \/ dedup' = [dedup EXCEPT ![hash] = d])
      BY <1>2 DEF WriteSeg
    <2> HIDE DEF d
    <2> QED BY <2>1, <2>2, <2>4, <2>5 DEF DedupInv, TypeOK
  <1>3. CASE Finish \/ Kill \/ Bump
    <2>1. \A c \in Content : dedup'[c] = None
      BY <1>3 DEF Finish, Kill, Stopped, Bump, CursorInv
    <2> QED BY <2>1 DEF DedupInv
  <1>4. CASE UNCHANGED <<dedup, rules>>
    BY <1>4 DEF DedupInv
  <1>5. ASSUME \/ Hash \/ Detect \/ Skip \/ Changed \/ Borrow \/ NoBorrow \/ Convert
               \/ WriteText \/ WriteFails \/ DropText \/ DropSeg \/ AppendRecord
               \/ \E p \in Path : \E c \in Content \cup {Absent} : Edit(p, c)
               \/ \E p \in Path : Damage(p)
               \/ UNCHANGED vars
        PROVE  UNCHANGED <<dedup, rules>>
    BY <1>5 DEF Hash, Detect, Skip, Changed, Borrow, NoBorrow, Convert, WriteText,
       WriteFails, DropText, DropSeg, AppendRecord, Edit, Damage, vars
  <1> QED
    BY <1>1, <1>2, <1>3, <1>4, <1>5 DEF Next, Run, Environment

\* The only record a step changes is the current path's, and only to a
\* sound one.
LEMMA RecordSoundStep == IInv /\ [Next]_vars => RecordSound'
  <1> SUFFICES ASSUME IInv, [Next]_vars PROVE RecordSound'
    OBVIOUS
  <1> USE DEF IInv, SoundInv, disk, work
  <1>1. CASE Skip
    <2> DEFINE r == [terminal[cur] EXCEPT !.status = "skipped_unchanged"]
    <2>1. cur \in Path /\ terminal' = [terminal EXCEPT ![cur] = r]
      BY <1>1 DEF Skip, Recorded, CursorInv, Working, Fronted, TypeOK
    <2>2. terminal[cur] \in Record /\ Sound(terminal[cur])
      BY <1>1, <2>1 DEF Skip, Skippable, RecordSound, TypeOK
    <2>3. Sound(r)
      BY <2>2 DEF Sound, Record
    <2> HIDE DEF r
    <2> QED BY <2>1, <2>3 DEF RecordSound, TypeOK, Sound
  <1>2. CASE AppendRecord
    <2>1. cur \in Path /\ terminal' = [terminal EXCEPT ![cur] = rec]
          /\ (rec.status \in TextBearing => Sound(rec))
      BY <1>2 DEF AppendRecord, Recorded, CursorInv, Working, AppendInv, TypeOK
    <2> QED BY <2>1 DEF RecordSound, TypeOK, Sound
  <1>3. CASE UNCHANGED terminal
    BY <1>3 DEF RecordSound, Sound
  <1>4. ASSUME ~Skip, ~AppendRecord
        PROVE  UNCHANGED terminal
    BY <1>4 DEF Next, Run, Environment, Start, Hash, Detect, Changed, Borrow, NoBorrow,
       Convert, WriteText, WriteSeg, WriteFails, DropText, DropSeg, Finish, Kill, Stopped,
       Edit, Damage, Bump, vars
  <1> QED BY <1>1, <1>2, <1>3, <1>4

\* The parts of SoundInv together.
LEMMA SoundStep == IInv /\ [Next]_vars => SoundInv'
  BY CursorStep, EmissionStep, DedupStep, RecordSoundStep DEF SoundInv

-----------------------------------------------------------------------------
(* Every step keeps recorded mirrors as their records claim *)

\* A mirror the step does not touch, of a path whose record it keeps.
LEMMA MirrorKept ==
  ASSUME IInv, UNCHANGED <<text, seg, terminal>>, done' \ hurt' \subseteq done \ hurt
  PROVE  MirrorMatchesManifest'
  BY DEF IInv, MirrorMatchesManifest, Mirrors, EnvelopeIntact

\* A step that writes or drops at `cur` leaves every recorded path alone.
LEMMA MirrorElsewhere ==
  ASSUME IInv, pc \in Working, UNCHANGED <<terminal, done>>, hurt \subseteq hurt',
         \A p \in Path \ {cur} : text'[p] = text[p] /\ seg'[p] = seg[p]
  PROVE  MirrorMatchesManifest'
  <1>1. cur \notin done /\ done \subseteq Path
    BY DEF IInv, SoundInv, CursorInv, TypeOK
  <1> QED BY <1>1 DEF IInv, MirrorMatchesManifest, Mirrors, EnvelopeIntact

\* Recording `cur` with a record its mirror matches keeps the property.
LEMMA MirrorRecorded ==
  ASSUME IInv, NEW r, pc \in Working, cur \notin hurt => Mirrors(cur, r), Recorded(r),
         UNCHANGED <<text, seg, hurt>>
  PROVE  MirrorMatchesManifest' /\ MirrorInv'
  <1>1. cur \in Path /\ pc' = "next" /\ done' = done \cup {cur}
        /\ terminal' = [terminal EXCEPT ![cur] = r] /\ done \subseteq Path
        /\ terminal \in [Path -> Record \cup {None}]
    BY DEF IInv, SoundInv, CursorInv, TypeOK, Recorded
  <1>2. ASSUME NEW p \in done' \ hurt' PROVE Mirrors(p, terminal[p])'
    <2>1. CASE p = cur
      BY <1>1, <2>1 DEF Mirrors, EnvelopeIntact
    <2>2. CASE p # cur
      <3>1. p \in done \ hurt /\ terminal'[p] = terminal[p]
        BY <1>1, <1>2, <2>2
      <3> QED BY <3>1 DEF IInv, MirrorMatchesManifest, Mirrors, EnvelopeIntact
    <2> QED BY <2>1, <2>2
  <1> QED BY <1>1, <1>2 DEF MirrorMatchesManifest, MirrorInv

\* Artifacts are written and dropped only at `cur`, before it is recorded.
LEMMA MirrorStep == IInv /\ [Next]_vars => MirrorMatchesManifest' /\ MirrorInv'
  <1> SUFFICES ASSUME IInv, [Next]_vars PROVE MirrorMatchesManifest' /\ MirrorInv'
    OBVIOUS
  <1> USE DEF disk, work
  <1>1. CASE Start
    BY <1>1 DEF Start, MirrorMatchesManifest, MirrorInv
  <1>2. CASE Hash
    <2>1. todo \subseteq Path /\ cur' \in todo /\ done' = done /\ hurt' = hurt \ {cur'}
          /\ UNCHANGED <<text, seg, terminal>> /\ pc' \in {"detect", "drop_text"}
      BY <1>2, FirstType DEF Hash, Unreadable, IInv, TypeOK
    <2>2. cur' \notin done
      BY <2>1 DEF IInv, SoundInv, CursorInv
    <2> QED BY <2>1, <2>2, MirrorKept DEF MirrorInv
  <1>3. CASE Detect \/ Changed \/ Borrow \/ NoBorrow \/ Convert \/ WriteFails \/ Finish
             \/ Kill \/ Bump
    <2>1. /\ UNCHANGED <<text, seg, terminal>> /\ done' \subseteq done
          /\ hurt \subseteq hurt'
          /\ pc' \notin {"write_seg", "drop_seg", "append"}
      BY <1>3 DEF Detect, Unreadable, Changed, Borrow, NoBorrow, Convert, WriteFails,
         Fault, Finish, Kill, Stopped, Bump
    <2> QED BY <2>1, MirrorKept DEF MirrorInv
  <1>4. CASE Skip
    <2> DEFINE r == [terminal[cur] EXCEPT !.status = "skipped_unchanged"]
    <2>1. pc \in Working /\ Recorded(r) /\ UNCHANGED <<text, seg, hurt>>
          /\ cur \in Path /\ terminal[cur] \in Record
          /\ EnvelopeIntact(cur, terminal[cur].text)
      BY <1>4 DEF Skip, Skippable, Working, Fronted, IInv, SoundInv, CursorInv, TypeOK
    <2>2. Mirrors(cur, r)
      BY <2>1 DEF Mirrors, Record, TextBearing
    <2> HIDE DEF r
    <2> QED BY <2>1, <2>2, MirrorRecorded
  <1>5. CASE AppendRecord
    BY <1>5, MirrorRecorded DEF AppendRecord, Working, IInv, MirrorInv
  <1>6. CASE WriteText
    <2>1. cur \in Path /\ text' = [text EXCEPT ![cur] = art.text] /\ pc \in Working
          /\ UNCHANGED <<seg, terminal, done, hurt, cur, art>> /\ pc' = "write_seg"
      BY <1>6 DEF WriteText, Working, Fronted, IInv, SoundInv, CursorInv, TypeOK
    <2>2. MirrorInv'
      BY <2>1 DEF MirrorInv, IInv, TypeOK
    <2> QED BY <2>1, <2>2, MirrorElsewhere DEF IInv, TypeOK
  <1>7. CASE WriteSeg
    <2>1. cur \in Path /\ seg' = [seg EXCEPT ![cur] = art.seg] /\ pc \in Working
          /\ UNCHANGED <<text, terminal, done, hurt, cur, rec>> /\ pc' = "append"
      BY <1>7 DEF WriteSeg, Working, Fronted, IInv, SoundInv, CursorInv, TypeOK
    <2>2. /\ art \in Artifact /\ <<art.seg, art.text>> \in Fits /\ rec.text = art.text
          /\ rec.status \in TextBearing
      BY <1>7 DEF WriteSeg, IInv, SoundInv, WritingInv, Writing, TextBearing
    <2>3. art.seg # None
      BY <2>2, PipelineAssumption DEF Artifact
    <2>4. cur \notin hurt => text[cur] = art.text
      BY <1>7 DEF WriteSeg, IInv, MirrorInv
    <2>5. MirrorInv'
      BY <2>1, <2>2, <2>3, <2>4 DEF MirrorInv, Mirrors, EnvelopeIntact, IInv, TypeOK
    <2> QED BY <2>1, <2>5, MirrorElsewhere DEF IInv, TypeOK
  <1>8. CASE DropText
    <2>1. cur \in Path /\ pc \in Working /\ pc' = "drop_seg"
          /\ UNCHANGED <<seg, terminal, done, cur>>
          /\ \/ text' = [text EXCEPT ![cur] = None] /\ hurt' = hurt
             \/ text' = text /\ hurt' = hurt \cup {cur}
      BY <1>8 DEF DropText, Fault, Working, Dropping, IInv, SoundInv, CursorInv, TypeOK
    <2>2. MirrorInv'
      BY <2>1 DEF MirrorInv, IInv, TypeOK
    <2> QED BY <2>1, <2>2, MirrorElsewhere DEF IInv, TypeOK
  <1>9. CASE DropSeg
    <2>1. cur \in Path /\ pc \in Working /\ pc = "drop_seg" /\ pc' = "append"
          /\ UNCHANGED <<text, terminal, done, cur, rec>>
          /\ \/ seg' = [seg EXCEPT ![cur] = None] /\ hurt' = hurt
             \/ seg' = seg /\ hurt' = hurt \cup {cur}
      BY <1>9 DEF DropSeg, Fault, Working, Dropping, IInv, SoundInv, CursorInv, TypeOK
    <2>2. rec.status \notin TextBearing /\ (cur \notin hurt => text[cur] = None)
      BY <2>1 DEF IInv, SoundInv, DroppingInv, Dropping, MirrorInv
    <2>3. MirrorInv'
      BY <2>1, <2>2 DEF MirrorInv, Mirrors, IInv, TypeOK
    <2> QED BY <2>1, <2>3, MirrorElsewhere DEF IInv, TypeOK
  <1>10. CASE \E p \in Path : Damage(p)
    <2>1. PICK p \in Path : Damage(p)
      BY <1>10
    <2>2. /\ UNCHANGED <<terminal, done, pc, cur, art, rec>> /\ hurt' = hurt \cup {p}
          /\ \A q \in Path \ {p} : text'[q] = text[q] /\ seg'[q] = seg[q]
      BY <2>1 DEF Damage, IInv, TypeOK
    <2>3. done \subseteq Path /\ (pc \in Working => cur \in Path)
      BY DEF IInv, TypeOK, SoundInv, CursorInv
    <2>4. MirrorMatchesManifest'
      BY <2>2, <2>3 DEF IInv, MirrorMatchesManifest, Mirrors, EnvelopeIntact
    <2>5. MirrorInv'
      BY <2>2, <2>3
      DEF IInv, MirrorInv, Mirrors, EnvelopeIntact, Working, Fronted, Dropping
    <2> QED BY <2>4, <2>5
  <1>11. CASE \/ \E p \in Path : \E c \in Content \cup {Absent} : Edit(p, c)
              \/ UNCHANGED vars
    <2>1. UNCHANGED <<text, seg, terminal, done, hurt, pc, cur, art, rec>>
      BY <1>11 DEF Edit, vars
    <2> QED BY <2>1, MirrorKept DEF IInv, MirrorInv, Mirrors, EnvelopeIntact
  <1> QED
    BY <1>1, <1>2, <1>3, <1>4, <1>5, <1>6, <1>7, <1>8, <1>9, <1>10, <1>11
    DEF Next, Run, Environment

-----------------------------------------------------------------------------
(* Every step keeps unedited sources recorded as they are *)

\* Records of unedited sources stay current: more damage excuses more.
LEMMA CurrentKept ==
  ASSUME IInv, UNCHANGED <<terminal, rules>>, done' \subseteq done,
         \A p \in done : p \notin touched' => source'[p] = source[p] /\ p \notin touched,
         \A p \in done : p \in hurt => p \in hurt'
  PROVE  RecordCurrent'
  BY DEF IInv, RecordCurrent, Current

\* Recording `cur` with a record that is current keeps the property.
LEMMA CurrentRecorded ==
  ASSUME IInv, NEW r, pc \in Working, cur \notin touched => Current(cur, r), Recorded(r),
         UNCHANGED <<source, rules, touched, hurt>>
  PROVE  RecordCurrent' /\ FrontInv'
  <1>1. cur \in Path /\ pc' = "next" /\ done' = done \cup {cur}
        /\ terminal' = [terminal EXCEPT ![cur] = r] /\ done \subseteq Path
        /\ terminal \in [Path -> Record \cup {None}]
    BY DEF IInv, SoundInv, CursorInv, TypeOK, Recorded
  <1>2. ASSUME NEW p \in done' \ touched' PROVE Current(p, terminal[p])'
    <2>1. CASE p = cur
      BY <1>1, <1>2, <2>1 DEF Current
    <2>2. CASE p # cur
      <3>1. p \in done \ touched /\ terminal'[p] = terminal[p]
        BY <1>1, <1>2, <2>2
      <3> QED BY <3>1 DEF IInv, RecordCurrent, Current
    <2> QED BY <2>1, <2>2
  <1> QED BY <1>1, <1>2 DEF RecordCurrent, FrontInv, Fronted, Dropping

\* A record the checkpoint keeps has a converter, so its source is supported.
LEMMA SkipCurrent ==
  ASSUME IInv, Skip, cur \notin touched
  PROVE  Current(cur, [terminal[cur] EXCEPT !.status = "skipped_unchanged"])
  <1> DEFINE t == terminal[cur]
             k == Route[rules][format]
  <1>1. /\ cur \in Path /\ t \in Record /\ t.hash = hash /\ t.rules = rules
        /\ t.status \in TextBearing /\ RecordedVersion(t) = CurrentVersion(format)
        /\ hash \in Content /\ format \in Format
        /\ source[cur] = hash /\ format = Detected[hash] /\ t # None
    BY DEF Skip, Skippable, IInv, SoundInv, CursorInv, FrontInv, Working, Fronted, TypeOK
  <1>2. t.conv \in Conv
    BY <1>1 DEF IInv, SoundInv, RecordSound, Sound, Record, TypeOK
  <1>3. VersionOf[t.conv] # None
    BY <1>2, PipelineAssumption
  <1>4. k # None
    BY <1>1, <1>2, <1>3, PipelineAssumption DEF RecordedVersion, CurrentVersion
  <1>5. source[cur] # Absent
    BY <1>1, PipelineAssumption
  <1> HIDE DEF t
  <1>6. [t EXCEPT !.status = "skipped_unchanged"].hash = hash
        /\ [t EXCEPT !.status = "skipped_unchanged"].rules = rules
        /\ [t EXCEPT !.status = "skipped_unchanged"].status = "skipped_unchanged"
    BY <1>1 DEF Record
  <1> QED BY <1>1, <1>4, <1>5, <1>6 DEF Current, t

\* Records are current as long as nobody edits the source behind them.
LEMMA FrontStep == IInv /\ [Next]_vars => RecordCurrent' /\ FrontInv'
  <1> SUFFICES ASSUME IInv, [Next]_vars PROVE RecordCurrent' /\ FrontInv'
    OBVIOUS
  <1> USE DEF disk, work
  <1>1. CASE Start
    BY <1>1 DEF Start, RecordCurrent, FrontInv, Fronted, Dropping
  <1>2. CASE Hash
    <2>1. todo \subseteq Path /\ cur' \in todo /\ cur' \in Path /\ done' = done
          /\ UNCHANGED <<source, terminal, rules>>
          /\ touched' = touched \ {cur'} /\ hurt' = hurt \ {cur'}
      BY <1>2, FirstType DEF Hash, IInv, TypeOK
    <2>2. cur' \notin done
      BY <2>1 DEF IInv, SoundInv, CursorInv
    <2>3. RecordCurrent'
      BY <2>1, <2>2, CurrentKept
    <2>4. \/ pc' = "detect" /\ hash' = source[cur']
          \/ pc' = "drop_text" /\ source[cur'] = Absent
             /\ rec' = NewRecord("failed", None, None)
      BY <1>2 DEF Hash, Unreadable
    <2>5. FrontInv'
      BY <2>1, <2>4 DEF FrontInv, Fronted, Dropping, Current, NewRecord
    <2> QED BY <2>3, <2>5
  <1>3. CASE Detect
    <2>1. UNCHANGED <<source, terminal, rules, done, touched, hurt, cur, hash>>
      BY <1>3 DEF Detect
    <2>2. RecordCurrent'
      BY <2>1, CurrentKept
    <2>3. \/ pc' = "checkpoint" /\ format' = Detected[source[cur]]
          \/ pc' = "drop_text" /\ source[cur] = Absent
             /\ rec' = NewRecord("failed", None, None)
      BY <1>3 DEF Detect, Unreadable
    <2>4. cur \notin touched => source[cur] = hash
      BY <1>3 DEF Detect, IInv, FrontInv
    <2>5. FrontInv'
      BY <2>1, <2>3, <2>4 DEF FrontInv, Fronted, Dropping, Current, NewRecord
    <2> QED BY <2>2, <2>5
  <1>4. CASE Skip
    BY <1>4, SkipCurrent, CurrentRecorded DEF Skip, Working, Fronted
  <1>5. CASE AppendRecord
    BY <1>5, CurrentRecorded DEF AppendRecord, Working, IInv, FrontInv
  <1>6. CASE Changed \/ NoBorrow \/ Borrow \/ WriteText
    <2>1. /\ UNCHANGED <<source, terminal, rules, done, touched, hurt, cur, hash, format>>
          /\ pc \in Fronted /\ pc' \in {"borrow", "convert", "write_text", "write_seg"}
      BY <1>6 DEF Changed, NoBorrow, Borrow, WriteText, Fronted
    <2>2. FrontInv'
      BY <2>1 DEF IInv, FrontInv, Fronted, Dropping
    <2> QED BY <2>1, <2>2, CurrentKept
  <1>7. CASE Convert
    <2>1. /\ UNCHANGED <<source, terminal, rules, done, touched, hurt, cur, hash, format>>
          /\ pc \in Fronted /\ hash \in Content
          /\ cur \notin touched => source[cur] = hash /\ format = Detected[source[cur]]
      BY <1>7 DEF Convert, IInv, SoundInv, CursorInv, FrontInv, Fronted
    <2> DEFINE k == Route[rules][format]
    <2>2. \/ /\ k = None
             /\ pc' = "drop_text" /\ rec' = NewRecord("unsupported", hash, format)
          \/ /\ k # None /\ (source[cur] # hash \/ Result[k][rules][hash] = Fail)
             /\ pc' = "drop_text"
             /\ rec' = Attributed(NewRecord("failed", hash, format), k)
          \/ pc' = "write_text"
      BY <1>7 DEF Convert
    <2>3. hash # Absent
      BY <2>1, PipelineAssumption
    <2>4. FrontInv'
      BY <2>1, <2>2, <2>3
      DEF FrontInv, Fronted, Dropping, Current, NewRecord, Attributed
    <2> QED BY <2>1, <2>4, CurrentKept
  <1>8. CASE WriteSeg
    <2>1. /\ UNCHANGED <<source, terminal, rules, done, touched, hurt, cur, rec>>
          /\ pc' = "append" /\ hash \in Content
          /\ cur \notin touched => source[cur] = hash /\ format = Detected[source[cur]]
      BY <1>8 DEF WriteSeg, IInv, SoundInv, CursorInv, FrontInv, Fronted
    <2>2. /\ rec.status \in {"converted", "dedup"} /\ rec.hash = hash /\ rec.rules = rules
          /\ Route[rules][format] # None
      BY <1>8 DEF WriteSeg, IInv, SoundInv, WritingInv, Writing
    <2>3. hash # Absent
      BY <2>1, PipelineAssumption
    <2>4. FrontInv'
      BY <2>1, <2>2, <2>3 DEF FrontInv, Fronted, Dropping, Current
    <2> QED BY <2>1, <2>4, CurrentKept
  <1>9. CASE WriteFails
    <2>1. /\ UNCHANGED <<source, terminal, rules, done, touched, cur>>
          /\ hurt' = hurt \cup {cur} /\ pc' = "drop_text"
          /\ hash \in Content /\ format \in Format
          /\ cur \notin touched => source[cur] = hash /\ format = Detected[source[cur]]
      BY <1>9 DEF WriteFails, Fault, IInv, SoundInv, CursorInv, FrontInv, Fronted
    <2>2. rec'.status = "failed" /\ rec'.hash = hash /\ rec'.rules = rules
      BY <1>9 DEF WriteFails, Attributed, NewRecord
    <2>3. Route[rules][format] # None
      BY <1>9 DEF WriteFails, IInv, SoundInv, WritingInv, Writing
    <2>4. hash # Absent
      BY <2>1, PipelineAssumption
    <2>5. FrontInv'
      BY <2>1, <2>2, <2>3, <2>4 DEF FrontInv, Fronted, Dropping, Current
    <2> QED BY <2>1, <2>5, CurrentKept
  <1>10. CASE DropText \/ DropSeg
    <2>1. /\ UNCHANGED <<source, terminal, rules, done, touched, cur, rec>>
          /\ hurt \subseteq hurt' /\ pc \in Dropping /\ pc' \in {"drop_seg", "append"}
      BY <1>10 DEF DropText, DropSeg, Fault, Dropping
    <2>2. FrontInv'
      BY <2>1 DEF IInv, FrontInv, Fronted, Dropping, Current
    <2> QED BY <2>1, <2>2, CurrentKept
  <1>11. CASE Finish \/ Kill
    <2>1. UNCHANGED <<source, terminal, rules, done, touched, hurt>> /\ pc' = "idle"
      BY <1>11 DEF Finish, Kill, Stopped
    <2> QED BY <2>1, CurrentKept DEF FrontInv, Fronted, Dropping
  <1>12. CASE \E p \in Path : \E c \in Content \cup {Absent} : Edit(p, c)
    <2>1. PICK p \in Path, c \in Content \cup {Absent} : Edit(p, c)
      BY <1>12
    <2>2. /\ UNCHANGED <<terminal, rules, done, hurt, pc, cur, rec, hash, format>>
          /\ touched' = touched \cup {p}
          /\ \A q \in Path \ {p} : source'[q] = source[q]
      BY <2>1 DEF Edit, IInv, TypeOK
    <2>3. done \subseteq Path /\ (pc \in Working => cur \in Path)
      BY DEF IInv, TypeOK, SoundInv, CursorInv
    <2>4. RecordCurrent'
      BY <2>2, <2>3, CurrentKept
    <2>5. FrontInv'
      BY <2>2, <2>3 DEF IInv, FrontInv, Current, Working, Fronted, Dropping
    <2> QED BY <2>4, <2>5
  <1>13. CASE \E p \in Path : Damage(p)
    <2>1. /\ UNCHANGED <<source, terminal, rules, done, touched, pc, cur, rec, hash, format>>
          /\ hurt \subseteq hurt'
      BY <1>13 DEF Damage
    <2> QED BY <2>1, CurrentKept DEF IInv, FrontInv, Current
  <1>14. CASE Bump
    BY <1>14 DEF Bump, RecordCurrent, FrontInv, Fronted, Dropping
  <1>15. CASE UNCHANGED vars
    BY <1>15, CurrentKept DEF vars, IInv, FrontInv, Current
  <1> QED
    BY <1>1, <1>2, <1>3, <1>4, <1>5, <1>6, <1>7, <1>8, <1>9, <1>10, <1>11, <1>12,
       <1>13, <1>14, <1>15 DEF Next, Run, Environment

-----------------------------------------------------------------------------
(* No step works on a settled source *)

\* What SettledInv says of one source, when nothing it reads has changed.
LEMMA SettledKept ==
  ASSUME IInv, settled' \subseteq settled, rules' = rules,
         \A p \in settled' : /\ source'[p] = source[p] /\ text'[p] = text[p]
                             /\ seg'[p] = seg[p] /\ terminal'[p] = terminal[p]
  PROVE  \A p \in settled' : /\ source'[p] \in Content
                             /\ Skippable(p, source[p], Detected[source[p]])'
  BY DEF IInv, SettledInv, Skippable, EnvelopeIntact, CurrentVersion, RecordedVersion

\* A settled source stays skippable, and the run skips it.
LEMMA SettledStep == IInv /\ [Next]_vars => SettledInv'
  <1> SUFFICES ASSUME IInv, [Next]_vars PROVE SettledInv'
    OBVIOUS
  <1> USE DEF disk, work
  <1>1. CASE Start
    <2>1. /\ settled' = {p \in Path : source[p] # Absent /\
                           Skippable(p, source[p], Detected[source[p]])}
          /\ UNCHANGED <<source, text, seg, terminal, rules, cur>> /\ pc' = "next"
      BY <1>1 DEF Start
    <2>2. \A p \in settled' : p \in Path /\ source'[p] \in Content
                              /\ Skippable(p, source[p], Detected[source[p]])
      BY <2>1 DEF IInv, TypeOK
    <2>3. cur' = 0
      BY <1>1, <2>1 DEF Start, IInv, SoundInv, CursorInv, Working, Fronted, Dropping
    <2>4. cur' \notin settled'
      BY <2>1, <2>3 DEF Path
    <2> QED BY <2>1, <2>2, <2>4
            DEF SettledInv, Skippable, EnvelopeIntact, CurrentVersion, RecordedVersion
  <1>2. CASE Hash
    <2>1. /\ UNCHANGED <<source, text, seg, terminal, rules, settled>>
          /\ \/ pc' = "detect" /\ hash' = source[cur']
             \/ pc' = "drop_text" /\ source[cur'] = Absent
      BY <1>2 DEF Hash, Unreadable
    <2>2. cur' \in settled => source[cur'] \in Content
      BY DEF IInv, SettledInv
    <2>3. Absent \notin Content
      BY PipelineAssumption
    <2>4. \A p \in settled' : /\ source'[p] \in Content
                              /\ Skippable(p, source[p], Detected[source[p]])'
      BY <2>1, SettledKept
    <2>5. (cur \in settled =>
             /\ pc \notin Decided
             /\ pc \in {"detect", "checkpoint"} => hash = source[cur]
             /\ pc = "checkpoint" => format = Detected[source[cur]])'
      BY <2>1, <2>2, <2>3 DEF Decided, Writing, Dropping
    <2> QED BY <2>4, <2>5 DEF SettledInv
  <1>3. CASE Detect
    <2>1. /\ UNCHANGED <<source, text, seg, terminal, rules, settled, cur, hash>>
          /\ pc = "detect"
          /\ \/ pc' = "checkpoint" /\ format' = Detected[source[cur]]
             \/ pc' = "drop_text" /\ source[cur] = Absent
      BY <1>3 DEF Detect, Unreadable
    <2>2. cur \in settled => source[cur] \in Content /\ hash = source[cur]
      BY <2>1 DEF IInv, SettledInv
    <2>3. Absent \notin Content
      BY PipelineAssumption
    <2>4. \A p \in settled' : /\ source'[p] \in Content
                              /\ Skippable(p, source[p], Detected[source[p]])'
      BY <2>1, SettledKept
    <2>5. (cur \in settled =>
             /\ pc \notin Decided
             /\ pc \in {"detect", "checkpoint"} => hash = source[cur]
             /\ pc = "checkpoint" => format = Detected[source[cur]])'
      BY <2>1, <2>2, <2>3 DEF Decided, Writing, Dropping
    <2> QED BY <2>4, <2>5 DEF SettledInv
  <1>4. CASE Skip
    <2> DEFINE r == [terminal[cur] EXCEPT !.status = "skipped_unchanged"]
    <2>1. /\ cur \in Path /\ terminal[cur] \in Record /\ cur' = 0
          /\ terminal' = [terminal EXCEPT ![cur] = r]
          /\ UNCHANGED <<source, text, seg, rules, settled>>
      BY <1>4 DEF Skip, Skippable, Recorded, IInv, SoundInv, CursorInv, Working, Fronted,
         TypeOK
    <2>2. /\ r \in Record /\ r.hash = terminal[cur].hash /\ r.rules = terminal[cur].rules
          /\ r.conv = terminal[cur].conv /\ r.text = terminal[cur].text
          /\ r.status \in TextBearing
      BY <2>1 DEF Record, Status, TextBearing
    <2>3. r # None
      BY <2>2, PipelineAssumption
    <2> HIDE DEF r
    <2>4. settled \subseteq Path /\ cur' \notin settled
      BY <2>1 DEF IInv, TypeOK, Path
    <2>5. ASSUME NEW p \in settled
          PROVE  source'[p] \in Content /\ Skippable(p, source[p], Detected[source[p]])'
      <3>1. source[p] \in Content /\ Skippable(p, source[p], Detected[source[p]])
        BY <2>5 DEF IInv, SettledInv
      <3>2. terminal'[p] = terminal[p] \/ (p = cur /\ terminal'[p] = r)
        BY <2>1, <2>4, <2>5 DEF IInv, TypeOK
      <3> QED BY <2>1, <2>2, <2>3, <3>1, <3>2
              DEF Skippable, EnvelopeIntact, CurrentVersion, RecordedVersion
    <2> QED BY <2>1, <2>4, <2>5 DEF SettledInv
  <1>5. CASE Changed
    <2>1. /\ UNCHANGED <<source, text, seg, terminal, rules, settled, cur>>
          /\ pc' = "borrow" /\ pc = "checkpoint" /\ ~Skippable(cur, hash, format)
      BY <1>5 DEF Changed
    <2>2. cur \notin settled
      BY <2>1 DEF IInv, SettledInv
    <2> QED BY <2>1, <2>2, SettledKept DEF SettledInv
  <1>6. CASE \/ Borrow \/ NoBorrow \/ Convert \/ WriteText \/ WriteSeg \/ WriteFails
             \/ DropText \/ DropSeg \/ AppendRecord
    <2>1. /\ UNCHANGED <<source, rules, settled>> /\ pc \in Decided
          /\ cur' = cur \/ cur' = 0
          /\ \A p \in Path \ {cur} : /\ text'[p] = text[p] /\ seg'[p] = seg[p]
                                     /\ terminal'[p] = terminal[p]
      BY <1>6 DEF Borrow, NoBorrow, Convert, WriteText, WriteSeg, WriteFails, DropText,
         DropSeg, AppendRecord, Recorded, IInv, TypeOK, Decided, Writing, Dropping
    <2>2. cur \notin settled /\ settled \subseteq Path /\ 0 \notin settled
      BY <2>1 DEF IInv, SettledInv, TypeOK, Path
    <2> QED BY <2>1, <2>2, SettledKept DEF SettledInv
  <1>7. CASE Finish \/ Kill
    <2>1. UNCHANGED <<source, text, seg, terminal, rules, settled>> /\ cur' = 0
      BY <1>7 DEF Finish, Kill, Stopped
    <2>2. 0 \notin settled
      BY DEF IInv, TypeOK, Path
    <2> QED BY <2>1, <2>2, SettledKept DEF SettledInv
  <1>8. CASE \/ \E p \in Path : \E c \in Content \cup {Absent} : Edit(p, c)
             \/ \E p \in Path : Damage(p)
    <2>1. PICK p \in Path : Damage(p) \/ \E c \in Content \cup {Absent} : Edit(p, c)
      BY <1>8
    <2>2. /\ UNCHANGED <<terminal, rules, pc, cur, hash, format>>
          /\ settled' = settled \ {p}
          /\ \A q \in Path \ {p} : /\ source'[q] = source[q] /\ text'[q] = text[q]
                                   /\ seg'[q] = seg[q]
      BY <2>1 DEF Damage, Edit, IInv, TypeOK
    <2>3. settled \subseteq Path
      BY DEF IInv, TypeOK
    <2>4. \A q \in settled' : q \in Path \ {p}
      BY <2>2, <2>3
    <2>5. \A q \in settled' : /\ source'[q] = source[q] /\ text'[q] = text[q]
                              /\ seg'[q] = seg[q] /\ terminal'[q] = terminal[q]
      BY <2>2, <2>4
    <2>6. \A q \in settled' : /\ source'[q] \in Content
                              /\ Skippable(q, source[q], Detected[source[q]])'
      BY <2>2, <2>5, SettledKept
    <2>7. cur \in settled' => cur \in settled /\ source'[cur] = source[cur]
      BY <2>2, <2>5
    <2> QED BY <2>2, <2>6, <2>7 DEF IInv, SettledInv
  <1>9. CASE Bump
    BY <1>9 DEF Bump, SettledInv
  <1>10. CASE UNCHANGED vars
    <2>1. UNCHANGED <<source, text, seg, terminal, rules, settled, pc, cur, hash, format>>
      BY <1>10 DEF vars
    <2> QED BY <2>1, SettledKept DEF IInv, SettledInv
  <1> QED
    BY <1>1, <1>2, <1>3, <1>4, <1>5, <1>6, <1>7, <1>8, <1>9, <1>10
    DEF Next, Run, Environment

\* A step that writes an artifact, a sidecar or a record does so for a source
\* that is not settled, except for the record of a skip.
LEMMA SettledAction ==
  ASSUME IInv, [Next]_vars, NEW p \in settled'
  PROVE  /\ text'[p] = text[p] /\ seg'[p] = seg[p]
         /\ terminal'[p] # terminal[p] => terminal'[p].status = "skipped_unchanged"
  <1> USE DEF disk, work
  <1>1. CASE Skip
    <2> DEFINE r == [terminal[cur] EXCEPT !.status = "skipped_unchanged"]
    <2>1. /\ cur \in Path /\ terminal[cur] \in Record
          /\ terminal' = [terminal EXCEPT ![cur] = r] /\ UNCHANGED <<text, seg, settled>>
      BY <1>1 DEF Skip, Skippable, Recorded, IInv, SoundInv, CursorInv, Working, Fronted,
         TypeOK
    <2>2. r.status = "skipped_unchanged"
      BY <2>1 DEF Record
    <2> HIDE DEF r
    <2>3. p \in Path
      BY <2>1 DEF IInv, TypeOK
    <2> QED BY <2>1, <2>2, <2>3 DEF IInv, TypeOK
  <1>2. CASE WriteText \/ WriteSeg \/ DropText \/ DropSeg \/ AppendRecord
    <2>1. /\ settled' = settled /\ pc \in Decided
          /\ \A q \in Path \ {cur} : /\ text'[q] = text[q] /\ seg'[q] = seg[q]
                                     /\ terminal'[q] = terminal[q]
      BY <1>2 DEF WriteText, WriteSeg, DropText, DropSeg, AppendRecord, Recorded, IInv,
         TypeOK, Decided, Writing, Dropping
    <2>2. p \in Path \ {cur}
      BY <2>1 DEF IInv, SettledInv, TypeOK
    <2> QED BY <2>1, <2>2
  <1>3. CASE \E q \in Path : Damage(q)
    <2>1. PICK q \in Path : Damage(q)
      BY <1>3
    <2>2. settled' = settled \ {q} /\ terminal' = terminal
          /\ \A o \in Path \ {q} : text'[o] = text[o] /\ seg'[o] = seg[o]
      BY <2>1 DEF Damage, IInv, TypeOK
    <2>3. settled \subseteq Path
      BY DEF IInv, TypeOK
    <2> QED BY <2>2, <2>3
  <1>4. CASE UNCHANGED <<text, seg, terminal>>
    BY <1>4
  <1>5. ASSUME \/ Start \/ Hash \/ Detect \/ Changed \/ Borrow \/ NoBorrow \/ Convert
               \/ WriteFails \/ Finish \/ Kill \/ Bump \/ UNCHANGED vars
               \/ \E q \in Path : \E c \in Content \cup {Absent} : Edit(q, c)
        PROVE  UNCHANGED <<text, seg, terminal>>
    BY <1>5 DEF Start, Hash, Detect, Changed, Borrow, NoBorrow, Convert, WriteFails,
       Finish, Kill, Stopped, Bump, Edit, vars
  <1> QED BY <1>1, <1>2, <1>3, <1>4, <1>5 DEF Next, Run, Environment

-----------------------------------------------------------------------------
(* The theorems *)

\* IInv is preserved by every step of the run and of its environment.
LEMMA NextIInv == IInv /\ [Next]_vars => IInv'
  BY TypeStep, SoundStep, MirrorStep, FrontStep, SettledStep DEF IInv

\* IInv holds of every reachable state.
THEOREM InvariantHolds == Spec => []IInv
  BY InitIInv, NextIInv, PTL DEF Spec

\* Every variable keeps its type.
THEOREM TypeCorrect == Spec => []TypeOK
  BY InvariantHolds, PTL DEF IInv

\* A text-bearing record's text is what the recorded converter makes, under
\* the recorded rules, of the bytes the recorded hash names.
THEOREM RecordsAreSound == Spec => []RecordSound
  BY InvariantHolds, PTL DEF IInv, SoundInv

\* What this run recorded and nothing damaged since is on disk as recorded.
THEOREM MirrorIsAsRecorded == Spec => []MirrorMatchesManifest
  BY InvariantHolds, PTL DEF IInv

\* What this run recorded and nobody edited since is recorded as it is.
THEOREM RecordsAreCurrent == Spec => []RecordCurrent
  BY InvariantHolds, PTL DEF IInv

\* A source that was unchanged and intact when the run started is skipped,
\* and neither its artifact nor its sidecar is touched.
THEOREM SettledSourcesAreSkipped == Spec => SettledIsSkipped
  <1>1. IInv /\ [Next]_vars =>
          [\A p \in settled' :
             /\ text'[p] = text[p] /\ seg'[p] = seg[p]
             /\ terminal'[p] # terminal[p] => terminal'[p].status = "skipped_unchanged"]_vars
    BY SettledAction
  <1> QED BY <1>1, InvariantHolds, PTL DEF Spec, SettledIsSkipped
=============================================================================
