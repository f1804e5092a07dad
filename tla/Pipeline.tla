------------------------------ MODULE Pipeline ------------------------------
(***************************************************************************)
(* One division's run (src/src/pipeline.rs) over sources that own no       *)
(* derived children: the sorted walk, the checkpoint, the dedup borrow,    *)
(* the conversion, the two atomic artifact writes and the record append,   *)
(* interleaved with source edits, mirror damage, kills, write errors and   *)
(* rules bumps.  Containers and auxiliary legs are in Expansion.tla.       *)
(*                                                                         *)
(* A path is its rank in the sorted walk, which stands for the byte order  *)
(* seed_dedup sorts by as well.  A content stands for the bytes and for    *)
(* their hash.  `terminal` is the last shard record of each path:          *)
(* Shard.tla shows that what a run loads from, appends to and leaves in    *)
(* its shard, kills included, is such a log.                               *)
(***************************************************************************)
EXTENDS Naturals

CONSTANTS N,            \* the paths of the division are 1..N
          Content,      \* source contents
          Format,       \* format ids
          Conv,         \* converter ids
          ConvVer,      \* converter versions
          Text,         \* artifact texts, each standing for its hash
          Seg,          \* segments sidecars
          Detected,     \* the format detection resolves for a content
          Route,        \* per rules version, the converter a format routes to
          VersionOf,    \* the version of a converter
          Result,       \* per converter, rules and content: the artifact
          Fits,         \* the (sidecar, text) pairs segments::validate accepts
          Absent, None, Fail,
          MaxRules,         \* bound on the rules versions
          Disturbances,     \* which of edit, kill, damage, fault may happen
          MaxDisturbances   \* bound on how many of them do

Path == 1..N
Version == 1..MaxRules
Artifact == [text : Text, seg : Seg]

TextBearing == {"converted", "skipped_unchanged", "dedup"}
Status == TextBearing \cup {"failed", "unsupported"}

Record == [status : Status, hash : Content \cup {None}, format : Format \cup {None},
           rules : Version, conv : Conv \cup {None}, text : Text \cup {None},
           dedupOf : Path \cup {0}]

ASSUME PipelineAssumption ==
  /\ N \in Nat /\ MaxRules \in Nat \ {0}
  /\ Disturbances \subseteq {"edit", "kill", "damage", "fault"}
  /\ MaxDisturbances \in Nat
  /\ Absent \notin Content
  /\ None \notin Content \cup Format \cup Conv \cup Text \cup Seg \cup ConvVer
  /\ None \notin Record
  /\ Fail \notin Artifact
  /\ Detected \in [Content -> Format]
  /\ Route \in [Version -> [Format -> Conv \cup {None}]]
  /\ VersionOf \in [Conv -> ConvVer]
  /\ Result \in [Conv -> [Version -> [Content -> Artifact \cup {Fail}]]]
  \* run_converter refuses an outcome whose segments do not validate.
  /\ \A k \in Conv, v \in Version, c \in Content :
       Result[k][v][c] # Fail =>
         <<Result[k][v][c].seg, Result[k][v][c].text>> \in Fits

Canonical == [path : Path, text : Text, conv : Conv]

VARIABLES
  \* the disk
  source,     \* the division's files
  text, seg,  \* the mirror: an artifact and its sidecar per path
  terminal,   \* the last shard record per path, None before the first
  rules,      \* the rules version of the current or next run
  \* the run, lost on a kill
  pc, cur,    \* where the run is, and on which path
  todo,       \* walked entries not recorded yet
  dedup,      \* per content, the canonical artifact or None
  hash, format,  \* what the front of `cur` read
  rec, art,   \* the record and artifact being emitted for `cur`
  \* bookkeeping for the properties, and the bounds' counters
  done,       \* paths this run has recorded
  touched,    \* paths edited since this run last read their hash
  hurt,       \* paths damaged, or hit by an I/O fault, since then
  settled,    \* paths a skip is owed to: unchanged and intact at the start
  used        \* disturbances so far

disk == <<source, text, seg, terminal>>
work == <<hash, format, rec, art>>
vars == <<source, text, seg, terminal, rules, pc, cur, todo, dedup, hash, format,
          rec, art, done, touched, hurt, settled, used>>

TypeOK ==
  /\ source \in [Path -> Content \cup {Absent}]
  /\ text \in [Path -> Text \cup {None}]
  /\ seg \in [Path -> Seg \cup {None}]
  /\ terminal \in [Path -> Record \cup {None}]
  /\ rules \in Version
  /\ pc \in {"idle", "next", "detect", "checkpoint", "borrow", "convert",
             "write_text", "write_seg", "drop_text", "drop_seg", "append"}
  /\ cur \in Path \cup {0}
  /\ todo \subseteq Path
  /\ dedup \in [Content -> Canonical \cup {None}]
  /\ hash \in Content \cup {None}
  /\ format \in Format \cup {None}
  /\ rec \in Record \cup {None}
  /\ art \in Artifact \cup {None}
  /\ done \subseteq Path /\ touched \subseteq Path
  /\ hurt \subseteq Path /\ settled \subseteq Path
  /\ used \in 0..MaxDisturbances

Idle == /\ pc = "idle" /\ cur = 0 /\ todo = {}
        /\ dedup = [c \in Content |-> None]
        /\ hash = None /\ format = None /\ rec = None /\ art = None
        /\ done = {}

Init == /\ source \in [Path -> Content \cup {Absent}]
        /\ text = [p \in Path |-> None] /\ seg = [p \in Path |-> None]
        /\ terminal = [p \in Path |-> None]
        /\ rules = 1
        /\ Idle
        /\ touched = {} /\ hurt = {} /\ settled = {}
        /\ used = 0

-----------------------------------------------------------------------------
(* The decisions of one source *)

\* envelope_intact: the text still hashes to the record and the sidecar
\* parses and validates against it.
EnvelopeIntact(p, t) == text[p] = t /\ seg[p] # None /\ <<seg[p], t>> \in Fits

\* The version the checkpoint compares: the id is not part of the key.
CurrentVersion(f) == IF Route[rules][f] = None THEN None ELSE VersionOf[Route[rules][f]]
RecordedVersion(r) == IF r.conv = None THEN None ELSE VersionOf[r.conv]

\* Faulty variant: the rules version is not part of the key.
SkippableAcrossRules(p, h, f) ==
  /\ terminal[p] # None
  /\ terminal[p].hash = h
  /\ RecordedVersion(terminal[p]) = CurrentVersion(f)
  /\ terminal[p].status \in TextBearing
  /\ EnvelopeIntact(p, terminal[p].text)

\* Faulty variant: the artifact is not looked at.
SkippableBlind(p, h, f) ==
  /\ terminal[p] # None
  /\ terminal[p].hash = h
  /\ terminal[p].rules = rules
  /\ RecordedVersion(terminal[p]) = CurrentVersion(f)
  /\ terminal[p].status \in TextBearing

Skippable(p, h, f) ==
  /\ terminal[p] # None
  /\ terminal[p].hash = h
  /\ terminal[p].rules = rules
  /\ RecordedVersion(terminal[p]) = CurrentVersion(f)
  /\ terminal[p].status \in TextBearing
  /\ EnvelopeIntact(p, terminal[p].text)

\* seed_dedup: only canonical records under the current rules and routing,
\* the first path per hash.
Seedable(p) ==
  /\ terminal[p] # None
  /\ \/ terminal[p].status = "converted"
     \/ terminal[p].status = "skipped_unchanged" /\ terminal[p].dedupOf = 0
  /\ terminal[p].rules = rules
  /\ Route[rules][terminal[p].format] = terminal[p].conv

Seeds(c) == {p \in Path : Seedable(p) /\ terminal[p].hash = c}
First(S) == CHOOSE p \in S : \A q \in S : p =< q
Seeded == [c \in Content |->
             IF Seeds(c) = {} THEN None
             ELSE LET p == First(Seeds(c))
                  IN [path |-> p, text |-> terminal[p].text, conv |-> terminal[p].conv]]

\* The dedup borrow: a canonical of the same bytes at another path, by the
\* converter this source routes to, whose envelope still matches.
Borrowable(p, h, f) ==
  /\ dedup[h] # None
  /\ dedup[h].path # p
  /\ dedup[h].conv = Route[rules][f]
  /\ EnvelopeIntact(dedup[h].path, dedup[h].text)

NewRecord(s, h, f) == [status |-> s, hash |-> h, format |-> f, rules |-> rules,
                       conv |-> None, text |-> None, dedupOf |-> 0]

Attributed(r, k) == [r EXCEPT !.conv = k]

\* A record with text: converted, or borrowed from the path d.
WithText(s, h, f, k, t, d) == [status |-> s, hash |-> h, format |-> f, rules |-> rules,
                               conv |-> k, text |-> t, dedupOf |-> d]

-----------------------------------------------------------------------------
(* The run *)

\* run: walk the root, load the shard, seed the dedup index.
Start == /\ pc = "idle"
         /\ pc' = "next"
         /\ todo' = {p \in Path : source[p] # Absent}
         /\ dedup' = Seeded
         /\ settled' = {p \in Path : source[p] # Absent /\
                          Skippable(p, source[p], Detected[source[p]])}
         /\ done' = {} /\ touched' = {} /\ hurt' = {}
         /\ UNCHANGED <<disk, rules, cur, work, used>>

\* An unreadable source: its failed record, after its artifacts are dropped.
Unreadable == /\ rec' = NewRecord("failed", None, None)
              /\ pc' = "drop_text"

\* The first half of source_front: stat and hash the next entry.
Hash == /\ pc = "next"
        /\ todo # {}
        /\ cur' = First(todo)
        /\ touched' = touched \ {cur'}
        /\ hurt' = hurt \ {cur'}
        /\ \/ /\ source[cur'] = Absent
              /\ Unreadable
              /\ UNCHANGED hash
           \/ /\ source[cur'] # Absent
              /\ hash' = source[cur']
              /\ pc' = "detect"
              /\ UNCHANGED rec
        /\ UNCHANGED <<disk, rules, todo, dedup, format, art, done, settled, used>>

\* The second half: detection reads the file again.
Detect == /\ pc = "detect"
          /\ \/ /\ source[cur] = Absent
                /\ Unreadable
                /\ UNCHANGED format
             \/ /\ source[cur] # Absent
                /\ format' = Detected[source[cur]]
                /\ pc' = "checkpoint"
                /\ UNCHANGED rec
          /\ UNCHANGED <<disk, rules, cur, todo, dedup, hash, art, done, touched, hurt,
                         settled, used>>

\* record_outcome: the shard line, then the in-memory terminal record.
Recorded(r) == /\ terminal' = [terminal EXCEPT ![cur] = r]
               /\ done' = done \cup {cur}
               /\ todo' = todo \ {cur}
               /\ pc' = "next"
               /\ cur' = 0
               /\ hash' = None /\ format' = None /\ rec' = None /\ art' = None

Skip == /\ pc = "checkpoint"
        /\ Skippable(cur, hash, format)
        /\ Recorded([terminal[cur] EXCEPT !.status = "skipped_unchanged"])
        /\ UNCHANGED <<source, text, seg, rules, dedup, touched, hurt, settled, used>>

\* Faulty variant: a source is redone although it could be skipped.
ChangedAnyway == /\ pc = "checkpoint"
                 /\ pc' = "borrow"
                 /\ UNCHANGED <<disk, rules, cur, todo, dedup, work, done, touched, hurt,
                                settled, used>>

Changed == /\ pc = "checkpoint"
           /\ ~Skippable(cur, hash, format)
           /\ pc' = "borrow"
           /\ UNCHANGED <<disk, rules, cur, todo, dedup, work, done, touched, hurt,
                          settled, used>>

Borrow == /\ pc = "borrow"
          /\ Borrowable(cur, hash, format)
          /\ art' = [text |-> dedup[hash].text, seg |-> seg[dedup[hash].path]]
          /\ rec' = WithText("dedup", hash, format, dedup[hash].conv, dedup[hash].text,
                             dedup[hash].path)
          /\ pc' = "write_text"
          /\ UNCHANGED <<disk, rules, cur, todo, dedup, hash, format, done, touched,
                         hurt, settled, used>>

NoBorrow == /\ pc = "borrow"
            /\ ~Borrowable(cur, hash, format)
            /\ pc' = "convert"
            /\ UNCHANGED <<disk, rules, cur, todo, dedup, work, done, touched, hurt,
                           settled, used>>

\* Faulty variant: what a failing converter returns is written all the same.
ConvertUnchecked ==
  LET k == Route[rules][format]
      r == Result[k][rules][hash]
  IN /\ pc = "convert"
     /\ k # None
     /\ art' = r
     /\ rec' = [NewRecord("converted", hash, format) EXCEPT !.conv = k]
     /\ pc' = "write_text"
     /\ UNCHANGED <<disk, rules, cur, todo, dedup, hash, format, done, touched, hurt,
                    settled, used>>

\* Faulty variant: the bytes are not hashed again when they are loaded.
ConvertNotRehashed ==
  LET k == Route[rules][format]
      r == Result[k][rules][source[cur]]
  IN /\ pc = "convert"
     /\ k # None /\ source[cur] # Absent /\ r # Fail
     /\ art' = r
     /\ rec' = WithText("converted", hash, format, k, r.text, 0)
     /\ pc' = "write_text"
     /\ UNCHANGED <<disk, rules, cur, todo, dedup, hash, format, done, touched, hurt,
                    settled, used>>

\* convert_leaf up to its writes: route, load under the re-hash, convert.
Convert ==
  LET k == Route[rules][format]
      r == Result[k][rules][hash]
  IN /\ pc = "convert"
     /\ \/ /\ k = None
           /\ rec' = NewRecord("unsupported", hash, format)
           /\ pc' = "drop_text"
           /\ UNCHANGED art
        \/ /\ k # None
           /\ source[cur] # hash \/ r = Fail
           /\ rec' = Attributed(NewRecord("failed", hash, format), k)
           /\ pc' = "drop_text"
           /\ UNCHANGED art
        \/ /\ k # None
           /\ source[cur] = hash
           /\ r # Fail
           /\ art' = r
           /\ rec' = WithText("converted", hash, format, k, r.text, 0)
           /\ pc' = "write_text"
     /\ UNCHANGED <<disk, rules, cur, todo, dedup, hash, format, done, touched, hurt,
                    settled, used>>

WriteText == /\ pc = "write_text"
             /\ text' = [text EXCEPT ![cur] = art.text]
             /\ pc' = "write_seg"
             /\ UNCHANGED <<source, seg, terminal, rules, cur, todo, dedup, work, done,
                            touched, hurt, settled, used>>

\* The sidecar, and for a conversion the index entry later twins borrow.
WriteSeg == /\ pc = "write_seg"
            /\ seg' = [seg EXCEPT ![cur] = art.seg]
            /\ dedup' = IF rec.status = "converted"
                        THEN [dedup EXCEPT ![hash] = [path |-> cur, text |-> rec.text,
                                                      conv |-> rec.conv]]
                        ELSE dedup
            /\ pc' = "append"
            /\ UNCHANGED <<source, text, terminal, rules, cur, todo, work, done,
                           touched, hurt, settled, used>>

Disturb(kind) == /\ kind \in Disturbances
                 /\ used < MaxDisturbances
                 /\ used' = used + 1

Fault == Disturb("fault") /\ hurt' = hurt \cup {cur}

\* mirror_write_error: either write fails, and the source becomes a failure.
WriteFails ==
  /\ pc \in {"write_text", "write_seg"}
  /\ Fault
  /\ rec' = Attributed(NewRecord("failed", hash, format),
                       IF rec.status = "dedup" THEN None ELSE rec.conv)
  /\ art' = None
  /\ pc' = "drop_text"
  /\ UNCHANGED <<disk, rules, cur, todo, dedup, hash, format, done, touched, settled>>

\* remove_stale_artifact, file by file; a file that cannot be removed stays
\* and only warns.
DropText == /\ pc = "drop_text"
            /\ \/ /\ text' = [text EXCEPT ![cur] = None]
                  /\ UNCHANGED <<hurt, used>>
               \/ Fault /\ UNCHANGED text
            /\ pc' = "drop_seg"
            /\ UNCHANGED <<source, seg, terminal, rules, cur, todo, dedup, work, done,
                           touched, settled>>

\* Faulty variant: only the text of a stale artifact is removed.
DropSegForgotten == /\ pc = "drop_seg"
                    /\ pc' = "append"
                    /\ UNCHANGED <<source, text, seg, terminal, rules, cur, todo, dedup,
                                   work, done, touched, hurt, settled, used>>

DropSeg == /\ pc = "drop_seg"
           /\ \/ /\ seg' = [seg EXCEPT ![cur] = None]
                 /\ UNCHANGED <<hurt, used>>
              \/ Fault /\ UNCHANGED seg
           /\ pc' = "append"
           /\ UNCHANGED <<source, text, terminal, rules, cur, todo, dedup, work, done,
                          touched, settled>>

AppendRecord == /\ pc = "append"
                /\ Recorded(rec)
                /\ UNCHANGED <<source, text, seg, rules, dedup, touched, hurt, settled,
                               used>>

Stopped == /\ pc' = "idle" /\ cur' = 0 /\ todo' = {}
           /\ dedup' = [c \in Content |-> None]
           /\ hash' = None /\ format' = None /\ rec' = None /\ art' = None
           /\ UNCHANGED <<disk, rules, done, touched, hurt, settled>>

\* The report is printed and the process exits.  What the run recorded, all
\* of it or what it got to, stays in `done` until the next run starts.
Finish == /\ pc = "next" /\ todo = {}
          /\ Stopped
          /\ UNCHANGED used

\* A kill, or an error that ends the run (an append that fails).
Kill == /\ pc # "idle"
        /\ Disturb("kill")
        /\ Stopped

-----------------------------------------------------------------------------
(* The environment *)

\* A source is created, changed or deleted, at any moment.
Edit(p, c) == /\ Disturb("edit")
              /\ c # source[p]
              /\ source' = [source EXCEPT ![p] = c]
              /\ touched' = touched \cup {p}
              /\ settled' = settled \ {p}
              /\ UNCHANGED <<text, seg, terminal, rules, pc, cur, todo, dedup, work,
                             done, hurt>>

\* An artifact or a sidecar is lost, or a text is replaced, at any moment.
Damage(p) == /\ Disturb("damage")
             /\ \/ /\ \E t \in (Text \cup {None}) \ {text[p]} :
                        text' = [text EXCEPT ![p] = t]
                   /\ UNCHANGED seg
                \/ /\ seg[p] # None
                   /\ seg' = [seg EXCEPT ![p] = None]
                   /\ UNCHANGED text
             /\ hurt' = hurt \cup {p}
             /\ settled' = settled \ {p}
             /\ UNCHANGED <<source, terminal, rules, pc, cur, todo, dedup, work, done,
                            touched>>

\* A deployment upgrades its rules between runs.
Bump == /\ pc = "idle"
        /\ rules < MaxRules
        /\ rules' = rules + 1
        /\ settled' = {}
        /\ done' = {}
        /\ UNCHANGED <<disk, pc, cur, todo, dedup, work, touched, hurt, used>>

Run == \/ Start \/ Hash \/ Detect \/ Skip \/ Changed \/ Borrow \/ NoBorrow \/ Convert
       \/ WriteText \/ WriteSeg \/ WriteFails \/ DropText \/ DropSeg \/ AppendRecord
       \/ Finish

Environment == \/ Kill
               \/ \E p \in Path : (\E c \in Content \cup {Absent} : Edit(p, c)) \/ Damage(p)
               \/ Bump

Next == Run \/ Environment

\* One sequential process that takes its next step, and an operator who runs
\* it again; nothing is owed by whoever edits, damages, kills or upgrades.
Fairness == WF_vars(Run)

Spec == Init /\ [][Next]_vars /\ Fairness

-----------------------------------------------------------------------------
(* Properties *)

\* Whatever a text-bearing record says its text is, that text is what the
\* recorded converter makes, under the recorded rules, of exactly the bytes
\* the recorded hash names: through edits between the hash, the detection and
\* the load, stale dedup entries, damage, kills and rules bumps.
Sound(r) == /\ r.hash # None /\ r.conv # None
            /\ Result[r.conv][r.rules][r.hash] # Fail
            /\ Result[r.conv][r.rules][r.hash].text = r.text

RecordSound == \A p \in Path :
  terminal[p] # None /\ terminal[p].status \in TextBearing => Sound(terminal[p])

\* A path this run recorded, and nothing has damaged since, has exactly the
\* mirror its record claims: an intact envelope under the recorded hash, or
\* no artifact at all (remove_stale_artifact).
Mirrors(p, r) == IF r.status \in TextBearing THEN EnvelopeIntact(p, r.text)
                                             ELSE text[p] = None /\ seg[p] = None

MirrorMatchesManifest == \A p \in done \ hurt : Mirrors(p, terminal[p])

\* A path this run recorded, and nobody edited since its hash was read, has a
\* record of the bytes it holds, under the current rules, and a record
\* without text only when those bytes have no converter or fail in it, or an
\* I/O fault hit the path.
Current(p, r) ==
  LET k == Route[rules][Detected[source[p]]]
  IN /\ source[p] = Absent => r.status = "failed" /\ r.hash = None
     /\ source[p] # Absent =>
          /\ r.hash = source[p]
          /\ r.rules = rules
          /\ r.status = "unsupported" <=> k = None
          /\ r.status = "failed" => p \in hurt \/ Result[k][rules][source[p]] = Fail

RecordCurrent == \A p \in done \ touched : Current(p, terminal[p])

\* The checkpoint's promise: a source that was unchanged and intact when the
\* run started is not worked on, its artifact and sidecar are not rewritten,
\* and the run records it as skipped.
SettledIsSkipped ==
  [][\A p \in settled' :
       /\ text'[p] = text[p] /\ seg'[p] = seg[p]
       /\ terminal'[p] # terminal[p] => terminal'[p].status = "skipped_unchanged"]_vars

\* Killed and damaged as often as the bounds allow, a division that is run
\* again ends with every present source recorded as it is, under the current
\* rules, over an intact envelope.
AtRest(p) ==
  LET k == Route[rules][Detected[source[p]]]
      r == terminal[p]
  IN source[p] # Absent =>
       /\ r # None
       /\ r.hash = source[p]
       /\ r.rules = rules
       /\ IF r.status \in TextBearing THEN EnvelopeIntact(p, r.text)
          ELSE k = None \/ Result[k][rules][source[p]] = Fail

Converges == <>[](\A p \in Path : AtRest(p))

\* A claim the code does not keep (README.md, Findings).

\* "The marks live out of band in the segments file" (docs/DESIGN.md:43): the
\* sidecar beside a recorded, undamaged artifact is the one its own bytes
\* convert to.
SidecarIsOwn ==
  \A p \in done \ hurt :
    LET r == terminal[p]
    IN r.status \in TextBearing => seg[p] = Result[r.conv][r.rules][r.hash].seg
=============================================================================
