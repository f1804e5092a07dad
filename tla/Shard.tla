------------------------------- MODULE Shard -------------------------------
(***************************************************************************)
(* One division's manifest shard (src/src/manifest.rs): an append-only     *)
(* JSONL file, the run that loads, repairs and extends it, the kill that   *)
(* may stop that run in the middle of a line, the append that fails in the *)
(* middle of one, after which the run may still reconcile on the same open *)
(* writer, and the readers (status, explain, bundle) that may read the     *)
(* file at any moment in between.                                          *)
(*                                                                         *)
(* The file is `lines`, the complete LF-terminated lines, followed by      *)
(* `tail`, the bytes after the last LF.  A tail is Empty, Torn (a prefix   *)
(* of a record, which never parses) or a whole record that lacks its LF.   *)
(* What follows the tail in an append is one line with it, so a record     *)
(* begun after a non-empty tail ends up inside a line no reader can parse  *)
(* (Garbage).                                                              *)
(***************************************************************************)
EXTENDS Naturals, Sequences

CONSTANTS Record,      \* the records runs write (each passes Record::validate)
          Garbage,     \* a line that parse_record refuses
          Empty,       \* nothing follows the last LF
          Torn,        \* a prefix of a line follows it
          NoRecord,    \* no append is under way
          MaxRecords   \* bound on the lines of the shard

ASSUME ShardAssumption ==
  /\ {Garbage, Empty, Torn, NoRecord} \cap Record = {}
  /\ Garbage \notin {Empty, Torn, NoRecord}
  /\ NoRecord \notin {Empty, Torn}
  /\ Empty # Torn
  /\ MaxRecords \in Nat

VARIABLES lines,    \* the LF-terminated lines
          tail,     \* what follows the last LF
          writer,   \* closed, loaded, open or appending: where the run is
          record,   \* the record being appended
          line,     \* the line it is part of: Garbage if it began after a tail
          failed,   \* an append of this run has failed
          view,     \* the run's in-memory copy of the records
          seen,     \* what the last successful reader was given
          checked,  \* the strict reader has seen the file end in an LF
          faulted   \* history: some run went on after an append that failed
                    \* had left bytes behind

file == <<lines, tail, faulted>>
run == <<writer, record, line, failed, view>>
vars == <<lines, tail, writer, record, line, failed, view, seen, checked, faulted>>

Line == Record \cup {Garbage}
TailState == {Empty, Torn} \cup Line   \* a line here is a tail that lacks its LF

TypeOK == /\ lines \in Seq(Line)
          /\ tail \in TailState
          /\ writer \in {"closed", "loaded", "open", "appending"}
          /\ record \in Record \cup {NoRecord}
          /\ line \in Line \cup {NoRecord}
          /\ failed \in BOOLEAN
          /\ view \in Seq(Record)
          /\ seen \in Seq(Record)
          /\ checked \in BOOLEAN
          /\ faulted \in BOOLEAN

Init == /\ lines = <<>>
        /\ tail = Empty
        /\ writer = "closed"
        /\ record = NoRecord
        /\ line = NoRecord
        /\ failed = FALSE
        /\ view = <<>>
        /\ seen = <<>>
        /\ checked = FALSE
        /\ faulted = FALSE

-----------------------------------------------------------------------------
(* Reading *)

\* A malformed complete line fails the whole read; a tail that does not
\* parse is dropped with a warning, one that parses is a record.
Readable == \A i \in DOMAIN lines : lines[i] \in Record
\* Faulty variant: a torn tail is counted as a record.
RecordsAnyTail == IF tail # Empty THEN Append(lines, tail) ELSE lines

Records == IF tail \in Record THEN Append(lines, tail) ELSE lines

\* status and explain read with read_shard, in another process.
ReadShard == /\ Readable
             /\ seen' = Records
             /\ UNCHANGED <<file, run, checked>>

\* bundle and verify read with read_shard_strict, which reads the file
\* twice: first for an LF at its end,
CheckLf == /\ tail = Empty
           /\ checked' = TRUE
           /\ UNCHANGED <<file, run, seen>>

\* then for the records, where a tail that does not parse is an error and
\* one that has come to lie there since and parses is not.
ReadShardStrict == /\ checked
                   /\ Readable
                   /\ tail \in {Empty} \cup Record
                   /\ seen' = Records
                   /\ checked' = FALSE
                   /\ UNCHANGED <<file, run>>

-----------------------------------------------------------------------------
(* The run *)

\* Faulty variant: only LF-terminated lines are loaded.
LoadLinesOnly == /\ writer = "closed"
                 /\ Readable
                 /\ view' = lines
                 /\ writer' = "loaded"
                 /\ UNCHANGED <<file, record, line, failed, seen, checked>>

\* The run reads the prior records before it opens the shard for append.
Load == /\ writer = "closed"
        /\ Readable
        /\ view' = Records
        /\ writer' = "loaded"
        /\ UNCHANGED <<file, record, line, failed, seen, checked>>

\* Faulty variant: every tail is truncated.
RepairedAlwaysCut == lines

\* Faulty variant: the shard is opened without a repair.
OpenUnrepaired == /\ writer = "loaded"
                  /\ writer' = "open"
                  /\ UNCHANGED <<file, record, line, failed, view, seen, checked>>

\* Faulty variant: the shard is opened to be rewritten, not appended to.
OpenTruncating == /\ writer = "loaded"
                  /\ lines' = <<>> /\ tail' = Empty
                  /\ writer' = "open"
                  /\ UNCHANGED <<record, line, failed, view, seen, checked, faulted>>

\* repair_tail, then open for append: a whole tail gets its LF, any other
\* tail is truncated to the last LF.
Repaired == IF tail \in Record THEN Append(lines, tail) ELSE lines

Open == /\ writer = "loaded"
        /\ lines' = Repaired
        /\ tail' = Empty
        /\ writer' = "open"
        /\ UNCHANGED <<record, line, failed, view, seen, checked, faulted>>

\* append hands one serialized line to write_all, whatever the file ends in.
BeginAppend(r) == /\ writer = "open"
                  /\ Len(lines) < MaxRecords
                  /\ record' = r
                  /\ line' = IF tail = Empty THEN r ELSE Garbage
                  /\ writer' = "appending"
                  /\ UNCHANGED <<file, failed, view, seen, checked>>

\* Some bytes of the line, but not all of the record, reach the file.
WriteSome == /\ writer = "appending"
             /\ tail \notin {Torn, line}
             /\ tail' = Torn
             /\ UNCHANGED <<lines, run, seen, checked, faulted>>

\* All of the record has reached the file, the LF has not.
WriteBody == /\ writer = "appending"
             /\ tail # line
             /\ tail' = line
             /\ UNCHANGED <<lines, run, seen, checked, faulted>>

\* The LF reaches the file; only then does the run's own copy follow, with
\* the record, whatever it was glued to.
WriteLf == /\ writer = "appending"
           /\ tail = line
           /\ lines' = Append(lines, line)
           /\ tail' = Empty
           /\ writer' = "open"
           /\ view' = Append(view, record)
           /\ record' = NoRecord
           /\ line' = NoRecord
           /\ UNCHANGED <<failed, seen, checked, faulted>>

\* The append of a member, a leg or a container fails (a full disk, say)
\* and the error returns to the owner of the claim, which reconciles before
\* it passes the error on: it appends retirement records with the same
\* writer, after whatever bytes the failed append left.  Without a claim,
\* or at a second failure (one of the reconciliation itself), the error
\* ends the run: that is Stop.
FailAppend == /\ writer = "appending"
              /\ ~failed
              /\ failed' = TRUE
              /\ writer' = "open"
              /\ record' = NoRecord
              /\ line' = NoRecord
              /\ faulted' = (faulted \/ tail # Empty)
              /\ UNCHANGED <<lines, tail, view, seen, checked>>

\* The run ends, is killed, or an error ends it: the writer is dropped and
\* the file stays as the last write left it.
Stop == /\ writer # "closed"
        /\ writer' = "closed"
        /\ record' = NoRecord
        /\ line' = NoRecord
        /\ failed' = FALSE
        /\ view' = <<>>
        /\ UNCHANGED <<file, seen, checked>>

Next == \/ ReadShard
        \/ CheckLf
        \/ ReadShardStrict
        \/ Load
        \/ Open
        \/ \E r \in Record : BeginAppend(r)
        \/ WriteSome
        \/ WriteBody
        \/ WriteLf
        \/ FailAppend
        \/ Stop

Spec == Init /\ [][Next]_vars

-----------------------------------------------------------------------------
(* Properties *)

\* However often the writer is killed, wherever in a line, and whatever a
\* later run appends after the wreck, the shard stays readable.  The one
\* way to lose it is a run that goes on after an append that failed with
\* bytes written (pipeline.rs:1068), and that spoils a single line: no run
\* adds a second one.
DamageIsOneLine ==
  /\ ~faulted => Readable
  /\ \A i, j \in DOMAIN lines : lines[i] = Garbage /\ lines[j] = Garbage => i = j

\* The records the run resumes from are the records the repaired file holds:
\* read_shard counts a whole tail exactly when repair_tail keeps it.  From
\* then on the in-memory copy follows each append, and the file differs from
\* it at most in the line that a failed append spoiled.  Were the two to
\* disagree, a source would be skipped on a record the shard does not hold,
\* or redone.
ResumeViewMatchesFile ==
  /\ writer = "loaded" => view = Records
  /\ writer \in {"open", "appending"} =>
       /\ Len(view) = Len(lines)
       /\ \A i \in DOMAIN lines : lines[i] \in {view[i], Garbage}

\* What a reader was given is never taken back: a later repair, kill or
\* append leaves those records where the reader saw them.  Only the last of
\* them, read off a line that lacked its LF, can be lost, and only where a
\* run went on after the append of that record had failed.
ReaderNeverMisled ==
  /\ \A i \in 1..(Len(seen) - 1) : i =< Len(lines) /\ seen[i] = lines[i]
  /\ ~faulted => /\ Len(seen) =< Len(Records)
                 /\ \A i \in 1..Len(seen) : seen[i] = Records[i]

\* The shard, its kills, repairs and failed appends implement a log that
\* grows by whole records, loses at most the record whose append failed, and
\* holds at most one spoilt entry.
After == (writer = "open" /\ tail # Empty) \/ line = Garbage   \* after a failed append
Log == INSTANCE RecordLog WITH
         log <- Records,
         pending <- IF writer = "appending" /\ (tail # line \/ line = Garbage)
                    THEN record ELSE NoRecord,
         doubt <- IF ~After THEN "none" ELSE IF tail \in Record THEN "whole" ELSE "torn"

ImplementsLog == Log!Spec

\* "A record never starts on a line that lacks a trailing LF" (ManifestWriter::
\* open, manifest.rs:231), so every complete line parses and the shard can
\* always be read, and resumed from.  It is not so: see the run `glued`.
NeverUnreadable == Readable
=============================================================================
