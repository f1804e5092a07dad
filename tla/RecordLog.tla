----------------------------- MODULE RecordLog -----------------------------
(***************************************************************************)
(* What a manifest shard promises, with no bytes in it: a log of records   *)
(* that grows, to which one writer at a time adds one record, and from     *)
(* which a record whose writer was killed is either there whole or absent. *)
(* Where an append fails and its writer goes on, the record it was given   *)
(* is in doubt: the next append may take it back, and spoils one entry.    *)
(* Shard.tla is shown to implement it.                                     *)
(***************************************************************************)
EXTENDS Naturals, Sequences

CONSTANTS Record,    \* the records a run may write
          Garbage,   \* a spoilt entry
          NoRecord   \* no append is under way

VARIABLES log,       \* every entry committed so far, in order
          pending,   \* the record whose append has not taken effect yet
          doubt      \* none, or what a failed append left: torn bytes, or a whole record

vars == <<log, pending, doubt>>

TypeOK == /\ log \in Seq(Record \cup {Garbage})
          /\ pending \in Record \cup {NoRecord}
          /\ doubt \in {"none", "torn", "whole"}

Init == log = <<>> /\ pending = NoRecord /\ doubt = "none"

Submit(r) == /\ pending = NoRecord
             /\ pending' = r
             /\ UNCHANGED <<log, doubt>>

Commit == /\ pending # NoRecord
          /\ doubt = "none"
          /\ log' = Append(log, pending)
          /\ pending' = NoRecord
          /\ UNCHANGED doubt

\* The writer ends: a record that has not taken effect is lost whole, and
\* what a failed append left is settled as it lies.
Abandon == /\ pending # NoRecord \/ doubt # "none"
           /\ pending' = NoRecord
           /\ doubt' = "none"
           /\ UNCHANGED log

\* The append fails part of the way and the writer goes on, over a log that
\* has no spoilt entry yet.
Fault == /\ doubt = "none"
         /\ \A i \in DOMAIN log : log[i] \in Record
         /\ doubt' = IF pending = NoRecord THEN "whole" ELSE "torn"
         /\ pending' = NoRecord
         /\ UNCHANGED log

\* The next append begins to write: the record in doubt is taken back.
TakeBack == /\ pending # NoRecord
            /\ doubt = "whole"
            /\ log' = SubSeq(log, 1, Len(log) - 1)
            /\ doubt' = "torn"
            /\ UNCHANGED pending

\* It takes effect, as one spoilt entry.
Spoil == /\ pending # NoRecord
         /\ doubt = "torn"
         /\ log' = Append(log, Garbage)
         /\ pending' = NoRecord
         /\ doubt' = "none"

Next == \/ \E r \in Record : Submit(r)
        \/ Commit
        \/ Abandon
        \/ Fault
        \/ TakeBack
        \/ Spoil

Spec == Init /\ [][Next]_vars
=============================================================================
