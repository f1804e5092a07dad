---------------------------- MODULE ShardProofs ----------------------------
(***************************************************************************)
(* Proofs about Shard.tla, for every set of records and every bound.       *)
(***************************************************************************)
EXTENDS Shard, SequenceTheorems, TLAPS

Clean == lines \in Seq(Record)   \* no line is spoilt

\* The tail is only ever what the kill or the failure of one append leaves.
\* A line begun after such a tail is the run's last chance to spoil the file:
\* the file is clean until then, and the failure is on record.
TailInv == /\ tail = Garbage => faulted
           /\ writer = "open" /\ tail # Empty =>
                failed /\ faulted /\ Clean /\ tail # Garbage
           /\ writer = "appending" =>
                \/ line = record /\ tail \in {Empty, Torn, line}
                \/ /\ line = Garbage /\ tail # Empty
                   /\ failed /\ faulted /\ Clean
           /\ (writer = "appending") <=> (record # NoRecord)
           /\ (writer = "appending") <=> (line # NoRecord)
           /\ writer \in {"closed", "loaded"} => ~failed

\* Only a run that is over, or one whose append has failed, has a spoilt line
\* behind it.
LinesInv == /\ ~faulted \/ writer = "loaded" => Clean
            /\ writer \in {"open", "appending"} /\ ~failed => Clean

IInv == TypeOK /\ TailInv /\ LinesInv /\ DamageIsOneLine
          /\ ResumeViewMatchesFile /\ ReaderNeverMisled

\* A shard that can be read has no spoilt line.
LEMMA ReadableIsClean == TypeOK => (Readable <=> Clean)
  BY ShardAssumption DEF TypeOK, Readable, Clean, Line

\* Records is a sequence of lines, of records if the shard is clean.
LEMMA RecordsType ==
  ASSUME TypeOK
  PROVE  /\ Records \in Seq(Line)
         /\ Clean => Records \in Seq(Record)
         /\ Len(lines) =< Len(Records)
         /\ \A i \in 1..Len(lines) : Records[i] = lines[i]
         /\ Len(Records) =< Len(lines) + 1
  BY DEF TypeOK, Clean, Records, Line

\* The initial state satisfies the inductive invariant.
LEMMA InitIInv == Init => IInv
  <1> SUFFICES ASSUME Init PROVE IInv
    OBVIOUS
  <1> USE ShardAssumption DEF Init
  <1>1. TypeOK
    BY EmptySeq DEF TypeOK, TailState, Line
  <1>2. TailInv /\ LinesInv
    BY DEF TailInv, LinesInv, Clean
  <1>3. DamageIsOneLine /\ ResumeViewMatchesFile
    BY DEF DamageIsOneLine, Readable, ResumeViewMatchesFile
  <1>4. ReaderNeverMisled
    BY DEF ReaderNeverMisled, Records
  <1> QED BY <1>1, <1>2, <1>3, <1>4 DEF IInv

\* The lines of a shard are only ever added to, one at a time.
LEMMA LinesStep ==
  ASSUME IInv, [Next]_vars
  PROVE  \/ lines' = lines
         \/ Open /\ tail \in Record /\ lines' = Append(lines, tail)
         \/ WriteLf /\ lines' = Append(lines, line)
  BY DEF Next, vars, file, run, ReadShard, CheckLf, ReadShardStrict, Load, Open,
     Repaired, BeginAppend, WriteSome, WriteBody, WriteLf, FailAppend, Stop

\* Every variable keeps its type.
LEMMA TypeStep == IInv /\ [Next]_vars => TypeOK'
  <1> SUFFICES ASSUME IInv, [Next]_vars PROVE TypeOK'
    OBVIOUS
  <1> USE ShardAssumption DEF IInv, TypeOK, Line, TailState, file, run
  <1>1. CASE ReadShard \/ ReadShardStrict
    <2>1. Readable /\ seen' = Records
      BY <1>1 DEF ReadShard, ReadShardStrict
    <2>2. seen' \in Seq(Record)
      BY <2>1, ReadableIsClean, RecordsType
    <2> QED BY <1>1, <2>2 DEF ReadShard, ReadShardStrict
  <1>2. CASE Load
    <2>1. view' \in Seq(Record)
      BY <1>2, ReadableIsClean, RecordsType DEF Load
    <2> QED BY <1>2, <2>1 DEF Load
  <1>3. CASE Open
    BY <1>3 DEF Open, Repaired
  <1>4. CASE \E r \in Record : BeginAppend(r)
    BY <1>4 DEF BeginAppend
  <1>5. CASE WriteSome \/ WriteBody
    BY <1>5 DEF WriteSome, WriteBody, TailInv
  <1>6. CASE WriteLf
    BY <1>6 DEF WriteLf, TailInv
  <1>7. CASE CheckLf
    BY <1>7 DEF CheckLf
  <1>8. CASE FailAppend
    <2>1. failed' \in BOOLEAN /\ faulted' \in BOOLEAN
      BY <1>8 DEF FailAppend
    <2> QED BY <1>8, <2>1 DEF FailAppend
  <1>9. CASE Stop
    BY <1>9, EmptySeq DEF Stop
  <1>10. CASE UNCHANGED vars
    BY <1>10 DEF vars
  <1> QED
    BY <1>1, <1>2, <1>3, <1>4, <1>5, <1>6, <1>7, <1>8, <1>9, <1>10 DEF Next

\* What the tail may be, and where a spoilt line may lie, at each stage.
LEMMA TailStep == IInv /\ [Next]_vars => TailInv' /\ LinesInv'
  <1> SUFFICES ASSUME IInv, [Next]_vars PROVE TailInv' /\ LinesInv'
    OBVIOUS
  <1> USE ShardAssumption DEF IInv, TypeOK, TailInv, LinesInv, Clean, Line, TailState,
                              file, run
  <1>1. CASE ReadShard \/ ReadShardStrict \/ CheckLf \/ UNCHANGED vars
    BY <1>1 DEF ReadShard, ReadShardStrict, CheckLf, vars
  <1>2. CASE Load
    <2>1. Clean
      BY <1>2, ReadableIsClean DEF Load
    <2> QED BY <1>2, <2>1 DEF Load
  <1>3. CASE Open
    BY <1>3 DEF Open, Repaired
  <1>4. CASE \E r \in Record : BeginAppend(r)
    BY <1>4 DEF BeginAppend
  <1>5. CASE WriteSome
    BY <1>5 DEF WriteSome
  <1>6. CASE WriteBody
    BY <1>6 DEF WriteBody
  <1>7. CASE WriteLf
    BY <1>7 DEF WriteLf
  <1>8. CASE FailAppend
    BY <1>8 DEF FailAppend
  <1>9. CASE Stop
    BY <1>9 DEF Stop
  <1> QED
    BY <1>1, <1>2, <1>3, <1>4, <1>5, <1>6, <1>7, <1>8, <1>9 DEF Next

\* A step spoils a line only where no other one is spoilt.
LEMMA DamageStep == IInv /\ [Next]_vars => DamageIsOneLine'
  <1> SUFFICES ASSUME IInv, [Next]_vars PROVE DamageIsOneLine'
    OBVIOUS
  <1>1. ~faulted' => Readable'
    <2>1. TypeOK' /\ LinesInv'
      BY TypeStep, TailStep
    <2> QED BY <2>1, ShardAssumption DEF LinesInv, TypeOK, Readable, Clean, Line
  <1>2. \A i, j \in DOMAIN lines' : lines'[i] = Garbage /\ lines'[j] = Garbage => i = j
    <2> USE ShardAssumption DEF IInv, TypeOK, Line
    <2>1. CASE lines' = lines
      BY <2>1 DEF DamageIsOneLine
    <2>2. CASE Open /\ tail \in Record /\ lines' = Append(lines, tail)
      BY <2>2 DEF DamageIsOneLine
    <2>3. CASE WriteLf /\ lines' = Append(lines, line) /\ line \in Record
      BY <2>3 DEF DamageIsOneLine
    <2>4. CASE WriteLf /\ lines' = Append(lines, line) /\ line \notin Record
      <3>1. Clean
        BY <2>4 DEF WriteLf, TailInv
      <3> QED BY <2>4, <3>1 DEF Clean
    <2> QED BY <2>1, <2>2, <2>3, <2>4, LinesStep
  <1> QED BY <1>1, <1>2 DEF DamageIsOneLine

\* The run's copy follows the file.
LEMMA ViewStep == IInv /\ [Next]_vars => ResumeViewMatchesFile'
  <1> SUFFICES ASSUME IInv, [Next]_vars PROVE ResumeViewMatchesFile'
    OBVIOUS
  <1> USE ShardAssumption DEF IInv, TypeOK, ResumeViewMatchesFile, Line, file, run
  <1>1. CASE ReadShard \/ ReadShardStrict \/ CheckLf \/ UNCHANGED vars
    BY <1>1 DEF ReadShard, ReadShardStrict, CheckLf, vars, Records
  <1>2. CASE Load
    BY <1>2 DEF Load, Records
  <1>3. CASE Open
    BY <1>3 DEF Open, Repaired, Records
  <1>4. CASE \E r \in Record : BeginAppend(r)
    BY <1>4 DEF BeginAppend
  <1>5. CASE WriteSome \/ WriteBody \/ FailAppend \/ Stop
    BY <1>5 DEF WriteSome, WriteBody, FailAppend, Stop
  <1>6. CASE WriteLf
    <2>1. line \in {record, Garbage} /\ record \in Record
      BY <1>6 DEF WriteLf, TailInv
    <2>2. /\ lines' = Append(lines, line) /\ view' = Append(view, record)
          /\ writer' = "open"
      BY <1>6 DEF WriteLf
    <2>3. Len(view) = Len(lines) /\ \A i \in 1..Len(lines) : lines[i] \in {view[i], Garbage}
      BY <1>6 DEF WriteLf
    <2> QED BY <2>1, <2>2, <2>3
  <1> QED
    BY <1>1, <1>2, <1>3, <1>4, <1>5, <1>6 DEF Next

\* What a step does to the records a reader would be given, as long as no
\* run went on after a failed append: nothing, or one more at the end.
LEMMA RecordsStep ==
  ASSUME IInv, [Next]_vars, ~faulted'
  PROVE  \/ Records' = Records
         \/ record \in Record /\ Records' = Append(Records, record)
  <1> USE ShardAssumption DEF IInv, TypeOK, TailInv, Records, Line, file, run
  <1>1. CASE ReadShard \/ ReadShardStrict \/ CheckLf \/ Load \/ Stop \/ UNCHANGED vars
    BY <1>1 DEF ReadShard, ReadShardStrict, CheckLf, Load, Stop, vars
  <1>2. CASE Open
    BY <1>2 DEF Open, Repaired
  <1>3. CASE (\E r \in Record : BeginAppend(r)) \/ FailAppend
    BY <1>3 DEF BeginAppend, FailAppend
  <1>4. CASE WriteSome
    BY <1>4 DEF WriteSome
  <1>5. CASE WriteBody
    BY <1>5 DEF WriteBody
  <1>6. CASE WriteLf
    BY <1>6 DEF WriteLf
  <1> QED
    BY <1>1, <1>2, <1>3, <1>4, <1>5, <1>6 DEF Next

\* A reader that was given records still finds them after any step.
LEMMA ReaderStep == IInv /\ [Next]_vars => ReaderNeverMisled'
  <1> SUFFICES ASSUME IInv, [Next]_vars PROVE ReaderNeverMisled'
    OBVIOUS
  <1> USE DEF file, run
  <1>0. TypeOK /\ TypeOK' /\ seen \in Seq(Record)
    BY TypeStep DEF IInv, TypeOK
  <1>1. CASE ReadShard \/ ReadShardStrict
    <2>1. seen' = Records /\ UNCHANGED <<lines, tail, faulted>>
      BY <1>1 DEF ReadShard, ReadShardStrict
    <2>2. Records' = Records
      BY <2>1 DEF Records
    <2>3. Records \in Seq(Line)
      BY <1>0, RecordsType
    <2>4. \A i \in 1..(Len(Records) - 1) : i =< Len(lines) /\ Records[i] = lines[i]
      BY <1>0, <2>3, RecordsType DEF TypeOK
    <2> QED BY <2>1, <2>2, <2>3, <2>4 DEF ReaderNeverMisled
  <1>2. CASE ~(ReadShard \/ ReadShardStrict)
    <2>1. seen' = seen /\ (faulted => faulted')
      BY <1>2 DEF Next, vars, CheckLf, Load, Open, BeginAppend, WriteSome, WriteBody,
         WriteLf, FailAppend, Stop, IInv, TypeOK
    <2>2. /\ Len(lines) =< Len(lines')
          /\ \A i \in 1..Len(lines) : lines'[i] = lines[i]
      <3>1. lines \in Seq(Line) /\ tail \in TailState /\ (writer = "appending" => line \in Line)
        BY <1>0, ShardAssumption DEF TypeOK, IInv, TailInv, Line
      <3>2. CASE lines' = lines
        BY <3>1, <3>2
      <3>3. CASE Open /\ tail \in Record /\ lines' = Append(lines, tail)
        BY <3>1, <3>3
      <3>4. CASE WriteLf /\ lines' = Append(lines, line)
        BY <3>1, <3>4 DEF WriteLf
      <3> QED BY <3>2, <3>3, <3>4, LinesStep
    <2>3. \A i \in 1..(Len(seen) - 1) : i =< Len(lines') /\ seen[i] = lines'[i]
      BY <1>0, <2>2 DEF IInv, ReaderNeverMisled, TypeOK
    <2>4. ASSUME ~faulted'
          PROVE  Len(seen) =< Len(Records') /\ \A i \in 1..Len(seen) : seen[i] = Records'[i]
      <3>1. Records \in Seq(Line) /\ Records' \in Seq(Line)
        BY <1>0, RecordsType DEF TypeOK, Records, Line
      <3>2. Len(seen) =< Len(Records) /\ \A i \in 1..Len(seen) : seen[i] = Records[i]
        BY <2>1, <2>4 DEF IInv, ReaderNeverMisled
      <3>3. CASE Records' = Records
        BY <3>2, <3>3
      <3>4. CASE record \in Record /\ Records' = Append(Records, record)
        BY <1>0, <3>1, <3>2, <3>4 DEF Line
      <3> QED BY <2>4, <3>3, <3>4, RecordsStep
    <2> QED BY <2>1, <2>3, <2>4 DEF ReaderNeverMisled
  <1> QED BY <1>1, <1>2

\* IInv is preserved by every step of the run and of its readers.
LEMMA NextIInv == IInv /\ [Next]_vars => IInv'
  BY TypeStep, TailStep, DamageStep, ViewStep, ReaderStep DEF IInv

\* IInv holds of every reachable state: what a tail can be at each stage of
\* the writer, where a spoilt line can lie, and that the run and the readers
\* agree with the file.
THEOREM InvariantHolds == Spec => []IInv
  BY InitIInv, NextIInv, PTL DEF Spec

\* Every variable of the shard keeps its type.
THEOREM TypeCorrect == Spec => []TypeOK
  BY InvariantHolds, PTL DEF IInv

\* No sequence of kills, repairs and appends makes the shard unreadable; a
\* run that goes on after a failed append spoils one line of it at most.
THEOREM ShardStaysReadable == Spec => []DamageIsOneLine
  BY InvariantHolds, PTL DEF IInv

\* A resuming run works from exactly the records its repaired shard holds,
\* and differs from the file in the line of a failed append alone.
THEOREM ResumeIsFaithful == Spec => []ResumeViewMatchesFile
  BY InvariantHolds, PTL DEF IInv

\* No reader is given a record that is later taken back, except for a last
\* one whose append has failed.
THEOREM ReadersKeepWhatTheySaw == Spec => []ReaderNeverMisled
  BY InvariantHolds, PTL DEF IInv

\* The shard implements the record log, failed appends included.
THEOREM ShardImplementsLog == Spec => ImplementsLog
  <1> DEFINE pend == IF writer = "appending" /\ (tail # line \/ line = Garbage)
                     THEN record ELSE NoRecord
             dbt == IF ~After THEN "none" ELSE IF tail \in Record THEN "whole" ELSE "torn"
  <1>1. Init => Log!Init
    BY ShardAssumption DEF Init, Log!Init, Records, After
  <1>2. IInv /\ [Next]_vars => [Log!Next]_Log!vars
    <2> SUFFICES ASSUME IInv, [Next]_vars PROVE [Log!Next]_Log!vars
      OBVIOUS
    <2>0. TypeOK /\ TypeOK' /\ TailInv
      BY TypeStep DEF IInv
    <2> USE ShardAssumption, <2>0 DEF TypeOK, TailInv, Line, TailState, file, run, After,
                                      Log!vars
    <2>1. CASE ReadShard \/ ReadShardStrict \/ CheckLf \/ Load \/ UNCHANGED vars
      <3>1. Records' = Records /\ pend' = pend /\ dbt' = dbt
        BY <2>1 DEF ReadShard, ReadShardStrict, CheckLf, Load, vars, Records
      <3> QED BY <3>1
    <2>2. CASE Open
      <3>1. Records' = Records /\ pend' = pend /\ dbt' = dbt
        BY <2>2 DEF Open, Repaired, Records
      <3> QED BY <3>1
    <2>3. CASE \E r \in Record : BeginAppend(r)
      <3>1. PICK r \in Record : BeginAppend(r)
        BY <2>3
      <3>2. Log!Submit(r)
        BY <3>1 DEF BeginAppend, Log!Submit, Records
      <3> QED BY <3>2 DEF Log!Next
    <2>4. CASE WriteSome
      <3>1. CASE line = record
        <4>1. Records' = Records /\ pend' = pend /\ dbt' = dbt
          BY <2>4, <3>1 DEF WriteSome, Records
        <4> QED BY <4>1
      <3>2. CASE line # record /\ tail \in Record
        <4>1. SubSeq(Append(lines, tail), 1, Len(Append(lines, tail)) - 1) = lines
          BY <3>2
        <4>2. Log!TakeBack
          BY <2>4, <3>2, <4>1 DEF WriteSome, Log!TakeBack, Records
        <4> QED BY <4>2 DEF Log!Next
      <3>3. CASE line # record /\ tail \notin Record
        <4>1. Records' = Records /\ pend' = pend /\ dbt' = dbt
          BY <2>4, <3>3 DEF WriteSome, Records
        <4> QED BY <4>1
      <3> QED BY <3>1, <3>2, <3>3
    <2>5. CASE WriteBody
      <3>1. CASE line = record
        <4>1. Log!Commit
          BY <2>5, <3>1 DEF WriteBody, Log!Commit, Records
        <4> QED BY <4>1 DEF Log!Next
      <3>2. CASE line # record /\ tail \in Record
        <4>1. SubSeq(Append(lines, tail), 1, Len(Append(lines, tail)) - 1) = lines
          BY <3>2
        <4>2. Log!TakeBack
          BY <2>5, <3>2, <4>1 DEF WriteBody, Log!TakeBack, Records
        <4> QED BY <4>2 DEF Log!Next
      <3>3. CASE line # record /\ tail \notin Record
        <4>1. Records' = Records /\ pend' = pend /\ dbt' = dbt
          BY <2>5, <3>3 DEF WriteBody, Records
        <4> QED BY <4>1
      <3> QED BY <3>1, <3>2, <3>3
    <2>6. CASE WriteLf
      <3>1. CASE line = record
        <4>1. Records' = Records /\ pend' = pend /\ dbt' = dbt
          BY <2>6, <3>1 DEF WriteLf, Records
        <4> QED BY <4>1
      <3>2. CASE line # record
        <4>1. Log!Spoil
          BY <2>6, <3>2 DEF WriteLf, Log!Spoil, Records
        <4> QED BY <4>1 DEF Log!Next
      <3> QED BY <3>1, <3>2
    <2>7. CASE FailAppend
      <3>1. line = record /\ tail \in {Empty, Torn, line} /\ Clean
        BY <2>7 DEF FailAppend, IInv, LinesInv
      <3>2. CASE tail = Empty
        <4>1. Log!Abandon
          BY <2>7, <3>1, <3>2 DEF FailAppend, Log!Abandon, Records
        <4> QED BY <4>1 DEF Log!Next
      <3>3. CASE tail # Empty
        <4>1. Records' = Records /\ \A i \in DOMAIN Records : Records[i] \in Record
          BY <2>7, <3>1 DEF FailAppend, Records, Clean
        <4>2. dbt = "none" /\ pend' = NoRecord
              /\ dbt' = IF pend = NoRecord THEN "whole" ELSE "torn"
          BY <2>7, <3>1, <3>3 DEF FailAppend
        <4>3. Log!Fault
          BY <4>1, <4>2 DEF Log!Fault
        <4> QED BY <4>3 DEF Log!Next
      <3> QED BY <3>2, <3>3
    <2>8. CASE Stop
      <3>1. Records' = Records /\ pend' = NoRecord /\ dbt' = "none"
        BY <2>8 DEF Stop, Records
      <3>2. Log!Abandon \/ UNCHANGED Log!vars
        BY <3>1 DEF Log!Abandon
      <3> QED BY <3>2 DEF Log!Next
    <2> QED BY <2>1, <2>2, <2>3, <2>4, <2>5, <2>6, <2>7, <2>8 DEF Next
  <1> QED BY <1>1, <1>2, InvariantHolds, PTL DEF Spec, ImplementsLog, Log!Spec
=============================================================================
