------------------------------ MODULE Handoff ------------------------------
(***************************************************************************)
(* The hand-off of divisions (src/src/bundle.rs): bundle packages one      *)
(* division step by step while a run may be appending to its shard and     *)
(* rewriting its mirror, a kill may cut either short, a finished bundle    *)
(* may be damaged where it lies, and merge joins two of them.              *)
(*                                                                         *)
(* The run is Pipeline's, reduced to its effects on the disk in their      *)
(* order: text, sidecar, shard line, or the removal of both files before   *)
(* the line of a failure.  A sidecar is named by the text it belongs to.   *)
(***************************************************************************)
EXTENDS Bundle

CONSTANTS TextValue,          \* artifact texts
          Shipped,            \* divisions that were bundled before; all their sources failed
          Presence,           \* the source sets the other ones may start with
          MaxRules, MaxRuns,  \* bounds: rules versions, runs
          MaxInputs,          \* bound: the inputs of a merge
          Mishaps,            \* which of kill, damage, delete may happen
          MaxMishaps          \* and how many of them do

ASSUME HandoffAssumption ==
  /\ ND \in Nat \ {0} /\ NP \in Nat \ {0}
  /\ MaxRules \in Nat \ {0} /\ {MaxRuns, MaxInputs, MaxMishaps} \subseteq Nat
  /\ Presence \subseteq SUBSET Path /\ Shipped \subseteq Division
  /\ None \notin TextValue

VARIABLES
  rules,            \* the rules version of the tool
  source,           \* the sources of each division
  shard, text, seg, \* the live division: shard, artifacts, sidecars
  tmp,              \* write_atomic left a temporary file behind
  run,              \* the run: [div, pc, cur, todo, rec]
  runs,             \* runs so far
  fresh,            \* the last run of the division finished under `rules`
  job,              \* bundle: [div, pc, bytes, log, todo, met]; met is 0 when the
                    \* division was complete at the start and no run touched it
                    \* since, 1 when one run has, 2 otherwise
  box,              \* the bundle directory of each division
  whole,            \* whether bundle has written it to the end
  lost,             \* what a damaged one was before, Empty otherwise
  result,           \* per division: none, ok or okCrowded, refusedQuiet or refused;
                    \* okCrowded for a met of 2, refusedQuiet for one of 0
  merging,          \* merge: [pc, in], in being the verified inputs, [div, desc] each
  out,              \* its output directory
  merged,           \* none, ok, refusedInput or refusedOutput
  used              \* mishaps so far

live == <<shard, text, seg, tmp>>
producer == <<source, live, run, runs, fresh>>
bundler == <<job, box, whole, lost, result>>
merger == <<merging, out, merged>>
vars == <<rules, producer, bundler, merger, used>>

Record == [path : Path, status : Status, rules : 1..MaxRules, text : TextValue \cup {None}]

Empty == [n \in {} |-> Bad]
NoRun == [div |-> 0, pc |-> "idle", cur |-> 0, todo |-> {}, rec |-> None]
NoJob == [div |-> 0, pc |-> "idle", bytes |-> None, log |-> <<>>, todo |-> {}, met |-> 0]
NoMerge == [pc |-> "idle", in |-> <<>>]

RunPc == {"idle", "next", "text", "seg", "dropText", "dropSeg", "append", "torn", "bare"}
BundlePc == {"idle", "parse", "check", "copy", "shard", "formats", "converters",
             "checksums", "descriptor", "verify"}

TypeOK ==
  /\ rules \in 1..MaxRules /\ source \in [Division -> SUBSET Path]
  /\ \A d \in Division : /\ shard[d].tail \in {"lf", "bare", "torn"}
                         /\ \A i \in DOMAIN shard[d].log : shard[d].log[i] \in Record
  /\ text \in [Division -> [Path -> TextValue \cup {None}]]
  /\ seg \in [Division -> [Path -> TextValue \cup {None}]]
  /\ tmp \in [Division -> BOOLEAN] /\ fresh \in [Division -> BOOLEAN]
  /\ run.pc \in RunPc
  /\ run.todo \subseteq Path /\ run.rec \in Record \cup {None}
  /\ runs \in 0..MaxRuns
  /\ job.pc \in BundlePc /\ job.met \in 0..2
  /\ \A d \in Division : Files(box[d]) \subseteq FileName
  /\ result \in [Division -> {"none", "ok", "okCrowded", "refused", "refusedQuiet"}]
  /\ merging.pc \in {"idle", "verify", "copy", "descriptor", "own"}
  /\ merged \in {"none", "ok", "refusedInput", "refusedOutput"}
  /\ used \in 0..MaxMishaps

\* Faulty variant: a record names the next rules generation.
LineOfNext(p, s, v, t) == [path |-> p, status |-> s, rules |-> v + 1, text |-> t]

Line(p, s, v, t) == [path |-> p, status |-> s, rules |-> v, text |-> t]
FailedLog == [log |-> <<Line(1, "failed", 1, None)>>, tail |-> "lf"]

\* bundle reported success.
Accepted(d) == result[d] \in {"ok", "okCrowded"}

\* What bundle writes for a division: the descriptor over the rest.
DescriptorFor(d, bytes, log, dir) ==
  [divisions |-> <<d>>, runs |-> {bytes},
   counts |-> [e \in {d} |-> Counts(log)], coverage |-> [e \in {d} |-> Coverage(log)],
   checksums |-> ChecksumLines(dir)]

ShippedBox(d) ==
  LET files == With(With(With(With(Empty, Subtree(d), Bad), Shard(d), <<"shard", FailedLog>>),
                         Formats, <<"rules", 1>>), Converters, <<"rules", 1>>)
  IN With(With(files, Checksums, <<"checksums", ChecksumLines(files)>>),
          Descriptor, <<"descriptor", DescriptorFor(d, FailedLog, FailedLog.log, files)>>)

Init ==
  /\ rules = 1
  /\ source \in [Division -> SUBSET Path]
  /\ \A d \in Division : source[d] \in IF d \in Shipped THEN {{1}} ELSE Presence
  /\ shard = [d \in Division |-> IF d \in Shipped THEN FailedLog ELSE [log |-> <<>>, tail |-> "lf"]]
  /\ text = [d \in Division |-> [p \in Path |-> None]] /\ seg = text
  /\ tmp = [d \in Division |-> FALSE] /\ fresh = [d \in Division |-> d \in Shipped]
  /\ run = NoRun /\ runs = 0
  /\ job = NoJob
  /\ box = [d \in Division |-> IF d \in Shipped THEN ShippedBox(d) ELSE Empty]
  /\ whole = fresh /\ lost = [d \in Division |-> Empty]
  /\ result = [d \in Division |-> IF d \in Shipped THEN "ok" ELSE "none"]
  /\ merging = NoMerge /\ out = Empty /\ merged = "none"
  /\ used = 0

\* Bound: what has no file in common is not interleaved, a run with the
\* bundling of another division or with a merge; and a division is left alone
\* once its bundle is written, for nothing reads it again.
Concerned(d) == /\ d \notin Shipped /\ ~whole[d]
                /\ run.div \in {0, d} /\ job.div \in {0, d} /\ merging.pc = "idle"

Mishap(kind) == kind \in Mishaps /\ used < MaxMishaps /\ used' = used + 1

-----------------------------------------------------------------------------
(* The run that writes the division *)

\* Opening the shard repairs its tail: a bare record gets its newline, a
\* torn one is dropped.
StartRun(d) ==
  /\ run.pc = "idle" /\ runs < MaxRuns /\ Concerned(d)
  /\ run' = [NoRun EXCEPT !.div = d, !.pc = "next", !.todo = source[d]]
  /\ runs' = runs + 1
  /\ shard' = [shard EXCEPT ![d].tail = "lf"]
  /\ fresh' = [fresh EXCEPT ![d] = FALSE]
  /\ job' = IF job.div = d THEN [job EXCEPT !.met = Min({@ + 1, 2})] ELSE job
  /\ UNCHANGED <<rules, source, text, seg, tmp, box, whole, lost, result, merger, used>>

Prior(d, p) == IF p \in Recorded(shard[d].log) THEN LastOf(shard[d].log, p) ELSE None

\* The text that the effective record of a path names.
Named(log, p) == IF p \in Recorded(log) THEN LastOf(log, p).text ELSE None

\* One source: skipped when it is unchanged and its record and envelope
\* stand; otherwise converted, a changed one to another text, or failed.
NextSource ==
  /\ run.pc = "next" /\ run.todo # {}
  /\ LET d == run.div
         p == Min(run.todo)
         r == Prior(d, p)
         intact == /\ r # None
                   /\ r.text # None /\ r.rules = rules /\ text[d][p] = r.text /\ seg[d][p] = r.text
         to(pc, rec) == run' = [run EXCEPT !.pc = pc, !.cur = p, !.todo = @ \ {p}, !.rec = rec]
     IN \/ intact /\ to("append", [r EXCEPT !.status = "skipped_unchanged"])
        \/ \E t \in TextValue : (intact => t # r.text) /\ to("text", Line(p, "converted", rules, t))
        \/ to("dropText", Line(p, "failed", rules, None))
  /\ UNCHANGED <<rules, source, live, runs, fresh, bundler, merger, used>>

Effect(pc, next, file, value, kept) ==
  /\ run.pc = pc
  /\ run' = [run EXCEPT !.pc = next]
  /\ file' = [file EXCEPT ![run.div][run.cur] = value]
  /\ UNCHANGED <<rules, source, shard, tmp, runs, fresh, bundler, merger, used, kept>>

WriteArtifact == \/ Effect("text", "seg", text, run.rec.text, seg)
                 \/ Effect("seg", "append", seg, run.rec.text, text)

RemoveArtifact == \/ Effect("dropText", "dropSeg", text, None, seg)
                  \/ Effect("dropSeg", "append", seg, None, text)

\* The bytes of the line reach the file piece by piece.
AppendLine ==
  LET d == run.div
      at(pc, next, s) == /\ run.pc = pc /\ shard' = [shard EXCEPT ![d] = s]
                         /\ run' = IF next = "next"
                                   THEN [run EXCEPT !.pc = next, !.cur = 0, !.rec = None]
                                   ELSE [run EXCEPT !.pc = next]
  IN /\ \/ at("append", "torn", [shard[d] EXCEPT !.tail = "torn"])
        \/ at("torn", "bare", [log |-> Append(shard[d].log, run.rec), tail |-> "bare"])
        \/ at("bare", "next", [shard[d] EXCEPT !.tail = "lf"])
     /\ UNCHANGED <<rules, source, text, seg, tmp, runs, fresh, bundler, merger, used>>

FinishRun == /\ run.pc = "next" /\ run.todo = {}
             /\ run' = NoRun
             /\ fresh' = [fresh EXCEPT ![run.div] = TRUE]
             /\ UNCHANGED <<rules, source, live, runs, bundler, merger, used>>

\* A kill inside write_atomic leaves its temporary file, which nothing
\* removes.
KillRun == /\ run.pc # "idle" /\ Mishap("kill")
           /\ run' = NoRun
           /\ tmp' = IF run.pc \in {"text", "seg"} THEN [tmp EXCEPT ![run.div] = TRUE] ELSE tmp
           /\ UNCHANGED <<rules, source, shard, text, seg, runs, fresh, bundler, merger>>

\* Between runs a source is deleted, or new rules are installed.
Delete(d, p) == /\ run.pc = "idle" /\ job.pc = "idle" /\ merging.pc = "idle"
                /\ p \in source[d] /\ ~whole[d] /\ Mishap("delete")
                /\ source' = [source EXCEPT ![d] = @ \ {p}]
                /\ UNCHANGED <<rules, live, run, runs, fresh, bundler, merger>>

Bump == /\ run.pc = "idle" /\ job.pc = "idle" /\ merging.pc = "idle" /\ rules < MaxRules
        /\ \A d \in Division \ Shipped : ~whole[d]
        /\ rules' = rules + 1
        /\ fresh' = [d \in Division |-> FALSE]
        /\ UNCHANGED <<source, live, run, runs, bundler, merger, used>>

-----------------------------------------------------------------------------
(* bundle *)

Step(next) == job' = [job EXCEPT !.pc = next] /\ UNCHANGED <<rules, producer, merger, used>>

\* Refused: what has been written so far stays in the output directory.
Refuse == /\ job' = NoJob
          /\ result' = [result EXCEPT ![job.div] = IF job.met = 0 THEN "refusedQuiet" ELSE "refused"]
          /\ UNCHANGED <<rules, producer, box, whole, lost, merger, used>>

\* fs::read of the shard, whose bytes are what the bundle will carry.  (The
\* refusal of an output directory that is not empty changes nothing.  Bound:
\* a bundle that was written to its end is not written again, even if every
\* file of it gets lost.)
ReadBytes(d) ==
  /\ job.pc = "idle" /\ box[d] = Empty /\ Concerned(d)
  /\ IF EndsWithNewline(shard[d])
     THEN /\ job' = [NoJob EXCEPT !.div = d, !.pc = "parse", !.bytes = shard[d],
                                  !.met = IF fresh[d] THEN 0 ELSE 2]
          /\ UNCHANGED result
     ELSE /\ job' = NoJob
          /\ result' = [result EXCEPT ![d] = IF fresh[d] THEN "refusedQuiet" ELSE "refused"]
  /\ UNCHANGED <<rules, producer, box, whole, lost, merger, used>>

\* read_shard reads the file again, and everything that is counted comes
\* from this second read.
ParseShard == /\ job.pc = "parse"
              /\ \/ shard[job.div].tail = "torn" /\ Refuse
                 \/ /\ shard[job.div].tail # "torn"
                    /\ job' = [job EXCEPT !.pc = "check", !.log = shard[job.div].log]
                    /\ UNCHANGED <<rules, producer, box, whole, lost, result, merger, used>>

\* Every artifact is a file, and every effective record is of this rules
\* version.
Shippable == /\ \A r \in Bearing(job.log) : text[job.div][r.path] # None
             /\ \A r \in Effective(job.log) : r.rules = rules

Write(name, c) == box' = [box EXCEPT ![job.div] = With(@, name, c)]

MirrorFiles(d) == {Text(d, p) : p \in {q \in Path : text[d][q] # None}}
                    \cup {Segments(d, p) : p \in {q \in Path : seg[d][q] # None}}
                    \cup (IF tmp[d] THEN {Leftover(d)} ELSE {})

\* The output gets the division's subtree, and the files to copy are listed;
\* CopyFile takes them in their byte order.
CheckAndList ==
  /\ job.pc = "check"
  /\ \/ ~Shippable /\ Refuse
     \/ /\ Shippable
        /\ job' = [job EXCEPT !.pc = "copy", !.todo = MirrorFiles(job.div)]
        /\ Write(Subtree(job.div), Bad)
        /\ UNCHANGED <<rules, producer, whole, lost, result, merger, used>>

Content(name) == CASE name[4] = "txt" -> <<"text", text[name[2]][name[3]]>>
                   [] name[4] = "segments.jsonl" -> <<"segments", seg[name[2]][name[3]]>>
                   [] OTHER -> Bad

\* One file, as it is by now; one that is gone fails the copy.
CopyFile ==
  /\ job.pc = "copy" /\ job.todo # {}
  /\ LET name == First(job.todo)
     IN \/ name \notin MirrorFiles(job.div) /\ Refuse
        \/ /\ name \in MirrorFiles(job.div)
           /\ job' = [job EXCEPT !.todo = @ \ {name}]
           /\ Write(name, Content(name))
           /\ UNCHANGED <<rules, producer, whole, lost, result, merger, used>>

EndCopy == job.pc = "copy" /\ job.todo = {} /\ Step("shard") /\ UNCHANGED <<box, whole, lost, result>>

\* Counts and coverage are those of the second read.
DescriptorOf(d) == DescriptorFor(d, job.bytes, job.log, box[d])

\* The remaining files, one after the other, and the descriptor last.
WriteRest ==
  LET d == job.div
      put(pc, next, name, c) == job.pc = pc /\ Write(name, c) /\ Step(next) /\ UNCHANGED <<lost, result>>
  IN \/ put("shard", "formats", Shard(d), <<"shard", job.bytes>>) /\ UNCHANGED whole
     \/ put("formats", "converters", Formats, <<"rules", rules>>) /\ UNCHANGED whole
     \/ put("converters", "checksums", Converters, <<"rules", rules>>) /\ UNCHANGED whole
     \/ put("checksums", "descriptor", Checksums, <<"checksums", ChecksumLines(box[d])>>)
          /\ UNCHANGED whole
     \/ /\ put("descriptor", "verify", Descriptor, <<"descriptor", DescriptorOf(d)>>)
        /\ whole' = [whole EXCEPT ![d] = TRUE]

\* A bundle that fails its own verification is no success.
VerifyOwn == /\ job.pc = "verify"
             /\ IF Verifies(box[job.div])
                THEN /\ job' = NoJob
                     /\ result' = [result EXCEPT ![job.div] = IF job.met < 2 THEN "ok" ELSE "okCrowded"]
                     /\ UNCHANGED <<rules, producer, box, whole, lost, merger, used>>
                ELSE Refuse

KillBundle == /\ job.pc # "idle" /\ Mishap("kill")
              /\ job' = NoJob
              /\ UNCHANGED <<rules, producer, box, whole, lost, result, merger>>

\* A descriptor that counts one failure too many.
Miscounted(dir, d) ==
  [dir EXCEPT ![Descriptor] = <<"descriptor", [Desc(dir) EXCEPT !.counts[d]["failed"] = @ + 1]>>]

\* A file of a bundle directory is lost, spoilt or added.  Only merge reads
\* such a directory, so it is enough that this happens when all are written.
Damage(d) ==
  /\ (\A e \in Division : whole[e]) /\ job.div = 0 /\ run.div = 0 /\ Mishap("damage")
  /\ \/ \E n \in DOMAIN box[d] : box' = [box EXCEPT ![d] = [m \in DOMAIN @ \ {n} |-> @[m]]]
     \/ \E n \in {m \in DOMAIN box[d] : m[4] # "dir"} : box' = [box EXCEPT ![d][n] = Bad]
     \/ /\ Descriptor \in DOMAIN box[d] /\ Is("descriptor", box[d][Descriptor])
        /\ box' = [box EXCEPT ![d] = Miscounted(@, d)]
     \/ /\ Leftover(d) \notin DOMAIN box[d]
        /\ box' = [box EXCEPT ![d] = With(@, Leftover(d), Bad)]
  /\ lost' = [lost EXCEPT ![d] = IF @ = Empty THEN box[d] ELSE @]
  /\ UNCHANGED <<rules, producer, job, whole, result, merger>>

-----------------------------------------------------------------------------
(* merge, of two inputs or more; a bundle may be given twice               *)

MergeStep(next, in) == /\ merging' = [pc |-> next, in |-> in]
                       /\ UNCHANGED <<rules, producer, bundler, used>>

StartMerge == /\ merging.pc = "idle" /\ merged = "none" /\ job.pc = "idle" /\ run.pc = "idle"
              /\ \A d \in Division : Accepted(d)
              /\ MergeStep("verify", <<>>)
              /\ UNCHANGED <<out, merged>>

EndMerge(why) == MergeStep("idle", merging.in) /\ merged' = why /\ UNCHANGED out

\* Every input verifies, one after the other, and its descriptor is kept.
\* (Bound: the inputs come in one order, as merge treats them alike.)
VerifyInput(d) ==
  /\ merging.pc = "verify" /\ Len(merging.in) < MaxInputs
  /\ merging.in # <<>> => d >= merging.in[Len(merging.in)].div
  /\ IF Verifies(box[d])
     THEN /\ MergeStep("verify", Append(merging.in, [div |-> d, desc |-> Desc(box[d])]))
          /\ UNCHANGED <<out, merged>>
     ELSE EndMerge("refusedInput")

Descs == [i \in DOMAIN merging.in |-> merging.in[i].desc]
Inputs == [i \in DOMAIN merging.in |-> box[merging.in[i].div]]

\* The divisions are disjoint and the snapshots, read again, are the same.
CheckInputs ==
  /\ merging.pc = "verify" /\ Len(merging.in) >= 2
  /\ IF /\ \A i \in DOMAIN Inputs : {Formats, Converters} \subseteq DOMAIN Inputs[i]
        /\ Mergeable(Descs, Inputs)
     THEN MergeStep("copy", merging.in) /\ UNCHANGED <<out, merged>>
     ELSE EndMerge("refusedInput")

\* What is copied, and the lines that are joined, are the inputs as they are
\* by now.
CopyInputs ==
  /\ merging.pc = "copy"
  /\ IF \A i \in DOMAIN Inputs : Checksums \in DOMAIN Inputs[i]
     THEN /\ MergeStep("descriptor", merging.in)
          /\ out' = With(Copied(Descs, Inputs), Checksums,
                         IF \A i \in DOMAIN Inputs : Is("checksums", Inputs[i][Checksums])
                         THEN <<"checksums", Joined(Inputs)>> ELSE Bad)
          /\ UNCHANGED merged
     ELSE EndMerge("refusedInput")

WriteDescriptor ==
  /\ merging.pc = "descriptor"
  /\ MergeStep("own", merging.in)
  /\ out' = With(out, Descriptor, <<"descriptor", JoinedDescriptor(Descs, out[Checksums][2])>>)
  /\ UNCHANGED merged

\* Faulty variant: the merged bundle is not verified.
VerifyMergedNever == merging.pc = "own" /\ EndMerge("ok")

\* A merge that emits an unverifiable bundle is a failed merge.
VerifyMerged == /\ merging.pc = "own"
                /\ EndMerge(IF Verifies(out) THEN "ok" ELSE "refusedOutput")

-----------------------------------------------------------------------------
\* Bound: a run does not move while bundle only writes a directory of its own.
BundleReads == job.pc \in {"idle", "parse", "check"} \/ (job.pc = "copy" /\ job.todo # {})

RunStep == \/ \E d \in Division : StartRun(d)
           \/ NextSource \/ WriteArtifact \/ RemoveArtifact \/ AppendLine \/ FinishRun \/ KillRun

Next ==
  \/ BundleReads /\ RunStep
  \/ \E d \in Division : ReadBytes(d) \/ Damage(d) \/ VerifyInput(d) \/ \E p \in Path : Delete(d, p)
  \/ Bump
  \/ ParseShard \/ CheckAndList \/ CopyFile \/ EndCopy \/ WriteRest \/ VerifyOwn \/ KillBundle
  \/ StartMerge \/ CheckInputs \/ CopyInputs \/ WriteDescriptor \/ VerifyMerged

Spec == Init /\ [][Next]_vars

-----------------------------------------------------------------------------
(* Properties *)

\* A bundle directory as bundle wrote it.
Packaged(d) == IF lost[d] = Empty THEN box[d] ELSE lost[d]

\* A bundle of a division that was complete when bundle began, reported ok
\* while at most one run met it, carries for every text it ships of a source
\* that is still there the sidecar that belongs to it.  Verify compares no
\* sidecar with a record and the run rewrites artifacts while they are copied,
\* but the run writes the text first and the copy reads the sidecar first
\* (bundle, copy_tree, write_artifact).  Two runs that change a source and
\* change it back, or a kill of each, do ship a text with the sidecar of
\* another.
SidecarShips ==
  \A d \in Division : result[d] = "ok" =>
    \A p \in source[d] : Text(d, p) \in DOMAIN Packaged(d) =>
      /\ Segments(d, p) \in DOMAIN Packaged(d)
      /\ Packaged(d)[Segments(d, p)][2] = Packaged(d)[Text(d, p)][2]

\* A bundle that was reported ok is one moment of the division's history:
\* its shard is a state the log was in, its counts are those of its shard,
\* although the shard was read twice while it was being appended to.
ShipsOneMoment ==
  \A d \in Division : Accepted(d) =>
    LET log == Packaged(d)[Shard(d)][2].log
    IN /\ IsPrefix(log, shard[d].log)
       /\ Desc(Packaged(d)).counts[d] = Counts(log) /\ Desc(Packaged(d)).coverage[d] = Coverage(log)
       /\ \A r \in Bearing(log) : Packaged(d)[Text(d, r.path)][2] = r.text

\* What verifies is what was packaged, every file of it and no other: a
\* bundle cut short by a kill, or with any one file lost, spoilt, added or
\* stale, is refused (verify).
VerifiedIsPackaged ==
  \A d \in Division : ~whole[d] \/ box[d] # Packaged(d) => ~Verifies(box[d])

\* merge reports ok only for the exact union of its inputs as they were
\* packaged, whatever happened to them between their verification and the
\* copy.
MergedIsUnion ==
  LET divs == {merging.in[i].div : i \in DOMAIN merging.in}
  IN merged = "ok" =>
       /\ Files(out) = UNION {Files(Packaged(d)) : d \in divs}
       /\ \A d \in divs : \A n \in Files(Packaged(d)) : out[n] = Packaged(d)[n]
       /\ Divisions(out) = divs
       /\ \A d \in divs : Desc(out).counts[d] = Desc(Packaged(d)).counts[d]

\* Inputs that verified and that nothing damaged never merge into a bundle
\* that fails its own verification.
UndamagedMerges ==
  merged = "refusedOutput" => \E d \in Division : lost[d] # Empty

Collides(d) == \E p, q \in Path : /\ p # q /\ PathKey[p] = PathKey[q]
                                  /\ text[d][p] # None /\ text[d][q] # None

\* A source that is gone was last recorded under older rules, or was left by
\* a killed run with files its record does not name.
Stale(d, p) ==
  /\ p \notin source[d]
  /\ \/ p \in Recorded(shard[d].log) /\ LastOf(shard[d].log, p).rules # rules
     \/ \E file \in {text, seg} : file[d][p] # Named(shard[d].log, p)

\* A division that a run under the current rules completed, and that no run
\* touched since, is refused for nothing but colliding names, an empty
\* shard, a source that is gone and was left stale, or a temporary file that
\* a kill left (bundle).
Excused(d) ==
  Collides(d) \/ shard[d].log = <<>> \/ tmp[d] \/ \E p \in Path : Stale(d, p)

QuietDivisionShips ==
  [][\A d \in Division : result'[d] = "refusedQuiet" => result[d] = "refusedQuiet" \/ Excused(d)]_vars

\* Completing a run under the current rules is enough to ship a division
\* (what bundle's refusals tell the user to do).
RerunShips ==
  [][\A d \in Division : result'[d] = "refusedQuiet" => result[d] = "refusedQuiet" \/ Collides(d)]_vars
=============================================================================
