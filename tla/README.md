# text-mirror: a TLA+ verification project

text-mirror turns a directory of sources (a *division*) into a mirror of text
artifacts, one per source, each beside a sidecar of structure spans, and keeps a
manifest shard with one record per source and outcome. A run may be killed at
any point and run again. The shard is the checkpoint. This project models how
manifest, mirror and sources stay consistent through edits, kills, damage and
errors, checks it with TLC and proves the central parts with TLAPS. References
such as `pipeline.rs:833` are to files of `src/src/`.

## The system

| component | state | operations | modelled in |
|---|---|---|---|
| manifest shard (`manifest.rs`) | one append-only JSONL file per division | open with tail repair, append, two readers | `Shard`, abstractly `RecordLog` |
| run (`pipeline.rs`, `run`) | terminal record per path, dedup index, walk position; on disk the artifacts and sidecars | walk, front (hash, detect), checkpoint, borrow, convert, record | `Pipeline` |
| expander (`pipeline.rs`, `Expander`) | the claim of the outermost owner, the byte budget, the chain of ancestors | container expansion, auxiliary legs, reconciliation | `Expansion` |
| dedup index (`hash.rs`) | canonical artifact per source hash | seed, replace, look up | `Pipeline`, `Expansion` |
| mirror (`mirror.rs`) | files | atomic write, path arithmetic | as values in `Pipeline`, `Expansion`, `Handoff` |
| segments (`segments.rs`) | none | construction, order, validation | `Segments`, and as values in `Pipeline` |
| walk (`walk.rs`) | none | the entries of a division | as the order of `Pipeline` and `Expansion` |
| detection, registry, providers (`detect.rs`, `convert/mod.rs`, `provider.rs`) | tables read at start | parse, route, check pins and roots | `Routing` |
| in-process converters (`html.rs`, `eml.rs`, `workbook.rs`, `visibility.rs`, `document.rs`, `differential.rs`, passthrough) | none | bytes to text and segments | `Html`, `Mail`, `Sheets`, `Documents`, `Plain` |
| in-jail converters (`image_metadata.rs`, `audio_asr.rs`, `records.rs`, `pdf.rs`) | none beyond one call | bytes to rows, samples, lines | `Media`, `Speech`, `Records`, `Documents` |
| subprocess runner (`runner/mod.rs`, `memory.rs`) | one process group, two drain threads, a clock | request, polling loop, drains, memory guard, group kill | `Drive` |
| jail, probe cache, worker modes, engines (`jail.rs`, `linux.rs`, `macos.rs`, `helper.rs`, `worker.rs`, `subprocess.rs`, `svg_raster.rs`) | passed policy digests, the runner of each mode | digest, probe, grants, helper layers, verify and execute | `Calls` |
| bundle, verify, merge (`bundle.rs`) | the bundle directory | the hand-off gate, the copy, the seven checks of verify, the union | `Bundle`, `Handoff`; the strict read in `Shard` |
| status, explain (`pipeline.rs`, `report.rs`) | none | read every shard | their reads in `Shard` |
| command line (`main.rs`) | none | dispatch | not modelled |

How they interact. A run loads the shard, then opens it (which repairs its
tail), and appends to it: the load and the repair must agree. The checkpoint
reads the terminal records and the mirror. The dedup index is seeded from the
terminal records before anything is converted, so it may be stale when it is
used. A conversion writes two files by rename, then appends the record.
Containers call the same dispatch for each member; one claim, held by the
outermost container, collects what the expansion emitted, and the
reconciliation retires what it did not. Readers and the bundle read shard and
mirror without a lock. A converter of untrusted or native parsers is an adapter:
it asks the runner for one worker process under a jail, which must have passed a
probe for its policy digest; the runner's verdict is the converter's result.

What makes it correct: the shard stays readable and never disagrees
with the run that resumes from it; a record never names bytes other than those
its text was made of; the mirror holds what the records say and nothing for a
record without text; what is unchanged and intact is not redone, and nothing
else is skipped; a container that is skipped is complete, and one that is
expanded leaves nothing of an earlier life behind; running again repairs
whatever kills, damage and errors left. A bundle that verifies is one moment of
its division. A worker's answer counts only if it is whole and nobody was
killed for it, and untrusted bytes are parsed only under the full jail. A
converter shows all that is visible, marks what is hidden, and refuses what it
cannot read whole.

What is hard here: a kill between any two effects; an append that fails and a run that
goes on; edits between the hash, the
detection and the load; a stale dedup index; sources that change their nature
(archive, image, plain file) between runs; reads of a shard under a live writer;
a bundle copied while a run rewrites it; exit, deadline, drains and memory guard
racing in one loop; binaries replaced between check and use; cursors, ceilings and
nesting in the parsers. `PROJECT.json` lists each hazard at its line.

## The modules

`RecordLog` is the abstract specification of a shard: a log that grows by whole
records, from which a killed append is absent or whole. A failed append leaves its
record in doubt: a writer that goes on takes it back and spoils one entry.

`Shard` has the file as its LF-terminated lines and a tail (empty, torn, or a
whole record without its LF). `Load`, `Open`, `BeginAppend`, `WriteSome`,
`WriteBody`, `WriteLf` are `read_shard`, `ManifestWriter::open` with
`repair_tail`, and `append` split where a kill can tell the difference. An append
that fails ends the run (`Stop`, as a kill does), or, under a claim, returns to the
owner of the claim, which reconciles on the same open writer before it passes the
error on (`FailAppend`, `pipeline.rs:1064`): what it appends is glued to the bytes
that the failed append left. A line glued
to a tail is `Garbage`. `ReadShard` and `ReadShardStrict` are the readers of other
processes; the strict one reads the file twice (`CheckLf` first). Serde is
abstracted to whether a line parses; two writers at once are
not modelled. `Log` maps the file to `RecordLog`: a record is committed once its
last byte, LF excepted, is in the file.

`Pipeline` is `run` over sources without derived children, one action per step
that another party can observe or interrupt: `Hash` and `Detect` (two reads of the
file), `Skip`/`Changed` (checkpoint), `Borrow`/`NoBorrow`, `Convert` (which re-hashes
what it loads), `WriteText`, `WriteSeg`, `DropText`, `DropSeg`, `AppendRecord`. I/O
faults may hit either write or either removal. The environment edits, creates and
deletes sources, loses or replaces artifacts, kills the run and installs new
rules between runs. A path is its rank in the walk. The byte order of
`seed_dedup` differs from the walk's order only where a name is a prefix of a
sibling directory's (`a.txt` against `a/b`), which the model does not separate.
Sidecars are values with a relation `Fits` to texts, as `segments::validate` is.

`Expansion` is the same dispatch with children: paths are sequences of names, and
the recursion of `process` is an agenda of tasks. It has the checkpoint over a
subtree, claims and member aliasing by the case-folded key, depth and quine
guards, refused members, the per-member ceiling and the shared budget, the raster
and vector legs with a provider that may refuse, borrows, a real file inside the
namespace, and the reconciliation. An append may fail under a claim
(`AppendFails`): the owner then reconciles with what was emitted so far, and the run
ends. It leaves a sound shard here, since the bytes of a failed append are `Shard`'s. An
artifact write (or removal) and its record are two steps; text and sidecar are one artifact here, since `Pipeline` covers
the steps between them. `expand_eml` is the same control without refused members
and with no per-member ceiling (a `MaxMember` of `MaxExpanded`). Not in it: I/O
faults of the mirror, rules bumps and formats (all in `Pipeline`), the
`*_NOT_BUILT` markings, and the child and entry count caps, which fail a container
in the same way the declared size does.

`Bundle` says what a bundle directory is, and what `verify` and `merge` compute from
one, as functions of its files: a file is a name and a content that stands for its
own hash. `Handoff` is the process: a reduced run (`NextSource` and its effects in
the order of `Pipeline`, then the line), `ReadBytes`, `ParseShard` (the two reads),
`CheckAndList`, `CopyFile` (one file at a time), `WriteRest`, `VerifyOwn`, and merge
from `StartMerge` to `VerifyMerged`, of two inputs or more, each as often as it is given.
Some reductions keep it small, none of which removes a behaviour the properties see: the
run of a division that nobody bundles, or whose bundle is written, is left out
(`Concerned`), the run moves while the bundler can see a difference (`BundleReads`),
damage comes once the bundles are written and before or while they are merged, and the
inputs of a merge come in one order.

`Drive` is one `Runner::run_unprobed`: parent, two drain threads, clock, worker and
one descendant as processes, the pipes holding one token each. The worker is not
trusted. A request that fits the pipe is written at once; a larger one is written
by `SendSlowly` before there is a deadline, and such a call hangs if the worker
reads nothing, so `CallReturns` excludes it. On macOS a descendant may leave the
group (`MayEscape`); one that also closed its pipes survives a success.

`Calls` is the layer above: threads that convert, each with a mode, a class, its
grants and its digest, the shared probe cache, both probe stages, the helper's
layers, and the engines a mode verifies and executes, while a deployment replaces
worker and engines. A spawn is one step here, since `Drive` has what happens in it.
The provider chain executes each engine twice, with `--version` (`AssertVersion`) and
for its work (`Execute`).

`Segments`, `Sheets`, `Html`, `Mail`, `Media`, `Speech`, `Records`, `Documents`, `Plain` and
`Routing` are algorithms: each is the code's state machine as a fold over the events
of its parser, beside an independent definition of what the result must be
(`HiddenIsMarked`, `VisibleTextIsKept`, `EveryPartAccounted`, `MetadataWhole`,
`TranscriptWhole`, `RowsAreWhole`, `PlainIsFaithful`, `TextIsExact`, `RoutesAgree` and the
like). `Readers` feeds them: its state is a reader and the source fed so far, so
that every prefix is a source too. The parsers that yield the events (zip, xml, html,
mime, sqlite, codecs, markdown) are external. Widths of characters, formatting of
cells and of numbers are abstracted; ceilings are constants.

The `MC` modules are the instances. The theorems are in `ShardProofs`,
`PipelineProofs`, `DriveProofs`, `CallsProofs`, `HandoffProofs` (which begins with the
lemmas about the operators of `Bundle` and ends with the merge), `ExpansionProofs`,
`RetirementProofs` and `ChildProofs`. Operators
commented "Faulty variant" belong to no specification: each is a plausible bug in the
definition after it, and `PROJECT.json` pairs it with a property that must catch it.

## The runs

`shard` (two records, four lines): two distinct records are enough for glued,
torn and whole tails after an empty and a non-empty file, and four lines leave
room for a kill, a repair, a failed append and the appends after it. It checks that the
shard stays readable but for one line of a run that goes on after a failed append, that
the resumed view equals the file but for that line, that no reader sees a record
taken back but the one whose own append failed, and the refinement of `RecordLog`.

`pipeline` (two paths, three contents, two formats, two converters of one version,
two rules versions, two disturbances out of edit, kill, damage and fault): one
path to borrow from and one to borrow; two contents with one text and different
sidecars, and one that detects differently. Two disturbances allow an edit inside
a kill's window and a kill after damage; a rules bump is not counted as one. It
checks `RecordSound`, `MirrorMatchesManifest`, `RecordCurrent`, the action property
`SettledIsSkipped` and the liveness property `Converges`.

`expansion` (a root that takes any of seventeen contents or is absent, a neighbour
inside its namespace, nesting one deep, a budget of four, two disturbances out of edit,
kill, failed append, damage and provider refusal): the
contents are chosen so that each control path has one that takes it (see
`MCExpansion`). Two disturbances cover a change of nature, and a kill or a loss in
the run after it. It checks that a completed source's subtree is intact, that dropped descendants are
retired, that no child of a leg or of a container is silently missing, and that no
container is opened inside itself or below the depth cap.

`skips` (four contents that are archives in two versions, nested ones and a plain
file, four disturbances; about two minutes): what a skip takes for complete depends on what
several runs left one over the other, so it needs more disturbances than the control paths
do. Four allow an edit, a cut, a loss and the edit back. It checks that whatever the next run
would skip is complete (`SkipMeansComplete`).

`handoff` (two divisions, two paths, two texts, two rules versions, two runs, one kill,
damage or deletion): the first division is bundled while it is run, the second is
there to merge with. Two paths let a copy take one file before and one after a
rewrite; one mishap and two inputs of a merge are enough for each property, because a
bundle is verified after every step that could hide a second mishap, and the theorems
cover any number of either. It checks that what ships
is one moment of the log with the texts of its records and their sidecars, that a
cut or damaged bundle does not verify, that merge is the exact union, that undamaged
inputs merge, and that a quiet division is refused only for the reasons of `Excused`.

`drive` (one worker, one descendant, one unit of stderr over a cap of zero, two of
memory): each race of the loop needs at most these. It checks that what is accepted
is whole, that the group is gone at the return, that a member over the memory
ceiling is never part of a success, that the kills inside the loop hit their own
group, that every call returns and that the drain threads end.

`calls` (two symmetric callers, two conversions begun, two replacements; about three
minutes): two callers are needed to probe at once or to use a pass of
the other; two replacements to swap a binary away and back, or one engine after
another. It checks that an adapter works only under a jail probed for its class and
build, and that an engine runs only as verified.

`readers` (the bounds per reader in `MCReaders`, 2 to 8 events; two to three minutes):
the alphabets hold each kind of event with the values that take a different path.
Rows, columns, parts and boxes come in at most two or three of a kind, which is
what it takes to move a mark by one, to lose one of two, or to pass a ceiling. It
checks six properties, each of which compares the algorithm with the independent
definition for every source: hidden rows, columns and sheets are marked
(`SheetsMarkHidden`); visible words come once, in order, with the right breaks, in the
right encoding, and nothing known to be missing is silent (`TextIsFaithful`);
every mail part outside the renditions that were not chosen is accounted for
(`MailIsAccounted`); of the carriers and items the parser locates, and the properties
that end, the rows are all there or none is, and so are those of structured data
(`RowsAreComplete`); a transcript comes of all samples the stream yielded, in order
(`TranscriptIsWhole`); a file has one format, a format one
converter or reason per build, and a provider only enumerated roots
(`EveryFileHasOneRoute`).

The other four runs (`glued`, `killed`, `alias`, `rerun`) show findings; each is bounded to
the disturbances its counterexample needs. The other findings need no instance of their own:
TLC meets each on one of the instances above, with the property named there as its
invariant.

Deadlock is not checked: in `Pipeline` and `Expansion` a run can always be started
again, so there is none to find; `Shard`, `Handoff`, `Calls` and `Readers` stop where
their bounds do, and `Drive` when the call has returned (`CallReturns` says that it
does).

## Fairness

`Pipeline`'s `Spec` assumes `WF_vars(Run)`: the run is one sequential process whose
next step is always enabled until it finishes, and an operator runs it again, as
the documentation tells one to do after a kill. Nothing is assumed of edits,
damage, faults, kills or rules bumps, which are bounded and so eventually stop:
`Converges` says that from then on every source comes to rest, not that it does
under edits that never end. 

`Drive` assumes weak fairness of the parent's steps and of the two drain threads (the
scheduler runs them) and of `Die` (a signalled process dies), and strong fairness of
`Deadline`: the loop polls forever, and the clock passes the deadline whatever the
round it is in, so the step is enabled again and again and must happen. The worker
and its descendant owe nothing. `Handoff`'s `QuietDivisionShips` and `RerunShips` are
action properties. The other modules state safety only.

## What is proved

For every set of records and any bound, in `ShardProofs`: `IInv`, and from it `TypeOK`,
`DamageIsOneLine`, `ResumeViewMatchesFile`, `ReaderNeverMisled` and the refinement
`Spec => Log!Spec`. The invariant adds to the properties what a tail can be at each
stage of the writer (`TailInv`): while the file is open it is empty, or what a failed
append of this run left over a file whose lines are all good; during an append it
is empty, torn or the very line being appended, and that line is spoilt only if it began
after such a tail. `LinesInv` says where a spoilt line may lie: behind a run that is over,
or one whose append has failed. A run loads before it opens, and cannot load a spoilt
file, so there is never a second spoilt line. The lemma `RecordsStep` says how a step may
change what a reader would be given; the reader property and the refinement both
rest on it.

For every number of paths, every set of contents, formats and converters, every
routing and every disturbance bound, in `PipelineProofs`: `TypeOK`, `RecordSound`,
`MirrorMatchesManifest`, `RecordCurrent` and `SettledIsSkipped`. The assumptions are
those of `PipelineAssumption`: conversion is a function of converter, rules and
content, and an artifact a conversion returns passes the output gate
(`run_converter`). The properties speak of finished records, so the invariant has
to carry what the run holds between two steps: `CursorInv` (one unrecorded path at
a time, its front read), `WritingInv`, `DroppingInv` and `AppendInv` (the record and
artifact in hand belong to the hashed bytes), `DedupInv` (the index only offers
what the converter makes of the key), `MirrorInv` and `FrontInv` (disk and source
agree with what is in hand unless damaged or edited), `SettledInv` (a settled
source never gets past its checkpoint). There is one lemma per part and one step
per action.

For every cap on stderr and memory, with or without a way out of the group, in
`DriveProofs`: `TypeOK`, `AcceptedIsWhole`, `GroupIsGone`, `BalloonNeverPasses` and the
action property `LoopKillsOwnGroup`. A call is judged after everything it is judged by
has ended, so the invariant follows three lives: `GroupInv` the group's up to the final
kill, `FrameInv` the frame's through the stdout thread (what is read and what is in the
pipe is what was written, and a frame was seen only when nobody was left to write),
`HeavyInv` the measured memory's up to the verdict. The conjunct that memory grows only
under a guard is there for the induction: TLC accepts the rest without it, but a member
that grew unguarded would be a step away from a success.

For any number of threads, conversions and replacements, in `CallsProofs`: `TypeOK`,
`ProbedAsSpawned` and `EnginesRunVerified`. The jail of a spawn was shown by a probe of
another spawn, perhaps of another thread. `CacheInv` says what a digest in the cache
stands for, `JailInv` carries the build of a digest from the probe's layers through the
cache to the adapter, or a doubt when the worker was swapped meanwhile. `EngineInv` says of
what is left of an engine chain that each engine still to run and already verified is as
pinned or was swapped since.

For any number of divisions, sources, runs and mishaps, in `HandoffProofs`: `TypeOK`,
`ShipsOneMoment`, `SidecarShips`, `VerifiedIsPackaged` and the action property
`QuietDivisionShips`. The properties speak of finished bundles, so the invariant follows
the copy. `RunInv`: each source the run has passed has the files its last record names.
`JobInv`: the bytes read are a prefix of the shard, and each file written is made of
them. `BoxInv`: a finished directory is as written or damaged, and an accepted one tells
of one moment. `RaceInv`: of a copy that one run meets, a sidecar is of the bundled record,
or the text has left that record for good, since one run writes a source once.
`QuietInv`: a copy that no run meets has the mirror's files as they are. The central
lemma is that a directory that verifies is the packaged one, which rests on the
checksum lines being sorted by a strict order (`CountingSorts`).

For any number of divisions and inputs and any damage to them, in `HandoffProofs`:
`MergedIsUnion` and `UndamagedMerges`. An input that verified is as it was packaged
(`InputInv`, by `VerifiedIsPackaged`); whatever happens to it then, its checksum file is
spoilt as a whole or the packaged one, so the joined lines are those of the packages
(`OutInv`), and an output that verifies against them holds their files and no others.
Of undamaged inputs the output is known file by file, and `UndamagedVerifies` takes it
through every step of `verify`. This needs that inputs share no division and agree on
the rules, which is what merge checks before it copies (`CheckedInv`).

For any division, any archives in archives and any limits, in `ExpansionProofs`: `TypeOK`,
`SubtreeIntact` and `NoSelfNesting`. What lies below an entry is written in many steps, before the
entry's own record and after it, so the invariant follows each record of the entry's tree:
a record is `Kept` if it stands over its artifact, was damaged since, or is about to be
replaced by the one in hand. `AgendaInv` is the shape of the agenda: under a claim it ends
in the reconciliation and every member is followed by the close of its container; without
one there is a single task. `EmittedInv` keeps what the expansion emitted, `RetireInv` adds
at the reconciliation that everything else is retired, and `RootInv` that the entry's own
record is in hand or due. `VisitedInv` carries the outcome over the entries that follow,
which work in trees apart from what a completed entry owns (`Apart`): this is where the
order of the walk matters, since an entry may lie in the namespace of another one. `Worked`
reduces each of the thirteen tasks to its agenda and the records it covers.
`NoSelfNesting` has an invariant of its own, `NestInv`: each member and unit on the agenda
carries as its chain the contents of exactly the containers that are open around it, and as
its depth their number. So the guard of a container, which sees the chain and the depth of
its own task alone, decides about the whole stack of open ones, also when a nested container
overran the budget and the tasks up to its close were dropped. The assumptions
on the constants are those of `ExpansionAssumption`: distinct names have distinct places in
the byte order, no file is walked twice, and a file is walked before what lies in its
namespace, which is the order of `walk_division`.

For any archives whose members lie apart (`Separate`), in `RetirementProofs`:
`DroppedAreRetired`, the promise of a re-run that no member of an earlier version stays
live as long as no run was cut short (by a kill or a failed append). While an entry is expanded, its tree holds records of earlier versions and of this
one side by side, and neither set alone is sound. The invariant is about their *bond*: the
content that each path will hold live once every open container is closed and what this
expansion did not emit is retired. In the bond each path is owed to the nearest path above
it (`BondFine`), unless that is an entry that reconciles nothing: a plain file that was
borrowed, a leg kept out by a real file, a source that could not be loaded. So the steps
that matter are those that change the bond. `TasksInv` says of each member to come that an
open container holds it and that no earlier task touches its place; `LegInv` that the owner
of a leg to come is on record; `OldFine` that a subtree which this expansion has not touched
was in order before, which is what a skip takes over; `CurStrict` and `VisitedStrict` that
the entry itself, which has nothing above it, accounts for the paths next below it. At the
end a stray would have a nearest path above it, and would be owed to it. `Separate` is
needed: a directory in an archive named like the namespace of a sibling gives the finding
`[alias]`, and a refused duplicate overwrites a live record (below). The `expansion`
instance has it, which `MCExpansion` assumes and TLC evaluates.

Under the same hypothesis, in `ChildProofs`: `ChildrenAreRecorded`, the other half of the
promise, that no child is silently missing as long as no run was cut short. A live image or
document whose leg has something to write has the leg's record; a live container has the
bytes of each member it admits on record. A record is lost in three ways: a reconciliation
retires it because nobody emitted it, a skip does not keep it, or an entry claims its path.

For legs, `Minting` excludes them together. `LegsFine` says of the bond that a source with
such a leg has its child, unless the leg is the next task on the agenda (`Queued`) or a real
file has its place. `OldLegs` is the same of what this expansion has not touched, which a
skip takes over with its children. `KeysInv` says that no claimed path lies below a key still
to be dispatched, so that only an entry of the division can have taken a leg's path when it
is minted. As with retirement, what breaks the naive invariant (every record on file has
its child) is the time between a source's record and its leg, and between a leg and the
reconciliation around it; a kill in the first of them is the third finding.

For members the time in between is longer: a container's members come before its own record,
and the container may yet overrun the budget. `Filling` therefore follows each container that
is live or will be (`Keeps`). `MembersFine` says that each member it admits is `Served`:
either a task to come brings its content and is the first to claim its key (`ToCome`), or it
is on record where neither a task nor a retirement will reach it (`Sure`). `OldMembers` is the
same of what this expansion has not touched, for a skip to take over. `NoLoan`, that no
container is borrowed, keeps a record without members from standing for an archive. A
file of the division at the place of a member, or between it and its container, is one entry
covering another (`Crossed`), and such members are left out, as is the entry at work, whose
members are still to come.

The proofs corrected statements that TLC had accepted on its instance. `SidecarShips` holds
for a copy that at most one run met: two runs that change a source and change it back,
or a kill of each, ship a text with the sidecar of another, and `verify` compares no
sidecar with a record. `QuietDivisionShips` has to excuse a source that a killed run left
half done and that was then deleted. `MergedIsUnion` spoke of all divisions where it meant
those of the inputs. `NoSelfNesting` said that no container is live inside one of the same
bytes, which is false of the code (a finding below): it now speaks of what an expansion
opens and puts in place. The new forms were also checked by TLC with more runs, kills, inputs
and divisions than the `handoff` run has, and with one more level of nesting and a larger
budget than the `expansion` run has.

The sequences these proofs meet are ordered by counting (`SortedBy`) or by a least
index, and a least element of a set of numbers exists by well-foundedness
(`LeastNumber`); no theorem uses an induction over data.

Only model-checked: the liveness properties (`Converges`, `CallReturns`, `DrainsEnd`), which
need fairness and `ENABLED`; the findings; `SkipMeansComplete`, an invariant of which would
have to relate what several runs, each cut short somewhere else, left one over the other
(it needs `Separate` too: of the archives of `[alias]` it is false); and what the
algorithms under `Readers` compute, which for every source would take an induction over
sequences, out of the prover's reach here.

## Findings

Twelve statements of the repository that the code does not keep. In brackets is the run
that shows one, or else the property that states it and the passing run on whose instance TLC
refutes it within seconds.

1. `[glued]` An append that fails in an expansion returns to the owner of the claim, which
   reconciles on the same writer (`pipeline.rs:1068`): its record is glued to the bytes
   that lie there, and from then on no run and no reader can read the shard, although
   `manifest.rs:231` says that a "record never starts on a line that lacks a trailing LF".
2. `[killed]` A kill between a container's record and the reconciliation
   (`pipeline.rs:1064`) loses the reconciliation: the next run skips, and dropped
   members stay live, although it is "Safe to kill and re-run" (`pipeline.rs:1957`).
3. `[LegMinted, expansion]` A kill between a primary record and its leg (`pipeline.rs:1385`)
   leaves a source that skips forever without its child, for which `pipeline.rs:1448` asks a
   failure on the record.
4. `[SkippedAreComplete, skips]` An archive is edited, the run is killed after it wrote members
   of the new version over those of the old one, and the archive changes back: the checkpoint
   (`pipeline.rs:906`) skips it with members of the version in between. Or a member is damaged,
   and an append fails in the re-expansion: the reconciliation (`pipeline.rs:1069`)
   retires members the archive still holds, and the parent's earlier record skips for good.
   `docs/DESIGN.md:53` says that "an intact parent artifact proves the whole expansion finished".
5. `[alias]` A nested container that skips does not claim its members' paths
   (`pipeline.rs:915`): a literal member of the parent at such a path overwrites the
   member, and no collision is recorded.
6. `[rerun]` A source deleted before a rules bump keeps its record of the old rules, so
   the bundle refuses the division and asks for a re-run that changes nothing
   (`bundle.rs:452`).
7. `[SidecarIsOwn, pipeline]` A borrow copies whatever sidecar lies beside the canonical's text;
   only the text is hashed (`pipeline.rs:968`). If the canonical path now holds other
   bytes with the same text, the borrower gets their marks (`docs/DESIGN.md:43`, `:88`).
8. `[QuinesAreRefused, expansion]` The checkpoint of a nested container comes before the guard
   against recursion (`pipeline.rs:833`, `:939`). An archive that holds a quine is expanded and
   then replaced, at its own path, by that quine: the member is unchanged and skips, and stays
   live inside a container of its own bytes, where `docs/DESIGN.md:51` says that such a member
   "is refused ... as `container-recursive`". Nothing is opened twice for it.
9. `[AttachmentsAreLifted, readers]` Attachments inside a rendition that was not chosen are not
   lifted out (`eml.rs:217`); `eml.rs:11` says "Attachments become container members".
10. `[PartsAreCounted, readers]` Parts inside a rendition that was not chosen are not counted
    against the part ceilings (`eml.rs:231`), although `eml.rs:228` says they are.
11. `[NoPartialChild, readers]` A packet cut inside an open property is accepted without that row
    (`image_metadata.rs:696`); the same goes for short or unlocated HEIC items (`:1129`, `:1137`) and
    all but the last `meta` box (`:1055`). `image_metadata.rs:24` says "Fail closed with no
    partial artifact on every malformation".
12. `[TimecodesAreMoments, readers]` Nothing compares the times of a segment with the length of
    the recording (`audio_asr.rs:811`); `docs/DESIGN.md:101` says that "Timestamps let a reviewer
    jump to the moment in the source recording".

The passing properties that these touch are stated up to them:
`DamageIsOneLine`, `ResumeViewMatchesFile` and `ReaderNeverMisled` but for the line, or the
record, of a failed append whose run went on; in `Expansion`,
`DroppedAreRetired` and `ChildrenAreRecorded` while no run was cut short, `SkipMeansComplete`
while none was cut inside a reconciliation or over the live record of another container,
`NoSelfNesting` of what is opened, and `Reconciling` leaves out
borrowed plain files and sources that reconcile by no path at all (symlinks,
sources over the ceiling). No archive of the `expansion` and `skips` runs has a member inside a
sibling's namespace, the subject of `[alias]`; the theorems about `DroppedAreRetired` and
`ChildrenAreRecorded` say so as a hypothesis (`Separate`). `MailIsAccounted` leaves out what
lies below a rendition that was not chosen, `RowsAreComplete` what the collectors pass over,
and `TranscriptIsWhole` bounds the times of a segment by zero and each other alone.

Observed in reading or modelling, and not stated as a run:

- Runs: a skip keeps `dedup_of` although the canonical it names has changed
  (`pipeline.rs:923`); a container replaced by a plain file that is borrowed keeps its old
  members live (`pipeline.rs:1041`); a kill inside the reconciliation may retire the
  members of a nested container and not the container, which a later version then skips
  (`pipeline.rs:1119`); a leg kept out by a real file is not minted once the file is gone,
  and the file is retired and converted again in every run (`pipeline.rs:1374`, `:1108`);
  a member that is too large or cannot be inflated is
  recorded at its own path without a look at the claimed ones (`pipeline.rs:1836`), so where
  an archive has two members at one path and the second is such, its record replaces that of
  the first and the first one's own members stay live below a failure; a member whose inflation fails is not
  charged to the expansion counter although its bytes were inflated (`container.rs:145`).
- Hand-off: the bundle refuses the empty shard of a division without sources
  (`bundle.rs:395`), and one in whose mirror a kill left a temporary file.
- Sandbox: the filter stage of the probe accepts any crash of its worker; a failed
  lookup of the worker sticks to its runner; a worker replaced between its hash and its
  spawn is not noticed (`ProbedAsSpawned` leaves that window out).
- Audio: an unexpected end of file ends the stream, also inside a packet, so a recording
  cut short yields a shortened transcript, and `TranscriptIsWhole` speaks of the packets the
  stream yielded (`Yielded`); a segment without text still makes a line.
- Documents: text of a tight list item is not separated from a block nested in it
  (only ends write separators, `document.rs:111`), so `- a` over an indented `- b` reads `ab`; a text
  of white space alone converts, as the floor of `is_meaningful` guards only PDF recovery
  and OCR.
- Records: a backslash is not escaped, so the two characters `\t` and a tab read
  the same in a dump; rows and columns stay exact.
- Html: a second title is body text.
- Registry: a build without a converter accepts rules in which a later converter claims
  a format that the unbuilt one lists, which the full build refuses as claimed twice
  (`convert/mod.rs:1221`); `RoutesAgree` starts from rules the full build accepts.

## Not modelled, and why

The third-party parsers and engines (zip, xml, html, mime, parquet, avro, sqlite, codecs,
markdown, anydoc, speech and OCR engines) are external; the models take what they
yield. Image OCR (`image_ocr.rs`) runs an engine and orders its spans, and its adapter
refuses every job until an accelerator is enumerated; `Calls` has its chain and not its
spans. The OCR and video adapters of `subprocess.rs` are enabled in no release. The
harness modes of the worker exist for tests. Seatbelt profiles and system call
lists are data, of which `Calls` keeps the rights they add up to. The formatting of
records, reports and listings, path arithmetic, the exclusion rules of the walk, the
normalisation of member names and the command line carry no state and no hazard of the
list. Two concurrent runs on one shard are outside the documented use.

## Plan

1. `SkipMeansComplete` as a theorem, for archives whose members lie apart.
2. An abstract division (each source is pending, recorded or retired) that `Pipeline`
   implements.
3. Two writers on one shard, should the tool come to allow it.
