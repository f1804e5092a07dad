------------------------------- MODULE Bundle -------------------------------
(***************************************************************************)
(* What a bundle directory is and what verify and merge compute from it    *)
(* (src/src/bundle.rs).  A directory is a function from entry names to     *)
(* contents.  A name is <<area, division, path, kind>>, with 0 where a     *)
(* part does not apply; a content is <<tag, value>> and stands for its own *)
(* BLAKE3 hash.  Divisions and paths are ranks in the byte order.          *)
(***************************************************************************)
EXTENDS Naturals, Sequences, FiniteSets, SequencesExt, FiniteSetsExt

CONSTANTS ND, NP,    \* divisions 1..ND, the paths of a division 1..NP
          DivKey,    \* a division name after ASCII case folding
          PathKey,   \* a text path after NFC and ASCII case folding
          None

Division == 1..ND
Path == 1..NP
Covered == {"converted", "dedup", "skipped_unchanged"}
Status == Covered \cup {"failed", "unsupported"}

Descriptor == <<"root", 0, 0, "BUNDLE.json">>
Checksums == <<"root", 0, 0, "checksums.b3">>
Formats == <<"rules", 0, 0, "formats.toml">>
Converters == <<"rules", 0, 0, "converters.toml">>
Shard(d) == <<"manifest", d, 0, "jsonl">>
Subtree(d) == <<"mirror", d, 0, "dir">>
Text(d, p) == <<"mirror", d, p, "txt">>
Segments(d, p) == <<"mirror", d, p, "segments.jsonl">>
Leftover(d) == <<"mirror", d, 0, "tmp">>

\* The files below the root.
FileName == {Formats, Converters} \cup {Shard(d) : d \in Division} \cup {Leftover(d) : d \in Division}
              \cup {Text(d, p) : d \in Division, p \in Path}
              \cup {Segments(d, p) : d \in Division, p \in Path}

\* Their byte order: by area, division and path, a sidecar before its text.
Before(m, n) ==
  \/ <<m[1], n[1]>> \in {<<"manifest", "mirror">>, <<"manifest", "rules">>, <<"mirror", "rules">>}
  \/ /\ m[1] = n[1]
     /\ \/ m[2] < n[2]
        \/ m[2] = n[2] /\ m[3] < n[3]
        \/ /\ m[2] = n[2] /\ m[3] = n[3]
           /\ <<m[4], n[4]>> \in {<<"segments.jsonl", "txt">>, <<"converters.toml", "formats.toml">>}

\* Faulty variant: the last name comes first.
FirstFromEnd(names) == CHOOSE n \in names : \A m \in names \ {n} : Before(m, n)

First(names) == CHOOSE n \in names : \A m \in names \ {n} : Before(n, m)

\* The members of a finite set in a strict order: the k-th one is the one
\* with k - 1 of them before it.
SortedBy(S, op(_, _)) ==
  [k \in 1..Cardinality(S) |-> CHOOSE x \in S : Cardinality({y \in S : op(y, x)}) = k - 1]

Sorted(names) == SortedBy(names, Before)

Bad == <<"bad", "bad">>
Is(tag, c) == c[1] = tag
With(dir, name, c) == [n \in DOMAIN dir \cup {name} |-> IF n = name THEN c ELSE dir[n]]

\* enumerate_files without the two root files: what checksums.b3 lists.
Files(dir) == {n \in DOMAIN dir : n[1] # "root" /\ n[4] # "dir"}

-----------------------------------------------------------------------------
(* Records.  A shard is its records and how its last line ends: "lf", "bare" *)
(* (a whole record without its newline) or "torn".                           *)

EndsWithNewline(shard) == shard.tail = "lf" /\ shard.log # <<>>

\* effective_records: the last record of each path.
Recorded(log) == {log[i].path : i \in DOMAIN log}
LastOf(log, p) == log[Max({i \in DOMAIN log : log[i].path = p})]
Effective(log) == {LastOf(log, p) : p \in Recorded(log)}

\* tally_counts over every line, tally_coverage over effective records only.
Lines(log, s) == Cardinality({i \in DOMAIN log : log[i].status = s})
Counts(log) == [s \in Status |-> Lines(log, s)]
Coverage(log) == [covered |-> Cardinality({r \in Effective(log) : r.status \in Covered}),
                  total |-> Cardinality(Effective(log))]

Bearing(log) == {r \in Effective(log) : r.text # None}

-----------------------------------------------------------------------------
(* checksums.b3 *)

ChecksumLines(dir) ==
  LET names == Sorted(Files(dir))
  IN [i \in DOMAIN names |-> [name |-> names[i], hash |-> dir[names[i]]]]

\* parse_checksum_lines: every path once, in byte order.
WellFormed(lines) ==
  \A i \in DOMAIN lines : i > 1 => Before(lines[i - 1].name, lines[i].name)

-----------------------------------------------------------------------------
(* verify, step by step; a step looks only at what the earlier ones passed *)

Desc(dir) == dir[Descriptor][2]
Divisions(dir) == {Desc(dir).divisions[i] : i \in DOMAIN Desc(dir).divisions}
ShardOf(dir, d) == dir[Shard(d)][2]

\* 1: the descriptor parses; divisions are sorted and distinct when folded.
DescriptorHolds(dir) ==
  /\ Descriptor \in DOMAIN dir /\ Is("descriptor", dir[Descriptor])
  /\ LET divs == Desc(dir).divisions
     IN \A i \in DOMAIN divs : \A j \in DOMAIN divs :
          i < j => divs[i] < divs[j] /\ DivKey[divs[i]] # DivKey[divs[j]]

\* 2: exactly the root files, the shards, the snapshot and one subtree per
\* division.
LayoutHolds(dir) ==
  LET required == {Descriptor, Checksums, Formats, Converters}
                    \cup {Shard(d) : d \in Divisions(dir)}
                    \cup {Subtree(d) : d \in Divisions(dir)}
  IN /\ required \subseteq DOMAIN dir
     /\ \A n \in DOMAIN dir \ required : n[1] = "mirror" /\ n[2] \in Divisions(dir)

\* Faulty variant: the listed names are compared with the tree, the hashes
\* only through the descriptor.
ChainOfNames(dir) ==
  /\ Is("checksums", dir[Checksums])
  /\ LET lines == dir[Checksums][2]
     IN /\ lines = Desc(dir).checksums
        /\ WellFormed(lines)
        /\ {lines[i].name : i \in DOMAIN lines} = Files(dir)

\* 3: the recorded hash, the framing, the listed set equal to the tree, and
\* then every file by name.
ChainHolds(dir) ==
  /\ Is("checksums", dir[Checksums])
  /\ LET lines == dir[Checksums][2]
     IN /\ lines = Desc(dir).checksums
        /\ WellFormed(lines)
        /\ {lines[i].name : i \in DOMAIN lines} = Files(dir)
        /\ \A i \in DOMAIN lines : dir[lines[i].name] = lines[i].hash

\* 4: read_shard_strict.
ShardsParse(dir) == \A d \in Divisions(dir) : Is("shard", dir[Shard(d)]) /\ ShardOf(dir, d).tail = "lf"

\* 5: the snapshot binds to the effective records, every artifact is there
\* with its hash, and every mirror file belongs to an envelope.
SnapshotHolds(dir) == /\ dir[Formats] = dir[Converters] /\ Is("rules", dir[Formats])
                      /\ \A d \in Divisions(dir) : \A r \in Effective(ShardOf(dir, d).log) :
                           r.rules = dir[Formats][2]

\* Faulty variant: an artifact's hash is not compared with its record.
ArtifactsPresent(dir) ==
  \A d \in Divisions(dir) : \A r \in Bearing(ShardOf(dir, d).log) : Text(d, r.path) \in DOMAIN dir

ArtifactsMatch(dir) ==
  \A d \in Divisions(dir) : \A r \in Bearing(ShardOf(dir, d).log) :
    Text(d, r.path) \in DOMAIN dir /\ dir[Text(d, r.path)] = <<"text", r.text>>

\* Faulty variant: the sidecar is not part of the envelope.
ReferencedTexts(dir) ==
  UNION {{Text(d, r.path) : r \in Bearing(ShardOf(dir, d).log)} : d \in Divisions(dir)}

Referenced(dir) ==
  UNION {UNION {{Text(d, r.path), Segments(d, r.path)} : r \in Bearing(ShardOf(dir, d).log)}
           : d \in Divisions(dir)}

NothingUnreferenced(dir) == {n \in Files(dir) : n[1] = "mirror"} \subseteq Referenced(dir)

\* 6: no two text paths fold together.
NoCollision(dir) ==
  \A d \in Divisions(dir) : \A r, s \in Bearing(ShardOf(dir, d).log) :
    r.path # s.path => PathKey[r.path] # PathKey[s.path]

\* 7: the descriptor counts what the shards hold.
CountsAgree(dir) ==
  /\ DOMAIN Desc(dir).counts = Divisions(dir)
  /\ \A d \in Divisions(dir) : /\ Desc(dir).counts[d] = Counts(ShardOf(dir, d).log)
                               /\ Desc(dir).coverage[d] = Coverage(ShardOf(dir, d).log)

Verifies(dir) ==
  /\ DescriptorHolds(dir) /\ LayoutHolds(dir) /\ ChainHolds(dir) /\ ShardsParse(dir)
  /\ SnapshotHolds(dir) /\ ArtifactsMatch(dir) /\ NothingUnreferenced(dir)
  /\ NoCollision(dir) /\ CountsAgree(dir)

-----------------------------------------------------------------------------
(* merge: descs are the descriptors of the inputs as they verified, dirs the *)
(* input directories as they are when merge reads them again                *)

\* Divisions disjoint when folded, and one rules provenance.
Mergeable(descs, dirs) ==
  /\ \A i, j \in DOMAIN descs : i # j =>
       \A d \in ToSet(descs[i].divisions) : \A e \in ToSet(descs[j].divisions) :
         DivKey[d] # DivKey[e]
  /\ \A i \in DOMAIN dirs : \A n \in {Formats, Converters} : dirs[i][n] = dirs[1][n]

\* Every file but the two root ones, the snapshot of the first input only,
\* and the subtree of each division, empty ones included.
Copied(descs, dirs) ==
  LET taken(i) == {n \in Files(dirs[i]) : n[1] = "rules" => i = 1}
      subtrees == {Subtree(d) : d \in UNION {ToSet(descs[i].divisions) : i \in DOMAIN descs}}
      all == UNION {taken(i) : i \in DOMAIN dirs}
      from(n) == CHOOSE i \in DOMAIN dirs : n \in taken(i)
  IN [n \in all \cup subtrees |-> IF n \in subtrees THEN Bad ELSE dirs[from(n)][n]]

LinesOf(dir) == ToSet(dir[Checksums][2])

\* Faulty variant: a line that two inputs share is kept twice.
JoinedTwice(dirs) == SortSeq(FlattenSeq([i \in DOMAIN dirs |-> dirs[i][Checksums][2]]),
                             LAMBDA a, b : Before(a.name, b.name))

\* The lines of several lists, sorted by path, equal lines once.  Lines of one
\* path that differ stand in the order of their hashes in the code, and in
\* that of their lists here: verify refuses a path that comes twice.
SortedLines(lists) ==
  LET list(l) == Min({i \in DOMAIN lists : l \in lists[i]})
  IN SortedBy(UNION {lists[i] : i \in DOMAIN lists},
              LAMBDA a, b : \/ Before(a.name, b.name)
                            \/ a.name = b.name /\ list(a) < list(b))

Joined(dirs) == SortedLines([i \in DOMAIN dirs |-> LinesOf(dirs[i])])

\* Sorted unions, entries carried through unchanged.
JoinedDescriptor(descs, lines) ==
  LET divs == UNION {ToSet(descs[i].divisions) : i \in DOMAIN descs}
      owner(d) == CHOOSE i \in DOMAIN descs : d \in ToSet(descs[i].divisions)
  IN [divisions |-> SortedBy(divs, <),
      runs |-> UNION {descs[i].runs : i \in DOMAIN descs},
      counts |-> [d \in divs |-> descs[owner(d)].counts[d]],
      coverage |-> [d \in divs |-> descs[owner(d)].coverage[d]],
      checksums |-> lines]
=============================================================================
