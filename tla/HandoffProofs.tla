---------------------------- MODULE HandoffProofs ---------------------------
(***************************************************************************)
(* Proofs about Handoff.tla, for any number of divisions, sources, runs    *)
(* and mishaps.  Bundle copies the live mirror while a run rewrites it, so *)
(* what a bundle says is followed through the copy:                        *)
(*   RunInv    where the run stands, and that each source it has passed    *)
(*             has the files its last record names;                        *)
(*   JobInv    the bytes bundle read are a prefix of the shard, and each   *)
(*             file it has written is made from them;                      *)
(*   BoxInv    a finished directory is as bundle wrote it or damaged, and  *)
(*             an accepted one tells of one moment of its division;        *)
(*   RaceInv   for a copy that met one run at most: a sidecar is of the    *)
(*             bundled record, or the text has left that record for good;  *)
(*   QuietInv  a copy that met no run has the mirror's files as they are.  *)
(* Each is preserved by the run, the bundling, the merge and the operator. *)
(* The module begins with the operators of Bundle: the byte order of file  *)
(* names and the sorted lists made from it, the last record of a path, and *)
(* counts.                                                                 *)
(* It ends with the merge: inputs that verify are as they were packaged,   *)
(* whatever becomes of one later spoils its checksum file as a whole or    *)
(* leaves it as packaged, so the joined lines are those of the packages,   *)
(* and a merged bundle verifies against their files and no others.         *)
(***************************************************************************)
EXTENDS Handoff, FiniteSetTheorems, SequenceTheorems, WellFoundedInduction, TLAPS

-----------------------------------------------------------------------------
(* Numbers *)

Less == {pair \in Nat \X Nat : pair[1] < pair[2]}

\* The numbers are well founded under their order.
LEMMA LessIsWellFounded == IsWellFoundedOn(Less, Nat)
BY NatLessThanWellFounded, Zenon DEF OpToRel, Less

\* A set of numbers that is not empty has a least one.
LEMMA LeastNumber ==
  ASSUME NEW S \in SUBSET Nat, S # {}
  PROVE  \E n \in S : \A m \in S : n <= m
<1>1. PICK n \in S : \A m \in S : <<m, n>> \notin Less
  BY LessIsWellFounded, WFMin
<1>2. ASSUME NEW m \in S PROVE n <= m
  <2>1. m \in Nat /\ n \in Nat
    OBVIOUS
  <2>2. m < n => <<m, n>> \in Less
    BY <2>1 DEF Less
  <2> QED BY <1>1, <2>1, <2>2
<1> QED BY <1>2

\* Min of a set of numbers is its least member.
LEMMA MinIsLeast ==
  ASSUME NEW S \in SUBSET Nat, S # {}
  PROVE  Min(S) \in S /\ \A m \in S : Min(S) <= m
<1>1. \E n \in S : \A m \in S : n <= m
  BY LeastNumber
<1> QED BY <1>1 DEF Min

\* Max of a bounded set of numbers is its greatest member.
LEMMA MaxIsGreatest ==
  ASSUME NEW S \in SUBSET Nat, S # {}, NEW b \in Nat, \A n \in S : n <= b
  PROVE  Max(S) \in S /\ \A m \in S : m <= Max(S)
<1> DEFINE T == {b - n : n \in S}
<1>1. T \in SUBSET Nat
  <2>1. ASSUME NEW n \in S PROVE b - n \in Nat
    <3>1. n \in Nat /\ n <= b
      OBVIOUS
    <3> QED BY <3>1
  <2> QED BY <2>1
<1>2. T # {}
  OBVIOUS
<1>3. PICK t \in T : \A u \in T : t <= u
  BY <1>1, <1>2, LeastNumber
<1>4. PICK n \in S : t = b - n
  OBVIOUS
<1>5. \A m \in S : m <= n
  <2> TAKE m \in S
  <2>1. b - n <= b - m
    BY <1>3, <1>4
  <2> QED BY <2>1
<1>6. \E x \in S : \A y \in S : x >= y
  BY <1>5
<1>7. Max(S) \in S /\ \A y \in S : Max(S) >= y
  BY <1>6 DEF Max
<1> QED BY <1>7

-----------------------------------------------------------------------------
(* Sorting by counting, for any strict total order R of a finite set *)

StrictOrder(R, S) ==
  /\ \A x \in S : <<x, x>> \notin R
  /\ \A x, y, z \in S : <<x, y>> \in R /\ <<y, z>> \in R => <<x, z>> \in R
  /\ \A x, y \in S : x = y \/ <<x, y>> \in R \/ <<y, x>> \in R

Below(R, S, x) == {y \in S : <<y, x>> \in R}

\* Fewer members come before a member than before a later one.
LEMMA BelowGrows ==
  ASSUME NEW R, NEW S, IsFiniteSet(S), StrictOrder(R, S), NEW m \in S, NEW n \in S, <<m, n>> \in R
  PROVE  /\ Cardinality(Below(R, S, m)) \in Nat /\ Cardinality(Below(R, S, n)) \in Nat
         /\ Cardinality(Below(R, S, m)) < Cardinality(Below(R, S, n))
<1> DEFINE A == Below(R, S, m)
           B == Below(R, S, n)
<1>1. IsFiniteSet(A) /\ IsFiniteSet(B)
  BY FS_Subset DEF Below
<1>2. A \cup {m} \subseteq B
  BY DEF Below, StrictOrder
<1>3. m \notin A
  BY DEF Below, StrictOrder
<1>4. IsFiniteSet(A \cup {m}) /\ Cardinality(A \cup {m}) = Cardinality(A) + 1
  BY <1>1, <1>3, FS_AddElement
<1>5. Cardinality(A \cup {m}) <= Cardinality(B)
  BY <1>1, <1>2, FS_Subset
<1>6. Cardinality(A) \in Nat /\ Cardinality(B) \in Nat
  BY <1>1, FS_CardinalityType
<1> QED BY <1>4, <1>5, <1>6

\* A set that is not empty has a first member.
LEMMA OneIsFirst ==
  ASSUME NEW R, NEW S, IsFiniteSet(S), StrictOrder(R, S), S # {}
  PROVE  \E x \in S : \A y \in S \ {x} : <<x, y>> \in R
<1> DEFINE Ranks == {Cardinality(Below(R, S, x)) : x \in S}
<1>1. \A x \in S : IsFiniteSet(Below(R, S, x)) /\ Cardinality(Below(R, S, x)) \in Nat
  BY FS_Subset, FS_CardinalityType DEF Below
<1>2. Ranks \in SUBSET Nat /\ Ranks # {}
  BY <1>1
<1>3. PICK c \in Ranks : \A d \in Ranks : c <= d
  BY <1>2, LeastNumber
<1>4. PICK x \in S : c = Cardinality(Below(R, S, x))
  OBVIOUS
<1>5. ASSUME NEW y \in S \ {x} PROVE <<x, y>> \in R
  <2>1. <<y, x>> \notin R
    <3> SUFFICES ASSUME <<y, x>> \in R PROVE FALSE
      OBVIOUS
    <3>1. Cardinality(Below(R, S, y)) < c /\ Cardinality(Below(R, S, y)) \in Nat
      BY <1>4, BelowGrows
    <3>2. c <= Cardinality(Below(R, S, y))
      BY <1>3
    <3> QED BY <1>1, <1>4, <3>1, <3>2
  <2> QED BY <2>1 DEF StrictOrder
<1> QED BY <1>5

\* For every number below that of the members, one has so many before it.
LEMMA RanksAreTaken ==
  ASSUME NEW R, NEW S, IsFiniteSet(S), StrictOrder(R, S)
  PROVE  /\ Cardinality(S) \in Nat
         /\ \A x \in S : Cardinality(Below(R, S, x)) + 1 \in 1..Cardinality(S)
         /\ \A x, y \in S : Cardinality(Below(R, S, x)) = Cardinality(Below(R, S, y)) => x = y
         /\ \A k \in 1..Cardinality(S) : \E x \in S : Cardinality(Below(R, S, x)) = k - 1
<1> DEFINE N == Cardinality(S)
           Count(x) == Cardinality(Below(R, S, x))
           f == [x \in S |-> Count(x) + 1]
<1>1. N \in Nat
  BY FS_CardinalityType
<1>2. \A x \in S : IsFiniteSet(Below(R, S, x)) /\ Count(x) \in Nat
  BY FS_Subset, FS_CardinalityType DEF Below
<1>3. ASSUME NEW x \in S PROVE Count(x) + 1 \in 1..N
  <2>1. x \notin Below(R, S, x)
    BY DEF Below, StrictOrder
  <2>2. Below(R, S, x) \cup {x} \in SUBSET S
    BY DEF Below
  <2>3. Cardinality(Below(R, S, x) \cup {x}) = Count(x) + 1
    BY <1>2, <2>1, FS_AddElement
  <2>4. Count(x) + 1 <= N
    BY <2>2, <2>3, FS_Subset
  <2> QED BY <1>1, <1>2, <2>4
<1>4. ASSUME NEW x \in S, NEW y \in S, Count(x) = Count(y) PROVE x = y
  <2>1. <<x, y>> \notin R /\ <<y, x>> \notin R
    BY <1>2, <1>4, BelowGrows
  <2> QED BY <2>1 DEF StrictOrder
<1>5. f \in Injection(S, 1..N)
  <2>1. f \in [S -> 1..N]
    BY <1>3
  <2>2. \A x, y \in S : f[x] = f[y] => x = y
    BY <1>2, <1>4
  <2> QED BY <2>1, <2>2 DEF Injection, IsInjective
<1>6. IsFiniteSet(1..N) /\ Cardinality(1..N) = N
  BY <1>1, FS_Interval
<1>7. f \in Surjection(S, 1..N)
  BY <1>5, <1>6, FS_Injection
<1>8. ASSUME NEW k \in 1..N PROVE \E x \in S : Count(x) = k - 1
  <2>1. PICK x \in S : f[x] = k
    BY <1>7 DEF Surjection
  <2> QED BY <1>2, <2>1
<1> QED BY <1>1, <1>3, <1>4, <1>8

\* A list whose k-th member is one with k - 1 of the set before it holds every
\* member once, in their order.
LEMMA CountingSorts ==
  ASSUME NEW R, NEW S, IsFiniteSet(S), StrictOrder(R, S), NEW s \in [1..Cardinality(S) -> S],
         \A k \in 1..Cardinality(S) : Cardinality(Below(R, S, s[k])) = k - 1
  PROVE  /\ \A x \in S : \E k \in 1..Cardinality(S) : s[k] = x
         /\ \A j, k \in 1..Cardinality(S) : j < k => <<s[j], s[k]>> \in R
<1> DEFINE N == Cardinality(S)
           Count(x) == Cardinality(Below(R, S, x))
<1>1. N \in Nat /\ \A x \in S : Count(x) + 1 \in 1..N
  BY RanksAreTaken
<1>2. \A x \in S : Count(x) \in Nat
  BY FS_Subset, FS_CardinalityType DEF Below
<1>3. \A x, y \in S : Count(x) = Count(y) => x = y
  BY RanksAreTaken
<1>4. ASSUME NEW x \in S PROVE \E k \in 1..N : s[k] = x
  <2>1. PICK k \in 1..N : k - 1 = Count(x)
    BY <1>1, <1>2
  <2>2. s[k] \in S /\ Count(s[k]) = Count(x)
    BY <2>1
  <2> QED BY <1>3, <2>2
<1>5. ASSUME NEW j \in 1..N, NEW k \in 1..N, j < k PROVE <<s[j], s[k]>> \in R
  <2>1. PICK x \in S, y \in S : x = s[j] /\ y = s[k]
    OBVIOUS
  <2>2. Count(x) = j - 1 /\ Count(y) = k - 1
    BY <2>1
  <2>3. Count(x) < Count(y) /\ x # y
    BY <1>5, <2>2
  <2>4. ASSUME <<y, x>> \in R PROVE FALSE
    <3>1. Count(y) < Count(x)
      BY <2>4, BelowGrows
    <3> QED BY <1>2, <2>3, <3>1
  <2> QED BY <2>1, <2>3, <2>4 DEF StrictOrder
<1> QED BY <1>4, <1>5

-----------------------------------------------------------------------------
(* The byte order of the files of a bundle *)

\* The byte order is strict and total.
LEMMA BeforeIsStrict ==
  ASSUME NEW l \in FileName, NEW m \in FileName, NEW n \in FileName
  PROVE  /\ ~Before(n, n)
         /\ Before(l, m) /\ Before(m, n) => Before(l, n)
         /\ m # n => Before(m, n) \/ Before(n, m)
<1> DEFINE Areas == {"manifest", "mirror", "rules"}
           Kinds == {"jsonl", "tmp", "segments.jsonl", "txt", "converters.toml", "formats.toml"}
<1>1. \A x \in FileName : /\ x = <<x[1], x[2], x[3], x[4]>> /\ x[2] \in Nat /\ x[3] \in Nat
                          /\ \/ x[1] = "manifest" /\ x[3] = 0 /\ x[4] = "jsonl"
                             \/ x[1] = "mirror" /\ x[3] = 0 /\ x[4] = "tmp"
                             \/ x[1] = "mirror" /\ x[3] # 0 /\ x[4] \in {"segments.jsonl", "txt"}
                             \/ /\ x[1] = "rules" /\ x[2] = 0 /\ x[3] = 0
                                /\ x[4] \in {"converters.toml", "formats.toml"}
  BY DEF FileName, Formats, Converters, Shard, Leftover, Text, Segments, Division, Path
<1>2. ~Before(n, n)
  BY <1>1 DEF Before
<1>3. Before(l, m) /\ Before(m, n) => Before(l, n)
  BY <1>1 DEF Before
<1>4. m # n => Before(m, n) \/ Before(n, m)
  BY <1>1 DEF Before
<1> QED BY <1>2, <1>3, <1>4

\* A bundle has finitely many files.
LEMMA FileNamesAreFinite ==
  ASSUME ND \in Nat, NP \in Nat
  PROVE  IsFiniteSet(FileName)
<1> DEFINE P == Division \X Path
           ofShard == [d \in Division |-> Shard(d)]
           leftover == [d \in Division |-> Leftover(d)]
           txt == [x \in P |-> Text(x[1], x[2])]
           side == [x \in P |-> Segments(x[1], x[2])]
           A == {Shard(d) : d \in Division}
           B == {Leftover(d) : d \in Division}
           C == {Text(d, p) : d \in Division, p \in Path}
           D == {Segments(d, p) : d \in Division, p \in Path}
<1>1. IsFiniteSet(Division) /\ IsFiniteSet(Path)
  BY FS_Interval DEF Division, Path
<1>2. IsFiniteSet(P)
  BY <1>1, FS_Product
<1>3. ofShard \in Surjection(Division, A) /\ leftover \in Surjection(Division, B)
  BY DEF Surjection
<1>4. txt \in Surjection(P, C) /\ side \in Surjection(P, D)
  <2>1. txt \in [P -> C] /\ side \in [P -> D]
    OBVIOUS
  <2>2. ASSUME NEW c \in C PROVE \E x \in P : txt[x] = c
    <3>1. PICK d \in Division, p \in Path : c = Text(d, p)
      OBVIOUS
    <3> WITNESS <<d, p>> \in P
    <3> QED BY <3>1
  <2>3. ASSUME NEW c \in D PROVE \E x \in P : side[x] = c
    <3>1. PICK d \in Division, p \in Path : c = Segments(d, p)
      OBVIOUS
    <3> WITNESS <<d, p>> \in P
    <3> QED BY <3>1
  <2> QED BY <2>1, <2>2, <2>3 DEF Surjection
<1>5. IsFiniteSet(A) /\ IsFiniteSet(B) /\ IsFiniteSet(C) /\ IsFiniteSet(D)
  BY <1>1, <1>3, <1>4, <1>2, FS_Surjection
<1>6. IsFiniteSet({Formats, Converters})
  <2>1. {Formats, Converters} = {Formats} \cup {Converters}
    OBVIOUS
  <2>2. IsFiniteSet({Formats}) /\ IsFiniteSet({Converters})
    BY FS_Singleton
  <2> QED BY <2>1, <2>2, FS_Union
<1> HIDE DEF A, B, C, D
<1>7. IsFiniteSet({Formats, Converters} \cup A \cup B \cup C \cup D)
  BY <1>5, <1>6, FS_Union
<1> QED BY <1>7 DEF FileName, A, B, C, D

ByteOrder == {pair \in FileName \X FileName : Before(pair[1], pair[2])}

\* Which orders every set of names.
LEMMA NamesAreOrdered ==
  ASSUME NEW names \in SUBSET FileName
  PROVE  /\ StrictOrder(ByteOrder, names)
         /\ \A m, n \in names : <<m, n>> \in ByteOrder <=> Before(m, n)
<1>1. \A m, n \in names : <<m, n>> \in ByteOrder <=> Before(m, n)
  BY DEF ByteOrder
<1>2. \A l, m, n \in names : /\ ~Before(n, n)
                             /\ Before(l, m) /\ Before(m, n) => Before(l, n)
                             /\ m # n => Before(m, n) \/ Before(n, m)
  BY BeforeIsStrict
<1> QED BY <1>1, <1>2 DEF StrictOrder

\* First is the name before all others.
LEMMA FirstIsFirst ==
  ASSUME NEW names \in SUBSET FileName, IsFiniteSet(names), names # {}
  PROVE  First(names) \in names /\ \A m \in names \ {First(names)} : Before(First(names), m)
<1>1. \E x \in names : \A y \in names \ {x} : Before(x, y)
  BY NamesAreOrdered, OneIsFirst
<1> QED BY <1>1 DEF First

\* Sorted lists every name once, in byte order.
LEMMA SortedLists ==
  ASSUME NEW names \in SUBSET FileName, IsFiniteSet(names)
  PROVE  /\ Sorted(names) \in [1..Cardinality(names) -> names]
         /\ \A n \in names : \E k \in 1..Cardinality(names) : Sorted(names)[k] = n
         /\ \A j, k \in 1..Cardinality(names) : j < k => Before(Sorted(names)[j], Sorted(names)[k])
<1>1. \A n \in names : Below(ByteOrder, names, n) = {m \in names : Before(m, n)}
  BY NamesAreOrdered DEF Below
<1> DEFINE N == Cardinality(names)
           s == Sorted(names)
<1>2. StrictOrder(ByteOrder, names)
  BY NamesAreOrdered
<1>3. ASSUME NEW k \in 1..N PROVE s[k] \in names /\ Cardinality(Below(ByteOrder, names, s[k])) = k - 1
  <2>1. \E n \in names : Cardinality(Below(ByteOrder, names, n)) = k - 1
    BY <1>2, RanksAreTaken
  <2>2. \E n \in names : Cardinality({m \in names : Before(m, n)}) = k - 1
    BY <1>1, <2>1
  <2>3. s[k] = CHOOSE n \in names : Cardinality({m \in names : Before(m, n)}) = k - 1
    BY DEF Sorted, SortedBy
  <2>4. s[k] \in names /\ Cardinality({m \in names : Before(m, s[k])}) = k - 1
    BY <2>2, <2>3
  <2> QED BY <1>1, <2>4
<1>4. s \in [1..N -> names]
  BY <1>3 DEF Sorted, SortedBy
<1> HIDE DEF s
<1>5. /\ \A n \in names : \E k \in 1..N : s[k] = n
      /\ \A j, k \in 1..N : j < k => <<s[j], s[k]>> \in ByteOrder
  BY <1>2, <1>3, <1>4, CountingSorts
<1>6. \A j, k \in 1..N : j < k => Before(s[j], s[k])
  BY <1>4, <1>5, NamesAreOrdered
<1> QED BY <1>4, <1>5, <1>6 DEF s

\* So are numbers, by SortedBy.
LEMMA NumbersSort ==
  ASSUME NEW S \in SUBSET Nat, IsFiniteSet(S)
  PROVE  /\ SortedBy(S, <) \in [1..Cardinality(S) -> S]
         /\ \A n \in S : \E k \in 1..Cardinality(S) : SortedBy(S, <)[k] = n
         /\ \A j, k \in 1..Cardinality(S) : j < k => SortedBy(S, <)[j] < SortedBy(S, <)[k]
<1> DEFINE N == Cardinality(S)
           order == {pair \in S \X S : pair[1] < pair[2]}
           s == SortedBy(S, <)
<1>1. \A m, n \in S : <<m, n>> \in order <=> m < n
  OBVIOUS
<1>2. \A n \in S : Below(order, S, n) = {m \in S : m < n}
  BY <1>1 DEF Below
<1>3. StrictOrder(order, S)
  BY <1>1 DEF StrictOrder
<1> HIDE DEF order
<1>4. \A k \in 1..N : \E n \in S : Cardinality(Below(order, S, n)) = k - 1
  BY <1>3, RanksAreTaken, Zenon
<1>5. ASSUME NEW k \in 1..N PROVE s[k] \in S /\ Cardinality(Below(order, S, s[k])) = k - 1
  <2>1. \E n \in S : Cardinality(Below(order, S, n)) = k - 1
    BY <1>4
  <2>2. \E n \in S : Cardinality({m \in S : m < n}) = k - 1
    BY <1>2, <2>1
  <2>3. s[k] = CHOOSE n \in S : Cardinality({m \in S : m < n}) = k - 1
    BY DEF SortedBy
  <2>4. s[k] \in S /\ Cardinality({m \in S : m < s[k]}) = k - 1
    BY <2>2, <2>3
  <2> QED BY <1>2, <2>4
<1>6. s \in [1..N -> S]
  BY <1>5 DEF SortedBy
<1> HIDE DEF s
<1>7. /\ \A n \in S : \E k \in 1..N : s[k] = n
      /\ \A j, k \in 1..N : j < k => <<s[j], s[k]>> \in order
  BY <1>3, <1>5, <1>6, CountingSorts
<1>8. \A j, k \in 1..N : j < k => s[j] < s[k]
  BY <1>1, <1>6, <1>7
<1> QED BY <1>6, <1>7, <1>8 DEF s

\* And the lines of several lists, if none of them has two lines of one path.
LEMMA LinesSort ==
  ASSUME NEW lists, DOMAIN lists \in SUBSET Nat,
         IsFiniteSet(UNION {lists[i] : i \in DOMAIN lists}),
         \A i \in DOMAIN lists : /\ \A a \in lists[i] : a.name \in FileName
                                 /\ \A a, b \in lists[i] : a.name = b.name => a = b
  PROVE  LET S == UNION {lists[i] : i \in DOMAIN lists}
             s == SortedLines(lists)
         IN /\ s \in [1..Cardinality(S) -> S]
            /\ \A l \in S : \E k \in 1..Cardinality(S) : s[k] = l
            /\ \A j, k \in 1..Cardinality(S) : j < k =>
                 s[j] # s[k] /\ (s[j].name # s[k].name => Before(s[j].name, s[k].name))
<1> DEFINE S == UNION {lists[i] : i \in DOMAIN lists}
           N == Cardinality(S)
           list(l) == Min({i \in DOMAIN lists : l \in lists[i]})
           Precedes(a, b) == Before(a.name, b.name) \/ (a.name = b.name /\ list(a) < list(b))
           order == {pair \in S \X S : Precedes(pair[1], pair[2])}
           s == SortedLines(lists)
<1>1. \A a, b \in S : <<a, b>> \in order <=> Precedes(a, b)
  OBVIOUS
<1>2. ASSUME NEW l \in S PROVE list(l) \in DOMAIN lists /\ l \in lists[list(l)] /\ list(l) \in Nat
  <2>1. {i \in DOMAIN lists : l \in lists[i]} \in SUBSET Nat /\ {i \in DOMAIN lists : l \in lists[i]} # {}
    OBVIOUS
  <2> QED BY <2>1, MinIsLeast
<1> HIDE DEF list
<1>3. \A a, b \in S : a.name = b.name /\ list(a) = list(b) => a = b
  BY <1>2
<1>4. \A x \in S : x.name \in FileName /\ list(x) \in Nat
  BY <1>2
<1>5. StrictOrder(order, S)
  <2>1. \A x \in S : ~Precedes(x, x)
    BY <1>4, BeforeIsStrict
  <2>2. ASSUME NEW x \in S, NEW y \in S, NEW z \in S, Precedes(x, y), Precedes(y, z)
        PROVE  Precedes(x, z)
    <3>1. list(x) < list(y) /\ list(y) < list(z) => list(x) < list(z)
      BY <1>4
    <3>2. Before(x.name, y.name) /\ Before(y.name, z.name) => Before(x.name, z.name)
      BY <1>4, BeforeIsStrict
    <3> QED BY <2>2, <3>1, <3>2
  <2>3. ASSUME NEW x \in S, NEW y \in S, x # y PROVE Precedes(x, y) \/ Precedes(y, x)
    <3>1. CASE x.name = y.name
      <4>1. list(x) # list(y)
        BY <1>3, <2>3, <3>1
      <4>2. list(x) < list(y) \/ list(y) < list(x)
        BY <1>4, <4>1
      <4> QED BY <3>1, <4>2
    <3>2. CASE x.name # y.name
      <4>1. Before(x.name, y.name) \/ Before(y.name, x.name)
        BY <1>4, <3>2, BeforeIsStrict
      <4> QED BY <4>1
    <3> QED BY <3>1, <3>2
  <2> HIDE DEF Precedes, order
  <2> QED BY <1>1, <2>1, <2>2, <2>3 DEF StrictOrder
<1>6. \A l \in S : Below(order, S, l) = {m \in S : Precedes(m, l)}
  <2> HIDE DEF Precedes, order
  <2> QED BY <1>1 DEF Below
<1>7. s = [k \in 1..N |-> CHOOSE l \in S : Cardinality({m \in S : Precedes(m, l)}) = k - 1]
  BY DEF SortedLines, SortedBy, list
<1> HIDE DEF S, order, s, Precedes
<1>8. IsFiniteSet(S)
  BY DEF S
<1>9. \A k \in 1..N : \E l \in S : Cardinality(Below(order, S, l)) = k - 1
  BY <1>5, <1>8, RanksAreTaken, Zenon
<1>10. ASSUME NEW k \in 1..N PROVE s[k] \in S /\ Cardinality(Below(order, S, s[k])) = k - 1
  <2>1. \E l \in S : Cardinality(Below(order, S, l)) = k - 1
    BY <1>9
  <2>2. \E l \in S : Cardinality({m \in S : Precedes(m, l)}) = k - 1
    BY <1>6, <2>1
  <2>3. s[k] = CHOOSE l \in S : Cardinality({m \in S : Precedes(m, l)}) = k - 1
    BY <1>7
  <2>4. s[k] \in S /\ Cardinality({m \in S : Precedes(m, s[k])}) = k - 1
    BY <2>2, <2>3
  <2> QED BY <1>6, <2>4
<1>11. s \in [1..N -> S]
  BY <1>7, <1>10
<1>12. /\ \A l \in S : \E k \in 1..N : s[k] = l
       /\ \A j, k \in 1..N : j < k => <<s[j], s[k]>> \in order
  <2>1. \A k \in 1..N : Cardinality(Below(order, S, s[k])) = k - 1
    BY <1>10
  <2> QED BY <1>5, <1>8, <1>11, <2>1, CountingSorts, Zenon
<1>13. ASSUME NEW j \in 1..N, NEW k \in 1..N, j < k
       PROVE  s[j] # s[k] /\ (s[j].name # s[k].name => Before(s[j].name, s[k].name))
  <2>1. PICK x \in S, y \in S : x = s[j] /\ y = s[k]
    BY <1>11
  <2>2. <<x, y>> \in order
    BY <1>12, <1>13, <2>1
  <2>3. x # y
    BY <1>5, <2>2 DEF StrictOrder
  <2>4. Precedes(x, y)
    BY <1>1, <2>2
  <2> QED BY <2>1, <2>3, <2>4 DEF Precedes
<1> QED BY <1>11, <1>12, <1>13 DEF s, S

-----------------------------------------------------------------------------
(* Records *)

\* The record a path is known by is its last one.
LEMMA LastOfRecorded ==
  ASSUME NEW R, NEW log \in Seq(R), NEW p \in Recorded(log)
  PROVE  \E i \in DOMAIN log : /\ LastOf(log, p) = log[i] /\ log[i].path = p
                               /\ \A j \in DOMAIN log : log[j].path = p => j <= i
<1> DEFINE S == {i \in DOMAIN log : log[i].path = p}
<1>1. DOMAIN log = 1..Len(log) /\ Len(log) \in Nat
  BY LenProperties
<1>2. S \in SUBSET Nat /\ S # {} /\ \A n \in S : n <= Len(log)
  BY <1>1 DEF Recorded
<1>3. Max(S) \in S /\ \A m \in S : m <= Max(S)
  BY <1>1, <1>2, MaxIsGreatest
<1> QED BY <1>3 DEF LastOf

\* The index of the last record is unique.
LEMMA LastOfIs ==
  ASSUME NEW R, NEW log \in Seq(R), NEW i \in DOMAIN log, NEW p, log[i].path = p,
         \A j \in DOMAIN log : log[j].path = p => j <= i
  PROVE  p \in Recorded(log) /\ LastOf(log, p) = log[i]
<1>1. p \in Recorded(log)
  BY DEF Recorded
<1>2. PICK k \in DOMAIN log : /\ LastOf(log, p) = log[k] /\ log[k].path = p
                             /\ \A j \in DOMAIN log : log[j].path = p => j <= k
  BY <1>1, LastOfRecorded
<1>3. DOMAIN log = 1..Len(log) /\ Len(log) \in Nat
  BY LenProperties
<1>4. i = k
  BY <1>2, <1>3
<1> QED BY <1>1, <1>2, <1>4

\* A new record is what its path is known by, and no other path's is touched.
LEMMA LastOfAppend ==
  ASSUME NEW R, NEW log \in Seq(R), NEW r \in R
  PROVE  /\ Recorded(Append(log, r)) = Recorded(log) \cup {r.path}
         /\ LastOf(Append(log, r), r.path) = r
         /\ \A p \in Recorded(log) : p # r.path => LastOf(Append(log, r), p) = LastOf(log, p)
<1> DEFINE new == Append(log, r)
<1>1. /\ new \in Seq(R) /\ Len(log) \in Nat
      /\ DOMAIN new = 1..Len(log) + 1 /\ DOMAIN log = 1..Len(log)
      /\ \A i \in 1..Len(log) : new[i] = log[i]
      /\ new[Len(log) + 1] = r
  BY AppendProperties, LenProperties
<1> HIDE DEF new
<1>2. Recorded(new) = Recorded(log) \cup {r.path}
  <2>1. DOMAIN new = DOMAIN log \cup {Len(log) + 1}
    BY <1>1
  <2> QED BY <1>1, <2>1 DEF Recorded
<1>3. LastOf(new, r.path) = r
  BY <1>1, LastOfIs
<1>4. ASSUME NEW p \in Recorded(log), p # r.path PROVE LastOf(new, p) = LastOf(log, p)
  <2>1. PICK i \in DOMAIN log : /\ LastOf(log, p) = log[i] /\ log[i].path = p
                                /\ \A j \in DOMAIN log : log[j].path = p => j <= i
    BY LastOfRecorded
  <2>2. i \in DOMAIN new /\ new[i].path = p /\ \A j \in DOMAIN new : new[j].path = p => j <= i
    BY <1>1, <1>4, <2>1
  <2>3. LastOf(new, p) = new[i]
    BY <1>1, <2>2, LastOfIs
  <2> QED BY <1>1, <2>1, <2>3
<1> QED BY <1>2, <1>3, <1>4 DEF new

\* An effective record is the last one of its path.
LEMMA EffectiveIsLast ==
  ASSUME NEW R, NEW log \in Seq(R), NEW r \in Effective(log)
  PROVE  r \in R /\ r.path \in Recorded(log) /\ r = LastOf(log, r.path)
<1>1. PICK p \in Recorded(log) : r = LastOf(log, p)
  BY DEF Effective
<1>2. PICK i \in DOMAIN log : LastOf(log, p) = log[i] /\ log[i].path = p
  BY LastOfRecorded
<1>3. log[i] \in R
  BY <1>2, ElementOfSeq, LenProperties
<1> QED BY <1>1, <1>2, <1>3

-----------------------------------------------------------------------------
(* Prefixes *)

\* A prefix agrees with the whole, place by place.
LEMMA PrefixAgrees ==
  ASSUME NEW R, NEW s \in Seq(R), NEW t \in Seq(R)
  PROVE  IsPrefix(s, t) <=> Len(s) <= Len(t) /\ \A i \in 1..Len(s) : s[i] = t[i]
<1>1. Len(s) \in Nat /\ Len(t) \in Nat
  BY LenProperties
<1>2. SubSeq(s, 1, Len(s)) = s
  BY SubSeqFull
<1>3. CASE Len(s) <= Len(t)
  <2>1. /\ SubSeq(t, 1, Len(s)) \in Seq(R) /\ Len(SubSeq(t, 1, Len(s))) = Len(s)
        /\ \A i \in 1..Len(s) : SubSeq(t, 1, Len(s))[i] = t[i]
    BY <1>1, <1>3, SubSeqProperties
  <2>2. s = SubSeq(t, 1, Len(s)) <=> \A i \in 1..Len(s) : s[i] = t[i]
    BY <2>1, SeqEqual
  <2> QED BY <1>2, <1>3, <2>2 DEF IsPrefix
<1>4. CASE ~(Len(s) <= Len(t))
  BY <1>4 DEF IsPrefix
<1> QED BY <1>3, <1>4

\* A log stays a prefix of a log that grows.
LEMMA PrefixOfAppend ==
  ASSUME NEW R, NEW s \in Seq(R), NEW t \in Seq(R), NEW r \in R, IsPrefix(s, t)
  PROVE  IsPrefix(s, Append(t, r))
<1>1. Len(s) <= Len(t) /\ \A i \in 1..Len(s) : s[i] = t[i]
  BY PrefixAgrees
<1>2. /\ Append(t, r) \in Seq(R) /\ Len(Append(t, r)) = Len(t) + 1
      /\ \A i \in 1..Len(t) : Append(t, r)[i] = t[i]
  BY AppendProperties
<1>3. Len(s) \in Nat /\ Len(t) \in Nat
  BY LenProperties
<1>4. Len(s) <= Len(Append(t, r)) /\ \A i \in 1..Len(s) : s[i] = Append(t, r)[i]
  BY <1>1, <1>2, <1>3
<1> QED BY <1>2, <1>4, PrefixAgrees

\* Every log is a prefix of itself.
LEMMA PrefixOfItself ==
  ASSUME NEW R, NEW s \in Seq(R)
  PROVE  IsPrefix(s, s)
BY PrefixAgrees, LenProperties

\* A prefix counts no more lines than the whole.
LEMMA PrefixCountsLess ==
  ASSUME NEW R, NEW s \in Seq(R), NEW t \in Seq(R), IsPrefix(s, t), NEW x
  PROVE  Lines(s, x) \in Nat /\ Lines(t, x) \in Nat /\ Lines(s, x) <= Lines(t, x)
<1> DEFINE S == {i \in DOMAIN s : s[i].status = x}
           T == {i \in DOMAIN t : t[i].status = x}
<1>1. /\ DOMAIN s = 1..Len(s) /\ DOMAIN t = 1..Len(t) /\ Len(s) \in Nat /\ Len(t) \in Nat
      /\ Len(s) <= Len(t) /\ \A i \in 1..Len(s) : s[i] = t[i]
  BY LenProperties, PrefixAgrees
<1>2. S \subseteq T
  BY <1>1
<1>3. IsFiniteSet(DOMAIN t) /\ T \in SUBSET DOMAIN t
  BY <1>1, FS_Interval
<1>4. IsFiniteSet(T)
  BY <1>3, FS_Subset
<1>5. IsFiniteSet(S) /\ Cardinality(S) <= Cardinality(T)
  BY <1>2, <1>4, FS_Subset
<1> QED BY <1>4, <1>5, FS_CardinalityType DEF Lines

-----------------------------------------------------------------------------
(* The types *)

\* The states of a shard.
Bytes == [log : Seq(Record), tail : {"lf", "bare", "torn"}]

RunOf == [div : 0..ND, pc : RunPc, cur : 0..NP, todo : SUBSET Path, rec : Record \cup {None}]
JobOf == [div : 0..ND, pc : BundlePc, bytes : Bytes \cup {None}, log : Seq(Record),
          todo : SUBSET FileName, met : 0..2]

Types ==
  /\ rules \in 1..MaxRules /\ source \in [Division -> SUBSET Path]
  /\ shard \in [Division -> Bytes]
  /\ text \in [Division -> [Path -> TextValue \cup {None}]]
  /\ seg \in [Division -> [Path -> TextValue \cup {None}]]
  /\ tmp \in [Division -> BOOLEAN] /\ fresh \in [Division -> BOOLEAN]
  /\ run \in RunOf /\ runs \in 0..MaxRuns /\ job \in JobOf
  /\ whole \in [Division -> BOOLEAN]
  /\ box = [d \in Division |-> box[d]] /\ lost = [d \in Division |-> lost[d]]
  /\ result \in [Division -> {"none", "ok", "okCrowded", "refused", "refusedQuiet"}]
  /\ merging.pc \in {"idle", "verify", "copy", "descriptor", "own"}
  /\ merged \in {"none", "ok", "refusedInput", "refusedOutput"}
  /\ used \in 0..MaxMishaps

-----------------------------------------------------------------------------
(* The run: what it has done with the source it is at, and that every source *)
(* before that one stands as its record says                                 *)

Busy == {"text", "seg", "dropText", "dropSeg", "append", "torn"}

Settled(d, p) ==
  /\ text[d][p] = Named(shard[d].log, p) /\ seg[d][p] = Named(shard[d].log, p)
  /\ p \in Recorded(shard[d].log) /\ LastOf(shard[d].log, p).rules = rules

AtSource ==
  LET d == run.div
      p == run.cur
  IN /\ run.rec \in Record /\ p = run.rec.path /\ run.rec.rules = rules /\ p \notin run.todo
     /\ run.pc = "seg" => text[d][p] = run.rec.text
     /\ run.pc \in {"dropText", "dropSeg"} => run.rec.text = None
     /\ run.pc = "dropSeg" => text[d][p] = None
     /\ run.pc \in {"append", "torn"} => text[d][p] = run.rec.text /\ seg[d][p] = run.rec.text

RunInv ==
  /\ run.pc = "idle" => run = NoRun
  /\ run.pc # "idle" =>
       /\ run.div \in Division /\ run.todo \subseteq source[run.div] /\ ~fresh[run.div]
       /\ \A p \in source[run.div] \ run.todo : (run.pc \in Busy /\ p = run.cur) \/ Settled(run.div, p)
       /\ run.pc \notin {"torn", "bare"} => shard[run.div].tail = "lf"
  /\ run.pc \in Busy => AtSource
  /\ \A d \in Division : fresh[d] => /\ run.div # d /\ shard[d].tail = "lf"
                                     /\ \A p \in source[d] : Settled(d, p)

-----------------------------------------------------------------------------
(* The bundling under way *)

\* The files that are written after the mirror, at each stage.
Rest(d, pc) ==
  CASE pc = "formats" -> {Shard(d)}
    [] pc = "converters" -> {Shard(d), Formats}
    [] pc = "checksums" -> {Shard(d), Formats, Converters}
    [] pc = "descriptor" -> {Shard(d), Formats, Converters, Checksums}
    [] pc = "verify" -> {Shard(d), Formats, Converters, Checksums, Descriptor}
    [] OTHER -> {}

RestContent(d, n) ==
  CASE n = Shard(d) -> <<"shard", job.bytes>>
    [] n \in {Formats, Converters} -> <<"rules", rules>>
    [] n = Checksums -> <<"checksums", ChecksumLines(box[d])>>
    [] n = Descriptor -> <<"descriptor", DescriptorFor(d, job.bytes, job.log, box[d])>>

Early == {"idle", "parse", "check"}

JobInv ==
  LET d == job.div
  IN /\ job.pc = "idle" => job = NoJob
     /\ job.pc # "idle" =>
          /\ d \in Division /\ job.bytes \in Bytes /\ IsPrefix(job.bytes.log, shard[d].log)
          /\ job.pc # "parse" => IsPrefix(job.bytes.log, job.log)
          /\ ~Accepted(d) /\ lost[d] = Empty
          /\ job.pc \in {"parse", "check"} => box[d] = Empty
          /\ job.pc \notin Early =>
               /\ Subtree(d) \in DOMAIN box[d] /\ box[d][Subtree(d)] = Bad
               /\ DOMAIN box[d] \ (Rest(d, job.pc) \cup {Subtree(d)}) \subseteq {n \in FileName : n[1] = "mirror"}
               /\ \A n \in Rest(d, job.pc) : n \in DOMAIN box[d] /\ box[d][n] = RestContent(d, n)
               /\ \A n \in job.todo : n[1] = "mirror"
          /\ whole[d] <=> job.pc = "verify"
     /\ job.pc # "copy" => job.todo = {}

-----------------------------------------------------------------------------
(* Bundle directories *)

IsDir(dir, d) == /\ DOMAIN dir \subseteq FileName \cup {Descriptor, Checksums, Subtree(d)}
                 /\ dir = [n \in DOMAIN dir |-> dir[n]]

\* The descriptor of a division, with a number in every column.
Shaped(desc, d) ==
  /\ desc = [divisions |-> <<d>>, runs |-> desc.runs, counts |-> desc.counts,
             coverage |-> desc.coverage, checksums |-> desc.checksums]
  /\ desc.counts = [e \in {d} |-> desc.counts[e]]
  /\ desc.counts[d] = [s \in Status |-> desc.counts[d][s]]
  /\ \A s \in Status : desc.counts[d][s] \in Nat

\* What bundle has written to the end.  It counts no less than it carries:
\* the shard was read first.
Sealed(dir, d) ==
  LET bytes == dir[Shard(d)][2]
  IN /\ {Descriptor, Checksums, Shard(d), Subtree(d)} \subseteq DOMAIN dir
     /\ dir[Subtree(d)] = Bad
     /\ dir[Checksums] = <<"checksums", ChecksumLines(dir)>>
     /\ bytes \in Bytes /\ dir[Shard(d)] = <<"shard", bytes>>
     /\ dir[Descriptor] = <<"descriptor", Desc(dir)>> /\ Shaped(Desc(dir), d)
     /\ Desc(dir).checksums = ChecksumLines(dir)
     /\ \A s \in Status : Lines(bytes.log, s) <= Desc(dir).counts[d][s]

\* What damage may make of it: it only ever raises a count.
Recounted(new, desc, d) ==
  /\ Shaped(new, d) /\ new.checksums = desc.checksums
  /\ desc.counts[d]["failed"] <= new.counts[d]["failed"]
  /\ new.counts[d]["failed"] = desc.counts[d]["failed"] => new = desc

Spoilt(dir, packed, d) ==
  /\ DOMAIN dir \subseteq DOMAIN packed \cup {Leftover(d)}
  /\ \A n \in DOMAIN dir :
       \/ n \in DOMAIN packed /\ dir[n] = packed[n]
       \/ dir[n] = Bad /\ n # Subtree(d)
       \/ /\ n = Descriptor /\ dir[n] = <<"descriptor", Desc(dir)>>
          /\ Recounted(Desc(dir), Desc(packed), d)

\* The body of ShipsOneMoment and that of SidecarShips.
Moment(d) ==
  LET log == Packaged(d)[Shard(d)][2].log
  IN /\ IsPrefix(log, shard[d].log)
     /\ Desc(Packaged(d)).counts[d] = Counts(log) /\ Desc(Packaged(d)).coverage[d] = Coverage(log)
     /\ \A r \in Bearing(log) : Packaged(d)[Text(d, r.path)][2] = r.text

Sidecars(d) ==
  \A p \in source[d] : Text(d, p) \in DOMAIN Packaged(d) =>
    /\ Segments(d, p) \in DOMAIN Packaged(d)
    /\ Packaged(d)[Segments(d, p)][2] = Packaged(d)[Text(d, p)][2]

BoxOf(d) ==
  /\ IsDir(box[d], d)
  /\ ~whole[d] => lost[d] = Empty /\ ~Accepted(d) /\ Descriptor \notin DOMAIN box[d]
  /\ whole[d] => IsDir(Packaged(d), d) /\ Sealed(Packaged(d), d) /\ Spoilt(box[d], Packaged(d), d)
  /\ Accepted(d) => Moment(d)
  /\ result[d] = "ok" => Sidecars(d)

BoxInv == \A d \in Division : BoxOf(d)

-----------------------------------------------------------------------------
(* A run that overtakes the copy.  Of a source that stood when bundle began, *)
(* the copy has the sidecar of the bundled record, or the text has left that *)
(* record behind for good: one run writes it at most once.                   *)

Bundled(p) == Named(job.bytes.log, p)

Ahead(d, p) == run.div = d /\ (p \in run.todo \/ (run.pc \in {"text", "dropText"} /\ p = run.cur))

Past(d, p) == text[d][p] # Bundled(p) /\ ~Ahead(d, p)

Carried(d, p) == /\ Segments(d, p) \in DOMAIN box[d]
                 /\ box[d][Segments(d, p)] = <<"segments", Bundled(p)>>

RaceAt(d, p) ==
  /\ job.met = 0 \/ Ahead(d, p) => text[d][p] = Bundled(p) /\ seg[d][p] = Bundled(p)
  /\ text[d][p] = Bundled(p) => seg[d][p] = Bundled(p)
  /\ job.pc \notin Early /\ Bundled(p) # None =>
       /\ Segments(d, p) \in job.todo \/ Carried(d, p) \/ Past(d, p)
       /\ Text(d, p) \in DOMAIN box[d] /\ box[d][Text(d, p)] = <<"text", Bundled(p)>> =>
            Carried(d, p) /\ Segments(d, p) \notin job.todo

RaceInv == job.pc # "idle" /\ job.met < 2 => \A p \in source[job.div] : RaceAt(job.div, p)

\* A copy that no run disturbs has the files of the mirror as they are.
QuietAt(d) ==
  /\ fresh[d] /\ job.bytes = shard[d] /\ shard[d].log # <<>>
  /\ job.pc # "parse" => job.log = shard[d].log
  /\ job.pc \notin Early =>
       /\ job.todo \subseteq MirrorFiles(d)
       /\ DOMAIN box[d] = Rest(d, job.pc) \cup {Subtree(d)} \cup (MirrorFiles(d) \ job.todo)
       /\ \A n \in MirrorFiles(d) \ job.todo : box[d][n] = Content(n)
       /\ Shippable

QuietInv == job.pc # "idle" /\ job.met = 0 => QuietAt(job.div)

IInv == Types /\ RunInv /\ JobInv /\ BoxInv /\ RaceInv /\ QuietInv

-----------------------------------------------------------------------------
(* Types *)

\* A line of the run is a record.
LEMMA LineIsRecord ==
  ASSUME NEW p \in Path, NEW s \in Status, NEW v \in 1..MaxRules, NEW t \in TextValue \cup {None}
  PROVE  Line(p, s, v, t) \in Record
BY DEF Line, Record

\* The record a path is known by is a record of that path.
LEMMA LastIsRecord ==
  ASSUME NEW log \in Seq(Record), NEW p \in Recorded(log)
  PROVE  LastOf(log, p) \in Record /\ LastOf(log, p).path = p
<1>1. PICK i \in DOMAIN log : LastOf(log, p) = log[i] /\ log[i].path = p
  BY LastOfRecorded
<1>2. log[i] \in Record
  BY <1>1, ElementOfSeq, LenProperties
<1> QED BY <1>1, <1>2

\* Only paths of the division are recorded.
LEMMA RecordedPaths ==
  ASSUME NEW log \in Seq(Record)
  PROVE  Recorded(log) \subseteq Path
<1>1. ASSUME NEW p \in Recorded(log) PROVE p \in Path
  BY LastIsRecord DEF Record
<1> QED BY <1>1

\* The three steps of an append, written out.
LEMMA AppendSteps ==
  ASSUME AppendLine
  PROVE  \/ /\ run.pc = "append" /\ run' = [run EXCEPT !.pc = "torn"]
            /\ shard' = [shard EXCEPT ![run.div] = [shard[run.div] EXCEPT !.tail = "torn"]]
         \/ /\ run.pc = "torn" /\ run' = [run EXCEPT !.pc = "bare"]
            /\ shard' = [shard EXCEPT ![run.div] = [log |-> Append(shard[run.div].log, run.rec),
                                                   tail |-> "bare"]]
         \/ /\ run.pc = "bare" /\ run' = [run EXCEPT !.pc = "next", !.cur = 0, !.rec = None]
            /\ shard' = [shard EXCEPT ![run.div] = [shard[run.div] EXCEPT !.tail = "lf"]]
BY DEF AppendLine

\* A run step keeps the types.
LEMMA RunKeepsTypes ==
  ASSUME Types, RunInv, RunStep
  PROVE  Types'
<1>1. ASSUME NEW d \in Division, StartRun(d) PROVE Types'
  <2>1. run' \in RunOf
    <3>1. source[d] \in SUBSET Path /\ d \in 0..ND /\ 0 \in 0..NP
      BY HandoffAssumption DEF Types, Division
    <3>2. run' = [div |-> d, pc |-> "next", cur |-> 0, todo |-> source[d], rec |-> None]
      BY <1>1 DEF StartRun, NoRun
    <3> QED BY <3>1, <3>2 DEF RunOf, RunPc
  <2>2. runs' \in 0..MaxRuns
    BY <1>1, HandoffAssumption DEF Types, StartRun
  <2>3. shard' \in [Division -> Bytes]
    BY <1>1 DEF Types, Bytes, StartRun
  <2>4. job' \in JobOf
    <3>1. job \in JobOf
      BY DEF Types
    <3>2. Min({job.met + 1, 2}) \in 0..2
      <4>1. job.met \in 0..2
        BY <3>1 DEF JobOf
      <4>2. Min({job.met + 1, 2}) \in {job.met + 1, 2} /\ \A m \in {job.met + 1, 2} : Min({job.met + 1, 2}) <= m
        BY <4>1, MinIsLeast
      <4> QED BY <4>1, <4>2
    <3> QED BY <1>1, <3>1, <3>2 DEF JobOf, StartRun
  <2> QED BY <1>1, <2>1, <2>2, <2>3, <2>4 DEF StartRun, Types, merger
<1>2. ASSUME NextSource PROVE Types'
  <2> DEFINE d == run.div
             p == Min(run.todo)
             r == Prior(d, p)
  <2>1. run \in RunOf /\ run.todo \in SUBSET Path /\ run.todo # {} /\ d \in Division
    BY <1>2 DEF NextSource, Types, RunOf, RunInv
  <2>2. p \in Path /\ p \in 0..NP
    <3>1. run.todo \in SUBSET Nat
      BY <2>1 DEF Path
    <3>2. p \in run.todo
      BY <2>1, <3>1, MinIsLeast
    <3> QED BY <2>1, <3>2 DEF Path
  <2>3. shard[d].log \in Seq(Record)
    BY <2>1 DEF Types, Bytes
  <2>4. r # None => r \in Record
    BY <2>3, LastIsRecord DEF Prior
  <2>5. r # None => [r EXCEPT !.status = "skipped_unchanged"] \in Record
    BY <2>4 DEF Record, Status, Covered
  <2>6. rules \in 1..MaxRules
    BY DEF Types
  <2>7. \A t \in TextValue : Line(p, "converted", rules, t) \in Record
    BY <2>2, <2>6, LineIsRecord DEF Status, Covered
  <2>8. Line(p, "failed", rules, None) \in Record
    BY <2>2, <2>6, LineIsRecord DEF Status
  <2>9. run' \in RunOf
    <3>1. ASSUME NEW pc \in RunPc, NEW rec \in Record,
                 run' = [run EXCEPT !.pc = pc, !.cur = p, !.todo = @ \ {p}, !.rec = rec]
          PROVE  run' \in RunOf
      BY <2>1, <2>2, <3>1 DEF RunOf
    <3> HIDE DEF p, d, r
    <3> QED BY <1>2, <2>5, <2>7, <2>8, <3>1 DEF NextSource, RunPc, p, d, r
  <2> QED BY <1>2, <2>9 DEF NextSource, Types, live, bundler, merger
<1>3. ASSUME WriteArtifact \/ RemoveArtifact PROVE Types'
  <2>1. run \in RunOf /\ run.pc # "idle" /\ run.pc \in Busy /\ run.div \in Division
    BY <1>3 DEF WriteArtifact, RemoveArtifact, Effect, Types, RunInv, Busy
  <2>2. run.cur \in Path /\ run.rec \in Record /\ run.rec.text \in TextValue \cup {None}
    BY <2>1 DEF RunInv, AtSource, Record
  <2>3. run' \in RunOf
    BY <1>3, <2>1 DEF WriteArtifact, RemoveArtifact, Effect, RunOf, RunPc
  <2>4. /\ text' \in [Division -> [Path -> TextValue \cup {None}]]
        /\ seg' \in [Division -> [Path -> TextValue \cup {None}]]
    <3>1. ASSUME NEW f \in [Division -> [Path -> TextValue \cup {None}]], NEW v \in TextValue \cup {None}
          PROVE  [f EXCEPT ![run.div] = [f[run.div] EXCEPT ![run.cur] = v]]
                   \in [Division -> [Path -> TextValue \cup {None}]]
      BY <2>1, <2>2
    <3>2. /\ text \in [Division -> [Path -> TextValue \cup {None}]]
          /\ seg \in [Division -> [Path -> TextValue \cup {None}]]
      BY DEF Types
    <3>3. \/ UNCHANGED seg /\ text' = [text EXCEPT ![run.div] = [text[run.div] EXCEPT ![run.cur] = run.rec.text]]
          \/ UNCHANGED text /\ seg' = [seg EXCEPT ![run.div] = [seg[run.div] EXCEPT ![run.cur] = run.rec.text]]
          \/ UNCHANGED seg /\ text' = [text EXCEPT ![run.div] = [text[run.div] EXCEPT ![run.cur] = None]]
          \/ UNCHANGED text /\ seg' = [seg EXCEPT ![run.div] = [seg[run.div] EXCEPT ![run.cur] = None]]
      BY <1>3 DEF WriteArtifact, RemoveArtifact, Effect
    <3> DEFINE F == [Division -> [Path -> TextValue \cup {None}]]
    <3>4. text \in F /\ seg \in F
      BY <3>2
    <3>5. \A f \in F, v \in TextValue \cup {None} :
            [f EXCEPT ![run.div] = [f[run.div] EXCEPT ![run.cur] = v]] \in F
      BY <3>1
    <3> HIDE DEF F
    <3>6. text' \in F /\ seg' \in F
      BY <2>2, <3>3, <3>4, <3>5
    <3> QED BY <3>6 DEF F
  <2> QED BY <1>3, <2>3, <2>4 DEF WriteArtifact, RemoveArtifact, Effect, Types, bundler, merger
<1>4. ASSUME AppendLine PROVE Types'
  <2>1. run \in RunOf /\ run.pc # "idle" /\ run.div \in Division
    BY <1>4, AppendSteps DEF Types, RunInv
  <2>2. run' \in RunOf
    <3>1. None \in Record \cup {None} /\ 0 \in 0..NP
      BY HandoffAssumption
    <3>2. \A pc \in RunPc : /\ [run EXCEPT !.pc = pc] \in RunOf
                            /\ [run EXCEPT !.pc = pc, !.cur = 0, !.rec = None] \in RunOf
      BY <2>1, <3>1 DEF RunOf
    <3> QED BY <1>4, <3>2, AppendSteps DEF RunPc
  <2>3. shard[run.div] \in Bytes /\ shard \in [Division -> Bytes]
    BY <2>1 DEF Types
  <2>4. run.pc = "torn" => Append(shard[run.div].log, run.rec) \in Seq(Record)
    BY <2>3, AppendProperties DEF RunInv, Busy, AtSource, Bytes
  <2>5. shard' \in [Division -> Bytes]
    <3>1. \E s \in Bytes : shard' = [shard EXCEPT ![run.div] = s]
      BY <1>4, <2>3, <2>4, AppendSteps DEF Bytes
    <3> QED BY <2>3, <3>1
  <2> QED BY <1>4, <2>2, <2>5 DEF AppendLine, Types, bundler, merger
<1>5. ASSUME FinishRun PROVE Types'
  <2>1. run' \in RunOf
    BY <1>5, HandoffAssumption DEF FinishRun, NoRun, RunOf, RunPc
  <2> QED BY <1>5, <2>1 DEF FinishRun, Types, live, bundler, merger
<1>6. ASSUME KillRun PROVE Types'
  <2>1. run' \in RunOf
    BY <1>6, HandoffAssumption DEF KillRun, NoRun, RunOf, RunPc
  <2>2. used' \in 0..MaxMishaps
    BY <1>6, HandoffAssumption DEF KillRun, Mishap, Types
  <2> QED BY <1>6, <2>1, <2>2 DEF KillRun, Types, bundler, merger
<1> QED BY <1>1, <1>2, <1>3, <1>4, <1>5, <1>6 DEF RunStep

\* The idle job is a job.
LEMMA NoJobIsJob == NoJob \in JobOf
<1>1. <<>> \in Seq(Record) /\ {} \in SUBSET FileName /\ 0 \in 0..ND
  BY HandoffAssumption, EmptySeq
<1>2. {} \subseteq FileName
  OBVIOUS
<1> HIDE DEF FileName
<1> QED BY <1>1, <1>2 DEF NoJob, JobOf, BundlePc

\* The files of a mirror are files of a bundle.
LEMMA MirrorFilesAreNames ==
  ASSUME NEW d \in Division
  PROVE  MirrorFiles(d) \subseteq FileName
BY DEF MirrorFiles, FileName

\* A step of bundle, of whoever damages one, or between runs keeps the types.
LEMMA BundleKeepsTypes ==
  ASSUME Types, JobInv,
         \/ \E d \in Division : ReadBytes(d) \/ Damage(d) \/ \E p \in Path : Delete(d, p)
         \/ Bump
         \/ ParseShard \/ CheckAndList \/ CopyFile \/ EndCopy \/ WriteRest \/ VerifyOwn \/ KillBundle
  PROVE  Types'
<1> DEFINE Fcn(f) == f = [d \in Division |-> f[d]]
<1>1. /\ job \in JobOf /\ Fcn(box) /\ Fcn(lost) /\ NoJob \in JobOf
      /\ result \in [Division -> {"none", "ok", "okCrowded", "refused", "refusedQuiet"}]
      /\ \A d \in Division : shard[d] \in Bytes
  BY NoJobIsJob DEF Types
<1>2. \A pc \in BundlePc : [job EXCEPT !.pc = pc] \in JobOf
  BY <1>1 DEF JobOf
<1>3. \A d \in Division, v \in {"ok", "okCrowded", "refused", "refusedQuiet"} :
        [result EXCEPT ![d] = v] \in [Division -> {"none", "ok", "okCrowded", "refused", "refusedQuiet"}]
  BY <1>1
<1>4. Mishap("kill") \/ Mishap("damage") \/ Mishap("delete") => used' \in 0..MaxMishaps
  BY HandoffAssumption DEF Mishap, Types
<1>5. job.pc # "idle" => job.div \in Division
  BY DEF JobInv
<1>6. ASSUME job.pc # "idle", Refuse PROVE Types'
  <2>1. result' \in [Division -> {"none", "ok", "okCrowded", "refused", "refusedQuiet"}]
    BY <1>3, <1>5, <1>6 DEF Refuse
  <2> QED BY <1>1, <1>6, <2>1 DEF Refuse, Types, producer, live, merger
<1>7. ASSUME NEW d \in Division, ReadBytes(d) PROVE Types'
  <2>1. job' \in JobOf
    <3>1. d \in 0..ND /\ shard[d] \in Bytes
      BY <1>1, HandoffAssumption DEF Division
    <3>2. ASSUME NEW m \in 0..2
          PROVE  [NoJob EXCEPT !.div = d, !.pc = "parse", !.bytes = shard[d], !.met = m] \in JobOf
      <4>1. "parse" \in BundlePc /\ shard[d] \in Bytes \cup {None}
        BY <3>1 DEF BundlePc
      <4> HIDE DEF NoJob
      <4> QED BY <1>1, <3>1, <4>1 DEF JobOf
    <3>3. (IF fresh[d] THEN 0 ELSE 2) \in 0..2
      OBVIOUS
    <3> QED BY <1>1, <1>7, <3>2, <3>3 DEF ReadBytes
  <2>2. result' \in [Division -> {"none", "ok", "okCrowded", "refused", "refusedQuiet"}]
    BY <1>1, <1>3, <1>7 DEF ReadBytes
  <2> QED BY <1>7, <2>1, <2>2 DEF ReadBytes, Types, producer, live, merger
<1>8. ASSUME NEW d \in Division, Damage(d) PROVE Types'
  <2>1. Fcn(box') /\ Fcn(lost')
    BY <1>1, <1>8 DEF Damage
  <2> QED BY <1>4, <1>8, <2>1 DEF Damage, Types, producer, live, merger
<1>9. ASSUME NEW d \in Division, NEW p \in Path, Delete(d, p) PROVE Types'
  <2>1. source' \in [Division -> SUBSET Path]
    BY <1>9 DEF Delete, Types
  <2> QED BY <1>4, <1>9, <2>1 DEF Delete, Types, live, bundler, merger
<1>10. ASSUME Bump PROVE Types'
  <2>1. rules' \in 1..MaxRules /\ fresh' \in [Division -> BOOLEAN]
    BY <1>10, HandoffAssumption DEF Bump, Types
  <2> QED BY <1>10, <2>1 DEF Bump, Types, live, bundler, merger
<1>11. ASSUME ParseShard PROVE Types'
  <2>1. CASE Refuse
    BY <1>6, <1>11, <2>1 DEF ParseShard
  <2>2. CASE job' = [job EXCEPT !.pc = "check", !.log = shard[job.div].log]
             /\ UNCHANGED <<rules, producer, box, whole, lost, result, merger, used>>
    <3>1. shard[job.div].log \in Seq(Record)
      BY <1>1, <1>5, <1>11 DEF ParseShard, Bytes
    <3>2. job' \in JobOf
      BY <1>1, <2>2, <3>1 DEF JobOf, BundlePc
    <3> QED BY <2>2, <3>2 DEF Types, producer, live, merger
  <2> QED BY <1>11, <2>1, <2>2 DEF ParseShard
<1>12. ASSUME CheckAndList PROVE Types'
  <2>1. CASE Refuse
    BY <1>6, <1>12, <2>1 DEF CheckAndList
  <2>2. CASE ~Refuse
    <3>1. MirrorFiles(job.div) \in SUBSET FileName
      BY <1>5, <1>12, MirrorFilesAreNames DEF CheckAndList
    <3>2. job' \in JobOf
      <4> HIDE DEF FileName
      <4> QED BY <1>1, <1>12, <2>2, <3>1 DEF CheckAndList, JobOf, BundlePc
    <3>3. Fcn(box')
      BY <1>1, <1>12, <2>2 DEF CheckAndList, Write
    <3> QED BY <1>12, <2>2, <3>2, <3>3 DEF CheckAndList, Types, producer, live, merger
  <2> QED BY <2>1, <2>2
<1>13. ASSUME CopyFile PROVE Types'
  <2>1. CASE Refuse
    BY <1>6, <1>13, <2>1 DEF CopyFile
  <2>2. CASE ~Refuse
    <3>1. \A n : job.todo \ {n} \in SUBSET FileName
      BY <1>1 DEF JobOf
    <3>2. job' \in JobOf
      <4> HIDE DEF FileName
      <4> QED BY <1>1, <1>13, <2>2, <3>1 DEF CopyFile, JobOf, BundlePc
    <3>3. Fcn(box')
      BY <1>1, <1>13, <2>2 DEF CopyFile, Write
    <3> QED BY <1>13, <2>2, <3>2, <3>3 DEF CopyFile, Types, producer, live, merger
  <2> QED BY <2>1, <2>2
<1>14. ASSUME EndCopy PROVE Types'
  <2>1. job' \in JobOf
    BY <1>2, <1>14 DEF EndCopy, Step, BundlePc
  <2> QED BY <1>14, <2>1 DEF EndCopy, Step, Types, producer, live, merger
<1>15. ASSUME WriteRest PROVE Types'
  <2>1. \E pc \in BundlePc : job' = [job EXCEPT !.pc = pc]
    BY <1>15 DEF WriteRest, Step, BundlePc
  <2>2. \E n, c : box' = [box EXCEPT ![job.div] = With(box[job.div], n, c)]
    BY <1>15 DEF WriteRest, Write
  <2>3. Fcn(box')
    BY <1>1, <2>2
  <2>4. whole' \in [Division -> BOOLEAN]
    BY <1>15 DEF WriteRest, Types
  <2>5. UNCHANGED <<rules, producer, merger, used, lost, result>>
    BY <1>15 DEF WriteRest, Step
  <2> QED BY <1>2, <2>1, <2>3, <2>4, <2>5 DEF Types, producer, live, merger
<1>16. ASSUME VerifyOwn PROVE Types'
  <2>1. CASE Refuse
    BY <1>6, <1>16, <2>1 DEF VerifyOwn
  <2>2. CASE ~Refuse
    <3>1. job' = NoJob /\ result' = [result EXCEPT ![job.div] = IF job.met < 2 THEN "ok" ELSE "okCrowded"]
          /\ UNCHANGED <<rules, producer, box, whole, lost, merger, used>>
      BY <1>16, <2>2 DEF VerifyOwn
    <3>2. result' \in [Division -> {"none", "ok", "okCrowded", "refused", "refusedQuiet"}]
      BY <1>3, <1>5, <1>16, <3>1 DEF VerifyOwn
    <3> QED BY <1>1, <3>1, <3>2 DEF Types, producer, live, merger
  <2> QED BY <2>1, <2>2
<1>17. ASSUME KillBundle PROVE Types'
  BY <1>1, <1>4, <1>17 DEF KillBundle, Types, producer, live, merger
<1> QED BY <1>7, <1>8, <1>9, <1>10, <1>11, <1>12, <1>13, <1>14, <1>15, <1>16, <1>17

\* A step of merge keeps the types.
LEMMA MergeKeepsTypes ==
  ASSUME Types,
         \/ \E d \in Division : VerifyInput(d)
         \/ StartMerge \/ CheckInputs \/ CopyInputs \/ WriteDescriptor \/ VerifyMerged
  PROVE  /\ Types'
         /\ UNCHANGED <<rules, producer, bundler, used>>
<1> DEFINE Pc == {"idle", "verify", "copy", "descriptor", "own"}
<1>1. \/ \E next \in Pc : \E in : MergeStep(next, in) /\ UNCHANGED merged
      \/ \E why \in {"ok", "refusedInput", "refusedOutput"} : EndMerge(why)
  <2>1. ASSUME NEW d \in Division, VerifyInput(d)
        PROVE  \/ \E next \in Pc : \E in : MergeStep(next, in) /\ UNCHANGED merged
               \/ \E why \in {"ok", "refusedInput", "refusedOutput"} : EndMerge(why)
    BY <2>1 DEF VerifyInput
  <2>2. ASSUME StartMerge
        PROVE  \E next \in Pc : \E in : MergeStep(next, in) /\ UNCHANGED merged
    BY <2>2 DEF StartMerge
  <2>3. ASSUME CheckInputs \/ CopyInputs
        PROVE  \/ \E next \in Pc : \E in : MergeStep(next, in) /\ UNCHANGED merged
               \/ \E why \in {"ok", "refusedInput", "refusedOutput"} : EndMerge(why)
    BY <2>3 DEF CheckInputs, CopyInputs
  <2>4. ASSUME WriteDescriptor
        PROVE  \E next \in Pc : \E in : MergeStep(next, in) /\ UNCHANGED merged
    BY <2>4 DEF WriteDescriptor
  <2>5. ASSUME VerifyMerged
        PROVE  \E why \in {"ok", "refusedInput", "refusedOutput"} : EndMerge(why)
    BY <2>5 DEF VerifyMerged
  <2> QED BY <2>1, <2>2, <2>3, <2>4, <2>5
<1>2. CASE \E next \in Pc : \E in : MergeStep(next, in) /\ UNCHANGED merged
  BY <1>2 DEF MergeStep, Types, producer, live, bundler
<1>3. CASE \E why \in {"ok", "refusedInput", "refusedOutput"} : EndMerge(why)
  BY <1>3 DEF EndMerge, MergeStep, Types, producer, live, bundler
<1> QED BY <1>1, <1>2, <1>3

-----------------------------------------------------------------------------
(* The run *)

\* A new record renames its own path and no other.
LEMMA NamedAppend ==
  ASSUME NEW log \in Seq(Record), NEW r \in Record, NEW p
  PROVE  Named(Append(log, r), p) = IF p = r.path THEN r.text ELSE Named(log, p)
BY LastOfAppend DEF Named

\* What leaves the files and the log of a division alone leaves its sources
\* settled.
LEMMA SettledStays ==
  ASSUME NEW d, NEW p, Settled(d, p), rules' = rules, text'[d][p] = text[d][p],
         seg'[d][p] = seg[d][p], shard'[d].log = shard[d].log
  PROVE  Settled(d, p)'
BY DEF Settled, Named

\* A step of the run keeps what it knows of its sources.
LEMMA RunKeepsRunInv ==
  ASSUME Types, RunInv, RunStep
  PROVE  RunInv'
<1> DEFINE Fresh(d) == fresh[d] => /\ run.div # d /\ shard[d].tail = "lf"
                                   /\ \A p \in source[d] : Settled(d, p)
<1>1. /\ run \in RunOf /\ shard \in [Division -> Bytes] /\ fresh \in [Division -> BOOLEAN]
      /\ \A d \in Division : shard[d].log \in Seq(Record) /\ source[d] \in SUBSET Path
  BY DEF Types, Bytes
<1>2. run.pc # "idle" =>
        /\ run.div \in Division /\ run.todo \subseteq source[run.div] /\ ~fresh[run.div]
        /\ \A p \in source[run.div] \ run.todo : (run.pc \in Busy /\ p = run.cur) \/ Settled(run.div, p)
        /\ run.pc \notin {"torn", "bare"} => shard[run.div].tail = "lf"
  BY DEF RunInv
<1>3. \A d \in Division : Fresh(d)
  BY DEF RunInv
<1>4. run.pc \in Busy => AtSource
  BY DEF RunInv
<1>5. ASSUME NEW d \in Division, StartRun(d) PROVE RunInv'
  <2>1. /\ run' = [NoRun EXCEPT !.div = d, !.pc = "next", !.todo = source[d]]
        /\ shard' = [shard EXCEPT ![d].tail = "lf"] /\ fresh' = [fresh EXCEPT ![d] = FALSE]
        /\ UNCHANGED <<rules, source, text, seg>>
    BY <1>5 DEF StartRun
  <2>2. run'.div = d /\ run'.pc = "next" /\ run'.todo = source[d]
    BY <2>1 DEF NoRun
  <2>3. shard'[d].tail = "lf" /\ ~fresh'[d]
    BY <1>1, <2>1 DEF Bytes
  <2>4. ASSUME NEW e \in Division, fresh'[e]
        PROVE  /\ run'.div # e /\ shard'[e].tail = "lf"
               /\ \A p \in source'[e] : Settled(e, p)'
    <3>1. e # d /\ fresh[e] /\ shard'[e] = shard[e]
      BY <1>1, <2>1, <2>3, <2>4
    <3> QED BY <1>3, <2>1, <2>2, <3>1, SettledStays
  <2>5. run'.pc # "idle" =>
          /\ run'.div \in Division /\ run'.todo \subseteq source'[run'.div] /\ ~fresh'[run'.div]
          /\ source'[run'.div] \ run'.todo = {}
          /\ shard'[run'.div].tail = "lf"
    BY <2>1, <2>2, <2>3
  <2> QED BY <2>2, <2>4, <2>5 DEF RunInv, Busy
<1>6. ASSUME NextSource PROVE RunInv'
  <2> DEFINE d == run.div
             p == Min(run.todo)
             r == Prior(d, p)
  <2>1. d \in Division /\ run.todo # {} /\ run.todo \in SUBSET Path /\ run.pc = "next"
    BY <1>1, <1>2, <1>6 DEF NextSource, RunOf
  <2>2. p \in run.todo /\ p \in Path
    BY <2>1, MinIsLeast DEF Path
  <2>3. UNCHANGED <<rules, source, shard, text, seg, fresh>>
    BY <1>6 DEF NextSource, live
  <2> DEFINE Takes(pc, rec) ==
               /\ run' = [run EXCEPT !.pc = pc, !.cur = p, !.todo = @ \ {p}, !.rec = rec]
               /\ \/ /\ pc = "append" /\ r # None /\ r.rules = rules
                     /\ rec = [r EXCEPT !.status = "skipped_unchanged"]
                     /\ text[d][p] = r.text /\ seg[d][p] = r.text
                  \/ pc = "text" /\ \E t \in TextValue : rec = Line(p, "converted", rules, t)
                  \/ pc = "dropText" /\ rec = Line(p, "failed", rules, None)
  <2>4. PICK pc \in {"append", "text", "dropText"} : \E rec : Takes(pc, rec)
    <3> HIDE DEF d, p
    <3> QED BY <1>6 DEF NextSource, d, p, r
  <2>5. PICK rec : Takes(pc, rec)
    BY <2>4
  <2> HIDE DEF p
  <2>6. rec \in Record /\ rec.path = p /\ rec.rules = rules /\ (pc = "dropText" => rec.text = None)
        /\ (pc = "append" => text[d][p] = rec.text /\ seg[d][p] = rec.text)
    <3>1. rules \in 1..MaxRules
      BY DEF Types
    <3>2. CASE pc = "append"
      <4>1. r \in Record /\ r.path = p
        BY <1>1, <2>1, <2>5, <3>2, LastIsRecord DEF Prior
      <4> QED BY <2>5, <3>2, <4>1 DEF Record, Status, Covered
    <3>3. CASE pc = "text"
      <4>1. PICK t \in TextValue : rec = Line(p, "converted", rules, t)
        BY <2>5, <3>3
      <4>2. rec \in Record
        BY <2>2, <3>1, <4>1, LineIsRecord DEF Status, Covered
      <4> QED BY <3>3, <4>1, <4>2 DEF Line
    <3>4. CASE pc = "dropText"
      <4>1. rec = Line(p, "failed", rules, None)
        BY <2>5, <3>4
      <4>2. rec \in Record
        BY <2>2, <3>1, <4>1, LineIsRecord DEF Status
      <4> QED BY <3>4, <4>1, <4>2 DEF Line
    <3> QED BY <2>5, <3>2, <3>3, <3>4
  <2>7. run'.div = d /\ run'.pc = pc /\ run'.cur = p /\ run'.todo = run.todo \ {p} /\ run'.rec = rec
    BY <1>1, <2>5 DEF RunOf
  <2>8. AtSource'
    BY <2>3, <2>5, <2>6, <2>7 DEF AtSource
  <2>9. \A q \in source'[d] \ run'.todo : q = p \/ Settled(d, q)'
    <3>1. \A q \in source[d] \ run.todo : Settled(d, q)
      BY <1>2, <2>1 DEF Busy
    <3>2. \A q \in source'[d] \ run'.todo : q = p \/ q \in source[d] \ run.todo
      BY <2>3, <2>7
    <3>3. ASSUME NEW q \in source'[d] \ run'.todo, q # p PROVE Settled(d, q)'
      <4>1. Settled(d, q)
        BY <3>1, <3>2, <3>3
      <4> QED BY <2>3, <2>7, <4>1, SettledStays
    <3> QED BY <3>3
  <2>10. \A e \in Division : fresh'[e] => /\ run'.div # e /\ shard'[e].tail = "lf"
                                          /\ \A q \in source'[e] : Settled(e, q)'
    BY <1>3, <2>3, <2>7, SettledStays
  <2>11. /\ run'.todo \subseteq source'[d] /\ ~fresh'[d] /\ shard'[d].tail = "lf"
    BY <1>2, <2>1, <2>3, <2>7
  <2> QED BY <2>1, <2>5, <2>7, <2>8, <2>9, <2>10, <2>11 DEF RunInv, Busy
<1>7. ASSUME WriteArtifact \/ RemoveArtifact PROVE RunInv'
  <2> DEFINE d == run.div
             p == run.cur
  <2>1. run.pc \in Busy /\ d \in Division /\ run.pc # "idle" /\ run.pc \notin {"torn", "bare"}
    BY <1>2, <1>7 DEF WriteArtifact, RemoveArtifact, Effect, Busy
  <2>2. AtSource /\ run.rec \in Record /\ p \in Path
    BY <1>4, <2>1 DEF AtSource, Record
  <2>3. UNCHANGED <<rules, source, shard, fresh>>
    BY <1>7 DEF WriteArtifact, RemoveArtifact, Effect
  <2>4. /\ text \in [Division -> [Path -> TextValue \cup {None}]]
        /\ seg \in [Division -> [Path -> TextValue \cup {None}]]
    BY DEF Types
  <2>5. \/ /\ run.pc = "text" /\ run' = [run EXCEPT !.pc = "seg"] /\ UNCHANGED seg
           /\ text' = [text EXCEPT ![d][p] = run.rec.text]
        \/ /\ run.pc = "seg" /\ run' = [run EXCEPT !.pc = "append"] /\ UNCHANGED text
           /\ seg' = [seg EXCEPT ![d][p] = run.rec.text]
        \/ /\ run.pc = "dropText" /\ run' = [run EXCEPT !.pc = "dropSeg"] /\ UNCHANGED seg
           /\ text' = [text EXCEPT ![d][p] = None]
        \/ /\ run.pc = "dropSeg" /\ run' = [run EXCEPT !.pc = "append"] /\ UNCHANGED text
           /\ seg' = [seg EXCEPT ![d][p] = None]
    BY <1>7 DEF WriteArtifact, RemoveArtifact, Effect
  <2>6. /\ run'.div = d /\ run'.cur = p /\ run'.todo = run.todo /\ run'.rec = run.rec
        /\ run'.pc \in {"seg", "append", "dropSeg"}
    BY <1>1, <2>5 DEF RunOf
  <2>7. AtSource'
    BY <1>1, <2>1, <2>2, <2>3, <2>4, <2>5, <2>6 DEF AtSource, RunOf
  <2>8. \A e \in Division, q \in Path : <<e, q>> # <<d, p>> =>
          text'[e][q] = text[e][q] /\ seg'[e][q] = seg[e][q]
    BY <2>1, <2>2, <2>4, <2>5
  <2>9. \A q \in source'[d] \ run'.todo : q = p \/ Settled(d, q)'
    <3>1. \A q \in source[d] \ run.todo : q = p \/ Settled(d, q)
      BY <1>2, <2>1
    <3> QED BY <1>1, <2>1, <2>3, <2>6, <2>8, <3>1, SettledStays
  <2>10. \A e \in Division : fresh'[e] => /\ run'.div # e /\ shard'[e].tail = "lf"
                                          /\ \A q \in source'[e] : Settled(e, q)'
    BY <1>1, <1>3, <2>3, <2>6, <2>8, SettledStays
  <2>11. run'.todo \subseteq source'[d] /\ ~fresh'[d] /\ shard'[d].tail = "lf"
    BY <1>2, <2>1, <2>3, <2>6
  <2> QED BY <2>1, <2>6, <2>7, <2>9, <2>10, <2>11 DEF RunInv, Busy
<1>8. ASSUME AppendLine PROVE RunInv'
  <2> DEFINE d == run.div
             p == run.cur
  <2>1. d \in Division /\ run.pc \in {"append", "torn", "bare"} /\ run.pc # "idle"
    BY <1>2, <1>8, AppendSteps
  <2>2. UNCHANGED <<rules, source, text, seg, fresh>>
    BY <1>8 DEF AppendLine
  <2>3. shard[d] \in Bytes /\ shard[d].log \in Seq(Record)
    BY <1>1, <2>1
  <2>4. \A e \in Division : e # d => shard'[e] = shard[e]
    BY <1>1, <1>8, AppendSteps
  <2>5. run'.div = d /\ run'.todo = run.todo /\ run'.pc \in {"torn", "bare", "next"}
    BY <1>1, <1>8, AppendSteps DEF RunOf
  <2>6. \A e \in Division : fresh'[e] => /\ run'.div # e /\ shard'[e].tail = "lf"
                                        /\ \A q \in source'[e] : Settled(e, q)'
    BY <1>2, <1>3, <2>1, <2>2, <2>4, <2>5, SettledStays
  <2>7. run'.todo \subseteq source'[d] /\ ~fresh'[d]
    BY <1>2, <2>1, <2>2, <2>5
  <2>8. CASE run.pc = "append"
    <3>1. run'.pc = "torn" /\ run'.cur = p /\ run'.rec = run.rec /\ shard'[d].log = shard[d].log
      BY <1>1, <1>8, <2>1, <2>3, <2>8, AppendSteps DEF RunOf, Bytes
    <3>2. AtSource'
      BY <1>4, <2>2, <2>5, <2>8, <3>1 DEF AtSource, Busy
    <3>3. \A q \in source'[d] \ run'.todo : q = p \/ Settled(d, q)'
      BY <1>2, <2>1, <2>2, <2>5, <3>1, SettledStays
    <3> QED BY <2>1, <2>5, <2>6, <2>7, <3>1, <3>2, <3>3 DEF RunInv, Busy
  <2>9. CASE run.pc = "torn"
    <3>1. run'.pc = "bare" /\ run'.cur = p /\ shard'[d].log = Append(shard[d].log, run.rec)
      BY <1>1, <1>8, <2>1, <2>9, AppendSteps DEF RunOf
    <3>2. AtSource /\ run.rec \in Record /\ run.rec.path = p /\ run.rec.rules = rules
      BY <1>4, <2>9 DEF AtSource, Busy
    <3>3. \A q : Named(shard'[d].log, q) = IF q = p THEN run.rec.text ELSE Named(shard[d].log, q)
      BY <2>3, <3>1, <3>2, NamedAppend
    <3>4. \A q \in Recorded(shard[d].log) \cup {p} :
            /\ q \in Recorded(shard'[d].log)
            /\ LastOf(shard'[d].log, q) = IF q = p THEN run.rec ELSE LastOf(shard[d].log, q)
      BY <2>3, <3>1, <3>2, LastOfAppend
    <3>5. \A q \in source'[d] \ run'.todo : Settled(d, q)'
      <4>1. Settled(d, p)'
        BY <2>2, <2>5, <2>9, <3>1, <3>2, <3>3, <3>4 DEF AtSource, Settled
      <4>2. ASSUME NEW q \in source[d] \ run.todo, q # p PROVE Settled(d, q)'
        <5>1. Settled(d, q)
          BY <1>2, <2>1, <4>2
        <5> QED BY <2>2, <2>5, <3>3, <3>4, <4>2, <5>1 DEF Settled
      <4> QED BY <2>2, <2>5, <3>1, <4>1, <4>2
    <3> QED BY <2>1, <2>5, <2>6, <2>7, <3>1, <3>5 DEF RunInv, Busy
  <2>10. CASE run.pc = "bare"
    <3>1. /\ run' = [run EXCEPT !.pc = "next", !.cur = 0, !.rec = None]
          /\ shard' = [shard EXCEPT ![d] = [shard[d] EXCEPT !.tail = "lf"]]
      BY <1>8, <2>10, AppendSteps
    <3>2. run'.pc = "next" /\ shard'[d].log = shard[d].log /\ shard'[d].tail = "lf"
      BY <1>1, <2>1, <2>3, <3>1 DEF RunOf, Bytes
    <3>3. \A q \in source'[d] \ run'.todo : Settled(d, q)'
      BY <1>2, <2>1, <2>2, <2>5, <2>10, <3>2, SettledStays DEF Busy
    <3> QED BY <2>1, <2>5, <2>6, <2>7, <3>2, <3>3 DEF RunInv, Busy
  <2> QED BY <2>1, <2>8, <2>9, <2>10
<1>9. ASSUME FinishRun PROVE RunInv'
  <2> DEFINE d == run.div
  <2>1. run.pc = "next" /\ run.todo = {} /\ d \in Division
    BY <1>2, <1>9 DEF FinishRun
  <2>2. run' = NoRun /\ fresh' = [fresh EXCEPT ![d] = TRUE] /\ UNCHANGED <<rules, source, shard, text, seg>>
    BY <1>9 DEF FinishRun, live
  <2>3. run'.div = 0 /\ run'.pc = "idle" /\ 0 \notin Division
    BY <2>2 DEF NoRun, Division
  <2>4. \A p \in source[d] : Settled(d, p)
    BY <1>2, <2>1 DEF Busy
  <2>5. shard[d].tail = "lf"
    BY <1>2, <2>1
  <2>6. \A e \in Division : fresh'[e] => /\ run'.div # e /\ shard'[e].tail = "lf"
                                         /\ \A q \in source'[e] : Settled(e, q)'
    BY <1>1, <1>3, <2>2, <2>3, <2>4, <2>5, SettledStays
  <2> QED BY <2>2, <2>3, <2>6 DEF RunInv, Busy
<1>10. ASSUME KillRun PROVE RunInv'
  <2>1. run' = NoRun /\ UNCHANGED <<rules, source, shard, text, seg, fresh>>
    BY <1>10 DEF KillRun
  <2>2. run'.div = 0 /\ run'.pc = "idle" /\ 0 \notin Division
    BY <2>1 DEF NoRun, Division
  <2>3. \A e \in Division : fresh'[e] => /\ run'.div # e /\ shard'[e].tail = "lf"
                                        /\ \A q \in source'[e] : Settled(e, q)'
    BY <1>3, <2>1, <2>2, SettledStays
  <2> QED BY <2>1, <2>2, <2>3 DEF RunInv, Busy
<1> QED BY <1>5, <1>6, <1>7, <1>8, <1>9, <1>10 DEF RunStep

\* A step that the run takes no part in leaves what it knows alone.
LEMMA RunInvStays ==
  ASSUME RunInv, UNCHANGED <<rules, producer>>
  PROVE  RunInv'
BY DEF RunInv, AtSource, Settled, Named, producer, live

\* Nor does a deletion or a new version of the rules disturb a run: there is
\* none, and a division is settled only for the sources it still has.
LEMMA BetweenRuns ==
  ASSUME Types, RunInv, Bump \/ \E d \in Division, p \in Path : Delete(d, p)
  PROVE  RunInv'
<1>1. run = NoRun /\ run' = NoRun /\ run.pc = "idle" /\ run.div = 0 /\ 0 \notin Division
  BY DEF Bump, Delete, RunInv, NoRun, Division
<1>2. CASE Bump
  <2>1. \A d \in Division : ~fresh'[d]
    BY <1>2 DEF Bump
  <2> QED BY <1>1, <2>1 DEF RunInv, NoRun, Busy
<1>3. ASSUME NEW d \in Division, NEW p \in Path, Delete(d, p) PROVE RunInv'
  <2>1. /\ UNCHANGED <<rules, shard, text, seg, fresh>>
        /\ \A e \in Division : source'[e] \subseteq source[e]
    BY <1>3 DEF Delete, live, Types
  <2>2. \A e \in Division : fresh'[e] => /\ run'.div # e /\ shard'[e].tail = "lf"
                                         /\ \A q \in source'[e] : Settled(e, q)'
    <3>1. \A e \in Division : fresh[e] => shard[e].tail = "lf" /\ \A q \in source[e] : Settled(e, q)
      BY DEF RunInv
    <3> QED BY <1>1, <2>1, <3>1, SettledStays
  <2> QED BY <1>1, <2>2 DEF RunInv, Busy, NoRun
<1> QED BY <1>2, <1>3

-----------------------------------------------------------------------------
(* The log only grows, and the bundling is not disturbed *)

\* What was a prefix of a log still is one after a step of the run.
LEMMA LogsGrow ==
  ASSUME Types, RunInv, RunStep
  PROVE  \A d \in Division, s \in Seq(Record) : IsPrefix(s, shard[d].log) => IsPrefix(s, shard'[d].log)
<1>1. shard \in [Division -> Bytes] /\ \A d \in Division : shard[d].log \in Seq(Record)
  BY DEF Types, Bytes
<1>2. ASSUME NEW d \in Division, StartRun(d) PROVE \A e \in Division : shard'[e].log = shard[e].log
  <2>1. shard' = [shard EXCEPT ![d] = [shard[d] EXCEPT !.tail = "lf"]]
    BY <1>2 DEF StartRun
  <2> QED BY <1>1, <2>1 DEF Bytes
<1>3. ASSUME AppendLine, NEW d \in Division, NEW s \in Seq(Record), IsPrefix(s, shard[d].log)
      PROVE  IsPrefix(s, shard'[d].log)
  <2>1. run.div \in Division
    BY <1>3, AppendSteps DEF RunInv
  <2>2. \/ shard'[d].log = shard[d].log
        \/ run.rec \in Record /\ shard'[d].log = Append(shard[d].log, run.rec)
    <3>1. run.pc = "torn" => run.rec \in Record
      BY DEF RunInv, AtSource, Busy
    <3>2. CASE d # run.div
      BY <1>1, <1>3, <3>2, AppendSteps
    <3>3. CASE d = run.div
      BY <1>1, <1>3, <2>1, <3>1, <3>3, AppendSteps DEF Bytes
    <3> QED BY <3>2, <3>3
  <2> QED BY <1>1, <1>3, <2>2, PrefixOfAppend
<1>4. NextSource \/ WriteArtifact \/ RemoveArtifact \/ FinishRun \/ KillRun => UNCHANGED shard
  BY DEF NextSource, WriteArtifact, RemoveArtifact, Effect, FinishRun, KillRun, live
<1> QED BY <1>2, <1>3, <1>4 DEF RunStep

\* A run step leaves the bundles alone, and of the job touches only `met`.
LEMMA RunLeavesBundles ==
  ASSUME RunStep
  PROVE  /\ UNCHANGED <<rules, source, box, whole, lost, result>>
         /\ \/ UNCHANGED job
            \/ \E m : job' = [job EXCEPT !.met = m] /\ job.div \in Division
BY DEF RunStep, StartRun, NextSource, WriteArtifact, RemoveArtifact, Effect, AppendLine, FinishRun,
       KillRun, bundler

\* A run does not disturb a bundling.
LEMMA RunKeepsJobInv ==
  ASSUME Types, RunInv, JobInv, RunStep
  PROVE  JobInv'
<1> DEFINE d == job.div
<1>1. UNCHANGED <<rules, source, box, whole, lost, result>>
  BY RunLeavesBundles
<1>2. /\ job'.div = d /\ job'.pc = job.pc /\ job'.bytes = job.bytes /\ job'.log = job.log
      /\ job'.todo = job.todo /\ (job.pc = "idle" => job' = job)
  <2>1. job \in JobOf
    BY DEF Types
  <2>2. job.pc = "idle" => job.div \notin Division
    BY DEF JobInv, NoJob, Division
  <2> QED BY <2>1, <2>2, RunLeavesBundles DEF JobOf
<1>3. job.pc # "idle" => d \in Division /\ job.bytes \in Bytes /\ IsPrefix(job.bytes.log, shard'[d].log)
  <2>1. job.pc # "idle" => d \in Division /\ job.bytes \in Bytes /\ IsPrefix(job.bytes.log, shard[d].log)
    BY DEF JobInv
  <2> QED BY <2>1, LogsGrow DEF Bytes
<1>4. \A n : RestContent(d, n)' = RestContent(d, n)
  BY <1>1, <1>2 DEF RestContent
<1>5. Accepted(d)' = Accepted(d)
  BY <1>1, <1>2 DEF Accepted
<1> QED BY <1>1, <1>2, <1>3, <1>4, <1>5 DEF JobInv

\* Nor the bundles that were written.
LEMMA RunKeepsBoxInv ==
  ASSUME Types, RunInv, BoxInv, RunStep
  PROVE  BoxInv'
<1>1. UNCHANGED <<rules, source, box, whole, lost, result>>
  BY RunLeavesBundles
<1>2. ASSUME NEW d \in Division, Moment(d), Accepted(d) PROVE Moment(d)'
  <2> DEFINE log == Packaged(d)[Shard(d)][2].log
  <2>1. Packaged(d)' = Packaged(d)
    BY <1>1 DEF Packaged
  <2>2. whole[d]
    BY <1>2 DEF BoxInv, BoxOf
  <2>3. Packaged(d)[Shard(d)][2] \in Bytes
    BY <2>2 DEF BoxInv, BoxOf, Sealed
  <2>4. log \in Seq(Record)
    BY <2>3 DEF Bytes
  <2>5. IsPrefix(log, shard'[d].log)
    BY <1>2, <2>4, LogsGrow DEF Moment
  <2> QED BY <1>2, <2>1, <2>5 DEF Moment
<1>3. ASSUME NEW d \in Division
      PROVE  /\ Packaged(d)' = Packaged(d) /\ Accepted(d)' = Accepted(d) /\ Sidecars(d)' = Sidecars(d)
  BY <1>1 DEF Packaged, Accepted, Sidecars
<1> QED BY <1>1, <1>2, <1>3 DEF BoxInv, BoxOf

-----------------------------------------------------------------------------
(* Directories *)

\* Writing a file changes that file only.
LEMMA WithWrites ==
  ASSUME NEW dir, NEW n, NEW c
  PROVE  /\ DOMAIN With(dir, n, c) = DOMAIN dir \cup {n}
         /\ With(dir, n, c)[n] = c
         /\ \A m \in DOMAIN dir : m # n => With(dir, n, c)[m] = dir[m]
         /\ With(dir, n, c) = [m \in DOMAIN With(dir, n, c) |-> With(dir, n, c)[m]]
BY DEF With

\* The files of a bundle outside its mirror, and the subtree, have names of
\* their own.
LEMMA NamesDiffer ==
  ASSUME NEW d \in Division
  PROVE  /\ Shard(d)[1] = "manifest" /\ Formats[1] = "rules" /\ Converters[1] = "rules"
         /\ Checksums[1] = "root" /\ Descriptor[1] = "root" /\ Subtree(d)[1] = "mirror"
         /\ Shard(d)[4] # "dir" /\ Formats[4] # "dir" /\ Converters[4] # "dir"
         /\ Checksums[4] # "dir" /\ Descriptor[4] # "dir" /\ Subtree(d)[4] = "dir"
         /\ Formats # Converters /\ Checksums # Descriptor
         /\ {Shard(d), Formats, Converters} \subseteq FileName
BY DEF Shard, Formats, Converters, Checksums, Descriptor, Subtree, FileName

\* A file of a bundle is neither at its root nor a directory.
LEMMA FileNamesAreFiles ==
  ASSUME NEW n \in FileName
  PROVE  n[1] \in {"manifest", "mirror", "rules"} /\ n[4] # "dir"
BY DEF FileName, Shard, Formats, Converters, Leftover, Text, Segments

\* A copied file lies in the mirror.
LEMMA MirrorFilesAreThere ==
  ASSUME NEW d \in Division, NEW n \in MirrorFiles(d)
  PROVE  n[1] = "mirror" /\ n \in FileName
<1>1. n \in FileName
  BY MirrorFilesAreNames
<1> QED BY <1>1 DEF MirrorFiles, Text, Segments, Leftover

\* The files of a directory are those of its names that are no directory and
\* not at the root.
LEMMA FilesOfDir ==
  ASSUME NEW dir, NEW d \in Division, IsDir(dir, d)
  PROVE  Files(dir) = DOMAIN dir \cap FileName /\ IsFiniteSet(Files(dir))
<1>1. Files(dir) = DOMAIN dir \cap FileName
  BY NamesDiffer, FileNamesAreFiles DEF Files, IsDir
<1>2. IsFiniteSet(FileName)
  BY HandoffAssumption, FileNamesAreFinite
<1>3. Files(dir) \in SUBSET FileName
  BY <1>1
<1> QED BY <1>1, <1>2, <1>3, FS_Subset

\* The lines of checksums.b3 are those of the files, each once, in their
\* order, each with its content.
LEMMA ChecksumLinesList ==
  ASSUME NEW dir, NEW d \in Division, IsDir(dir, d)
  PROVE  LET lines == ChecksumLines(dir)
         IN /\ DOMAIN lines = 1..Cardinality(Files(dir)) /\ Cardinality(Files(dir)) \in Nat
            /\ \A i \in DOMAIN lines : /\ lines[i].name \in Files(dir)
                                       /\ lines[i].hash = dir[lines[i].name]
            /\ \A n \in Files(dir) : \E i \in DOMAIN lines : lines[i].name = n
            /\ WellFormed(lines)
<1> DEFINE names == Sorted(Files(dir))
           N == Cardinality(Files(dir))
           lines == ChecksumLines(dir)
<1>1. IsFiniteSet(Files(dir)) /\ Files(dir) \in SUBSET FileName
  BY FilesOfDir
<1>2. /\ names \in [1..N -> Files(dir)]
      /\ \A n \in Files(dir) : \E k \in 1..N : names[k] = n
      /\ \A j, k \in 1..N : j < k => Before(names[j], names[k])
  BY <1>1, SortedLists
<1>3. N \in Nat
  BY <1>1, FS_CardinalityType
<1>4. lines = [i \in 1..N |-> [name |-> names[i], hash |-> dir[names[i]]]]
  BY <1>2 DEF ChecksumLines
<1>5. WellFormed(lines)
  BY <1>2, <1>3, <1>4 DEF WellFormed
<1> QED BY <1>2, <1>3, <1>4, <1>5

\* They depend on nothing else in the directory.
LEMMA ChecksumsOfFiles ==
  ASSUME NEW a, NEW b, NEW d \in Division, IsDir(a, d), Files(a) = Files(b),
         \A n \in Files(a) : a[n] = b[n]
  PROVE  ChecksumLines(a) = ChecksumLines(b)
<1> DEFINE names == Sorted(Files(a))
<1>1. names \in [1..Cardinality(Files(a)) -> Files(a)]
  BY FilesOfDir, SortedLists
<1> QED BY <1>1 DEF ChecksumLines

-----------------------------------------------------------------------------
(* bundle, step by step *)

\* The directory being written keeps its shape.
LEMMA WritesStayInside ==
  ASSUME NEW dir, NEW d \in Division, IsDir(dir, d), NEW c,
         NEW n \in FileName \cup {Descriptor, Checksums, Subtree(d)}
  PROVE  IsDir(With(dir, n, c), d)
<1> DEFINE new == With(dir, n, c)
<1>1. DOMAIN new = DOMAIN dir \cup {n} /\ new = [m \in DOMAIN new |-> new[m]]
  BY DEF With
<1> HIDE DEF FileName, new
<1>2. DOMAIN new \subseteq FileName \cup {Descriptor, Checksums, Subtree(d)}
  BY <1>1 DEF IsDir
<1>3. IsDir(new, d)
  BY <1>1, <1>2 DEF IsDir
<1> QED BY <1>3 DEF new

\* A step that ends the bundling leaves nothing to hold.
LEMMA RefuseEnds ==
  ASSUME Refuse
  PROVE  JobInv'
BY DEF Refuse, JobInv, NoJob, Early

\* The start, the two reads, and the checks.
LEMMA ReadsKeepJobInv ==
  ASSUME Types, JobInv, BoxInv, ParseShard \/ CheckAndList \/ EndCopy \/ \E d \in Division : ReadBytes(d)
  PROVE  JobInv'
<1> DEFINE b == job.div
<1>1. job \in JobOf /\ \A d \in Division : shard[d] \in Bytes /\ shard[d].log \in Seq(Record)
  BY DEF Types, Bytes
<1>2. ASSUME NEW d \in Division, ReadBytes(d) PROVE JobInv'
  <2>1. CASE job' = NoJob
    BY <2>1 DEF JobInv, NoJob, Early
  <2>2. CASE job' # NoJob
    <3>1. /\ job' = [NoJob EXCEPT !.div = d, !.pc = "parse", !.bytes = shard[d],
                                  !.met = IF fresh[d] THEN 0 ELSE 2]
          /\ UNCHANGED result
      BY <1>2, <2>2 DEF ReadBytes
    <3>2. job'.div = d /\ job'.pc = "parse" /\ job'.bytes = shard[d] /\ job'.todo = {}
      BY <3>1 DEF NoJob
    <3>3. box[d] = Empty /\ ~whole[d] /\ UNCHANGED <<shard, box, whole, lost>>
      BY <1>2 DEF ReadBytes, Concerned, producer, live
    <3>4. ~Accepted(d) /\ lost[d] = Empty
      BY <3>3 DEF BoxInv, BoxOf
    <3>5. IsPrefix(shard[d].log, shard[d].log)
      BY <1>1, PrefixOfItself
    <3>6. Accepted(d)' = Accepted(d) /\ Accepted(job.div)' = Accepted(d)'
      BY <3>1, <3>2, <3>3 DEF Accepted
    <3> QED BY <1>1, <3>2, <3>3, <3>4, <3>5, <3>6 DEF JobInv, Early
  <2> QED BY <2>1, <2>2
<1>3. ASSUME ParseShard, ~Refuse PROVE JobInv'
  <2>1. /\ job.pc = "parse" /\ job' = [job EXCEPT !.pc = "check", !.log = shard[b].log]
        /\ UNCHANGED <<shard, box, whole, lost, result>>
    BY <1>3 DEF ParseShard, producer, live
  <2>2. /\ job'.div = b /\ job'.pc = "check" /\ job'.log = shard[b].log /\ job'.bytes = job.bytes
        /\ job'.todo = job.todo
    BY <1>1, <2>1 DEF JobOf
  <2>3. Accepted(b)' = Accepted(b)
    BY <2>1, <2>2 DEF Accepted
  <2> QED BY <2>1, <2>2, <2>3 DEF JobInv, Early
<1>4. ASSUME CheckAndList, ~Refuse PROVE JobInv'
  <2>1. /\ job.pc = "check" /\ job' = [job EXCEPT !.pc = "copy", !.todo = MirrorFiles(b)]
        /\ box' = [box EXCEPT ![b] = With(box[b], Subtree(b), Bad)]
        /\ UNCHANGED <<shard, whole, lost, result>>
    BY <1>4 DEF CheckAndList, Write, producer, live
  <2>2. /\ job'.div = b /\ job'.pc = "copy" /\ job'.log = job.log /\ job'.bytes = job.bytes
        /\ job'.todo = MirrorFiles(b)
    BY <1>1, <2>1 DEF JobOf
  <2>3. /\ b \in Division /\ box[b] = Empty /\ ~whole[b] /\ ~Accepted(b) /\ lost[b] = Empty
        /\ job.bytes \in Bytes /\ IsPrefix(job.bytes.log, shard[b].log) /\ IsPrefix(job.bytes.log, job.log)
    BY <2>1 DEF JobInv
  <2>4. box'[b] = With(Empty, Subtree(b), Bad)
    BY <2>1, <2>3 DEF Types
  <2>5. DOMAIN box'[b] = {Subtree(b)} /\ box'[b][Subtree(b)] = Bad
    <3>1. DOMAIN Empty = {}
      BY DEF Empty
    <3>2. DOMAIN With(Empty, Subtree(b), Bad) = DOMAIN Empty \cup {Subtree(b)}
          /\ With(Empty, Subtree(b), Bad)[Subtree(b)] = Bad
      BY DEF With
    <3> QED BY <2>4, <3>1, <3>2
  <2>6. Accepted(b)' = Accepted(b)
    BY <2>1, <2>2 DEF Accepted
  <2>7. \A n \in MirrorFiles(b) : n[1] = "mirror"
    BY <2>3, MirrorFilesAreThere
  <2>8. Rest(b, "copy") = {}
    BY DEF Rest
  <2> QED BY <2>1, <2>2, <2>3, <2>5, <2>6, <2>7, <2>8 DEF JobInv, Early
<1>5. ASSUME EndCopy PROVE JobInv'
  <2>1. /\ job.pc = "copy" /\ job.todo = {} /\ job' = [job EXCEPT !.pc = "shard"]
        /\ UNCHANGED <<shard, box, whole, lost, result, rules>>
    BY <1>5 DEF EndCopy, Step, producer, live
  <2>2. /\ job'.div = b /\ job'.pc = "shard" /\ job'.log = job.log /\ job'.bytes = job.bytes
        /\ job'.todo = {}
    BY <1>1, <2>1 DEF JobOf
  <2>3. Accepted(b)' = Accepted(b)
    BY <2>1, <2>2 DEF Accepted
  <2>4. Rest(b, "copy") = {} /\ Rest(b, "shard") = {}
    BY DEF Rest
  <2> QED BY <2>1, <2>2, <2>3, <2>4 DEF JobInv, Early
<1>6. ParseShard /\ Refuse => JobInv'
  BY RefuseEnds
<1>7. CheckAndList /\ Refuse => JobInv'
  BY RefuseEnds
<1> QED BY <1>2, <1>3, <1>4, <1>5, <1>6, <1>7

\* What lies at the root is not listed in checksums.b3.
LEMMA RootIsUnlisted ==
  ASSUME NEW dir, NEW d \in Division, IsDir(dir, d), NEW n, n[1] = "root", NEW c
  PROVE  ChecksumLines(With(dir, n, c)) = ChecksumLines(dir)
<1> DEFINE new == With(dir, n, c)
<1>1. DOMAIN new = DOMAIN dir \cup {n} /\ \A m \in DOMAIN dir : m # n => new[m] = dir[m]
  BY DEF With
<1> HIDE DEF new
<1>2. Files(dir) = Files(new) /\ \A m \in Files(dir) : dir[m] = new[m]
  BY <1>1 DEF Files
<1>3. ChecksumLines(dir) = ChecksumLines(new)
  BY <1>2, ChecksumsOfFiles
<1> QED BY <1>3 DEF new

\* One of the files that follow the mirror.
LEMMA PutKeepsJobInv ==
  ASSUME Types, JobInv, BoxInv,
         NEW next \in BundlePc, next \notin Early \cup {"copy"}, job.pc \notin Early \cup {"copy"},
         NEW name \in {Shard(job.div), Formats, Converters, Checksums, Descriptor},
         Rest(job.div, next) = Rest(job.div, job.pc) \cup {name},
         name[1] = "root" \/ Checksums \notin Rest(job.div, job.pc),
         Descriptor \notin Rest(job.div, job.pc),
         Write(name, RestContent(job.div, name)), Step(next), UNCHANGED <<lost, result>>,
         whole'[job.div] <=> next = "verify"
  PROVE  JobInv'
<1> DEFINE b == job.div
           c == RestContent(b, name)
<1>1. job \in JobOf /\ \A d \in Division : shard[d] \in Bytes /\ shard[d].log \in Seq(Record)
  BY DEF Types, Bytes
<1>2. /\ job' = [job EXCEPT !.pc = next] /\ UNCHANGED <<shard, lost, result, rules>>
      /\ box' = [box EXCEPT ![b] = With(box[b], name, c)]
  BY DEF Step, Write, producer, live
<1>3. /\ job'.div = b /\ job'.pc = next /\ job'.log = job.log /\ job'.bytes = job.bytes
      /\ job'.todo = job.todo
  BY <1>1, <1>2 DEF JobOf
<1>4. Accepted(b)' = Accepted(b)
  BY <1>2, <1>3 DEF Accepted
<1>5. /\ b \in Division /\ job.bytes \in Bytes /\ IsPrefix(job.bytes.log, shard[b].log)
      /\ IsPrefix(job.bytes.log, job.log) /\ ~Accepted(b) /\ lost[b] = Empty /\ job.todo = {}
      /\ Subtree(b) \in DOMAIN box[b] /\ box[b][Subtree(b)] = Bad
      /\ DOMAIN box[b] \ (Rest(b, job.pc) \cup {Subtree(b)}) \subseteq {n \in FileName : n[1] = "mirror"}
      /\ \A n \in Rest(b, job.pc) : n \in DOMAIN box[b] /\ box[b][n] = RestContent(b, n)
  BY DEF JobInv, Early
<1> HIDE DEF c
<1>6. box'[b] = With(box[b], name, c)
  BY <1>2, <1>5 DEF Types
<1>7. /\ DOMAIN box'[b] = DOMAIN box[b] \cup {name} /\ box'[b][name] = c
      /\ \A m \in DOMAIN box[b] : m # name => box'[b][m] = box[b][m]
  BY <1>6 DEF With
<1>8. name # Subtree(b)
  BY <1>5, NamesDiffer
<1>9. name[1] = "root" => ChecksumLines(box'[b]) = ChecksumLines(box[b])
  <2>1. IsDir(box[b], b)
    BY <1>5 DEF BoxInv, BoxOf
  <2> QED BY <1>5, <1>6, <2>1, RootIsUnlisted
<1>10. \A n \in {Shard(b), Formats, Converters} : RestContent(b, n)' = RestContent(b, n)
  BY <1>2, <1>3, <1>5, NamesDiffer DEF RestContent
<1>11. /\ RestContent(b, Checksums) = <<"checksums", ChecksumLines(box[b])>>
       /\ RestContent(b, Checksums)' = <<"checksums", ChecksumLines(box'[b])>>
       /\ RestContent(b, Descriptor) = <<"descriptor", DescriptorFor(b, job.bytes, job.log, box[b])>>
       /\ RestContent(b, Descriptor)' = <<"descriptor", DescriptorFor(b, job.bytes, job.log, box'[b])>>
  BY <1>3, <1>5, NamesDiffer DEF RestContent
<1>12. name[1] = "root" => \A n \in {Checksums, Descriptor} : RestContent(b, n)' = RestContent(b, n)
  BY <1>9, <1>11 DEF DescriptorFor
<1>13. /\ name \in {Shard(b), Formats, Converters} => name[1] # "root"
       /\ Rest(b, job.pc) \subseteq {Shard(b), Formats, Converters, Checksums, Descriptor}
  BY <1>5, NamesDiffer DEF Rest
<1>14. ASSUME NEW n \in Rest(b, next) PROVE n \in DOMAIN box'[b] /\ box'[b][n] = RestContent(b, n)'
  <2>1. CASE n = name
    <3>1. RestContent(b, name)' = c
      BY <1>5, <1>10, <1>12, NamesDiffer DEF c
    <3> QED BY <1>7, <2>1, <3>1
  <2>2. CASE n # name
    <3>1. n \in Rest(b, job.pc)
      BY <2>2
    <3>2. box'[b][n] = RestContent(b, n) /\ n \in DOMAIN box'[b]
      BY <1>5, <1>7, <2>2, <3>1
    <3>3. RestContent(b, n)' = RestContent(b, n)
      BY <1>10, <1>12, <1>13, <3>1
    <3> QED BY <3>2, <3>3
  <2> QED BY <2>1, <2>2
<1>15. /\ DOMAIN box'[b] \ (Rest(b, next) \cup {Subtree(b)}) \subseteq {n \in FileName : n[1] = "mirror"}
       /\ Subtree(b) \in DOMAIN box'[b] /\ box'[b][Subtree(b)] = Bad
  BY <1>5, <1>7, <1>8
<1> HIDE DEF FileName
<1>16. \A n : RestContent(job.div, n)' = RestContent(b, n)'
  BY <1>3 DEF RestContent
<1> QED BY <1>2, <1>3, <1>4, <1>5, <1>14, <1>15, <1>16 DEF JobInv, Early

\* The five files that follow the mirror, spelled out.
LEMMA RestSteps ==
  ASSUME WriteRest, job.div \in Division
  PROVE  \E next \in BundlePc, name \in {Shard(job.div), Formats, Converters, Checksums, Descriptor} :
           /\ next \notin Early \cup {"copy"} /\ job.pc \notin Early \cup {"copy"}
           /\ Rest(job.div, next) = Rest(job.div, job.pc) \cup {name}
           /\ name[1] = "root" \/ Checksums \notin Rest(job.div, job.pc)
           /\ name \notin Rest(job.div, job.pc)
           /\ Descriptor \notin Rest(job.div, job.pc)
           /\ Write(name, RestContent(job.div, name)) /\ Step(next) /\ UNCHANGED <<lost, result>>
           /\ whole' = IF next = "verify" THEN [whole EXCEPT ![job.div] = TRUE] ELSE whole
           /\ next = "verify" <=> name = Descriptor
<1> DEFINE b == job.div
           Goal(next, name) ==
             /\ next \in BundlePc
             /\ next \notin Early \cup {"copy"} /\ job.pc \notin Early \cup {"copy"}
             /\ Rest(b, next) = Rest(b, job.pc) \cup {name}
             /\ name[1] = "root" \/ Checksums \notin Rest(b, job.pc)
             /\ name \notin Rest(b, job.pc)
             /\ Descriptor \notin Rest(b, job.pc)
             /\ Write(name, RestContent(b, name)) /\ Step(next) /\ UNCHANGED <<lost, result>>
             /\ whole' = IF next = "verify" THEN [whole EXCEPT ![b] = TRUE] ELSE whole
             /\ next = "verify" <=> name = Descriptor
<1>1. /\ Rest(b, "shard") = {} /\ Rest(b, "formats") = {Shard(b)}
      /\ Rest(b, "converters") = {Shard(b), Formats}
      /\ Rest(b, "checksums") = {Shard(b), Formats, Converters}
      /\ Rest(b, "descriptor") = {Shard(b), Formats, Converters, Checksums}
      /\ Rest(b, "verify") = {Shard(b), Formats, Converters, Checksums, Descriptor}
  BY DEF Rest
<1>2. /\ RestContent(b, Shard(b)) = <<"shard", job.bytes>>
      /\ RestContent(b, Formats) = <<"rules", rules>> /\ RestContent(b, Converters) = <<"rules", rules>>
      /\ RestContent(b, Checksums) = <<"checksums", ChecksumLines(box[b])>>
      /\ RestContent(b, Descriptor) = <<"descriptor", DescriptorFor(b, job.bytes, job.log, box[b])>>
  BY NamesDiffer DEF RestContent
<1>3. /\ Checksums \notin {Shard(b), Formats, Converters} /\ Descriptor \notin {Shard(b), Formats, Converters}
      /\ Checksums # Descriptor /\ Checksums[1] = "root" /\ Descriptor[1] = "root"
      /\ Shard(b) \notin {Formats, Converters} /\ Formats # Converters
  BY NamesDiffer
<1>4. /\ {"formats", "converters", "checksums", "descriptor", "verify"} \subseteq BundlePc
      /\ {"shard", "formats", "converters", "checksums", "descriptor", "verify"} \cap (Early \cup {"copy"}) = {}
  BY DEF BundlePc, Early
<1>5. \/ /\ job.pc = "shard" /\ Write(Shard(b), <<"shard", job.bytes>>) /\ Step("formats")
         /\ UNCHANGED <<lost, result, whole>>
      \/ /\ job.pc = "formats" /\ Write(Formats, <<"rules", rules>>) /\ Step("converters")
         /\ UNCHANGED <<lost, result, whole>>
      \/ /\ job.pc = "converters" /\ Write(Converters, <<"rules", rules>>) /\ Step("checksums")
         /\ UNCHANGED <<lost, result, whole>>
      \/ /\ job.pc = "checksums" /\ Write(Checksums, <<"checksums", ChecksumLines(box[b])>>)
         /\ Step("descriptor") /\ UNCHANGED <<lost, result, whole>>
      \/ /\ job.pc = "descriptor" /\ Step("verify") /\ UNCHANGED <<lost, result>>
         /\ Write(Descriptor, <<"descriptor", DescriptorFor(b, job.bytes, job.log, box[b])>>)
         /\ whole' = [whole EXCEPT ![b] = TRUE]
  BY DEF WriteRest, DescriptorOf
<1> HIDE DEF b
<1>6. \/ Goal("formats", Shard(b)) \/ Goal("converters", Formats) \/ Goal("checksums", Converters)
      \/ Goal("descriptor", Checksums) \/ Goal("verify", Descriptor)
  BY <1>1, <1>2, <1>3, <1>4, <1>5
<1> HIDE DEF Goal
<1>7. \E next, name : name \in {Shard(b), Formats, Converters, Checksums, Descriptor} /\ Goal(next, name)
  BY <1>6
<1> QED BY <1>7, Zenon DEF Goal, b

\* Every step but the run's keeps what the bundling under way holds to.
LEMMA BundleKeepsJobInv ==
  ASSUME Types, JobInv, BoxInv,
         \/ \E d \in Division : ReadBytes(d) \/ Damage(d) \/ \E p \in Path : Delete(d, p)
         \/ Bump
         \/ ParseShard \/ CheckAndList \/ CopyFile \/ EndCopy \/ WriteRest \/ VerifyOwn \/ KillBundle
  PROVE  JobInv'
<1> DEFINE b == job.div
<1>1. job \in JobOf
  BY DEF Types
<1>2. ASSUME job' = NoJob PROVE JobInv'
  BY <1>2 DEF JobInv, NoJob
<1>3. ASSUME job.pc = "idle", UNCHANGED job PROVE JobInv'
  BY <1>3 DEF JobInv, NoJob
<1>4. ASSUME CopyFile, ~Refuse PROVE JobInv'
  <2> DEFINE name == First(job.todo)
             c == Content(name)
  <2>1. /\ job.pc = "copy" /\ name \in MirrorFiles(b) /\ job' = [job EXCEPT !.todo = @ \ {name}]
        /\ box' = [box EXCEPT ![b] = With(box[b], name, c)]
        /\ UNCHANGED <<shard, lost, result, whole>>
    BY <1>4 DEF CopyFile, Write, producer, live
  <2> HIDE DEF name, c
  <2>2. /\ job'.div = b /\ job'.pc = "copy" /\ job'.log = job.log /\ job'.bytes = job.bytes
        /\ job'.todo \subseteq job.todo
    BY <1>1, <2>1 DEF JobOf
  <2>3. /\ b \in Division /\ job.bytes \in Bytes /\ IsPrefix(job.bytes.log, shard[b].log)
        /\ IsPrefix(job.bytes.log, job.log) /\ ~Accepted(b) /\ lost[b] = Empty
        /\ Subtree(b) \in DOMAIN box[b] /\ box[b][Subtree(b)] = Bad
        /\ DOMAIN box[b] \ (Rest(b, job.pc) \cup {Subtree(b)})
             \subseteq {n \in FileName : n[1] = "mirror"}
        /\ ~whole[b] /\ \A n \in job.todo : n[1] = "mirror"
    BY <2>1 DEF JobInv, Early
  <2>4. box'[b] = With(box[b], name, c)
    BY <2>1, <2>3 DEF Types
  <2>5. /\ DOMAIN box'[b] = DOMAIN box[b] \cup {name}
        /\ \A m \in DOMAIN box[b] : m # name => box'[b][m] = box[b][m]
    BY <2>4 DEF With
  <2>6. name[1] = "mirror" /\ name \in FileName /\ name # Subtree(b)
    <3>1. name[1] = "mirror" /\ name \in FileName
      BY <2>1, <2>3, MirrorFilesAreThere
    <3> QED BY <2>3, <3>1, NamesDiffer, FileNamesAreFiles
  <2>7. Rest(b, "copy") = {}
    BY DEF Rest
  <2>8. Accepted(b)' = Accepted(b)
    BY <2>1, <2>2 DEF Accepted
  <2> HIDE DEF FileName
  <2>9. DOMAIN box'[b] \ {Subtree(b)} \subseteq {n \in FileName : n[1] = "mirror"}
    BY <2>1, <2>3, <2>5, <2>6, <2>7
  <2> QED BY <2>1, <2>2, <2>3, <2>5, <2>6, <2>7, <2>8, <2>9 DEF JobInv, Early
<1>5. ASSUME WriteRest PROVE JobInv'
  <2>1. b \in Division
    BY <1>5 DEF WriteRest, JobInv
  <2>2. PICK next \in BundlePc, name \in {Shard(b), Formats, Converters, Checksums, Descriptor} :
           /\ next \notin Early \cup {"copy"} /\ job.pc \notin Early \cup {"copy"}
           /\ Rest(b, next) = Rest(b, job.pc) \cup {name}
           /\ name[1] = "root" \/ Checksums \notin Rest(b, job.pc)
           /\ Descriptor \notin Rest(b, job.pc)
           /\ Write(name, RestContent(b, name)) /\ Step(next) /\ UNCHANGED <<lost, result>>
           /\ whole' = IF next = "verify" THEN [whole EXCEPT ![b] = TRUE] ELSE whole
           /\ next = "verify" <=> name = Descriptor
    BY <1>5, <2>1, RestSteps
  <2>3. whole'[b] <=> next = "verify"
    <3>1. ~whole[b]
      <4>1. job.pc # "verify" /\ job.pc # "idle"
        BY <1>5 DEF WriteRest
      <4> QED BY <4>1 DEF JobInv
    <3> QED BY <2>1, <2>2, <3>1 DEF Types
  <2> QED BY <2>2, <2>3, PutKeepsJobInv
<1>6. job.pc # "idle" => b \in Division
  BY DEF JobInv
<1>7. ASSUME NEW d \in Division, Damage(d) \/ (\E p \in Path : Delete(d, p)) PROVE JobInv'
  <2>1. job.pc = "idle" /\ UNCHANGED job
    <3>1. Damage(d) => job.div = 0 /\ UNCHANGED job
      BY DEF Damage
    <3>2. 0 \notin Division
      BY DEF Division
    <3>3. (\E p \in Path : Delete(d, p)) => job.pc = "idle" /\ UNCHANGED job
      BY DEF Delete, bundler
    <3>4. CASE Damage(d)
      BY <1>6, <3>1, <3>2, <3>4
    <3> QED BY <1>7, <3>3, <3>4
  <2> QED BY <1>3, <2>1
<1>8. Bump => JobInv'
  BY <1>3 DEF Bump, bundler
<1>9. VerifyOwn \/ KillBundle => job' = NoJob
  BY DEF VerifyOwn, KillBundle, Refuse
<1>10. CopyFile /\ Refuse => JobInv'
  BY RefuseEnds
<1> QED BY <1>2, <1>4, <1>5, <1>7, <1>8, <1>9, <1>10, ReadsKeepJobInv

-----------------------------------------------------------------------------
(* Bundle directories *)

\* A division whose bundle, record of the loss and answer stay as they are
\* keeps what is known of them.
LEMMA BoxStays ==
  ASSUME NEW d, BoxOf(d), box'[d] = box[d], whole'[d] = whole[d], lost'[d] = lost[d],
         result'[d] = result[d], shard'[d] = shard[d], source'[d] \subseteq source[d]
  PROVE  BoxOf(d)'
<1>1. /\ Packaged(d)' = Packaged(d) /\ Accepted(d)' = Accepted(d)
  BY DEF Packaged, Accepted
<1>2. Moment(d)' = Moment(d) /\ (Sidecars(d) => Sidecars(d)')
  BY <1>1 DEF Moment, Sidecars
<1> QED BY <1>1, <1>2 DEF BoxOf

\* A refusal takes nothing from a bundle.
LEMMA RefusedKeepsBox ==
  ASSUME NEW d, BoxOf(d), UNCHANGED <<box, whole, lost>>,
         result'[d] \in {"refused", "refusedQuiet"}
  PROVE  BoxOf(d)'
<1>1. Packaged(d)' = Packaged(d) /\ ~Accepted(d)' /\ result'[d] # "ok"
  BY DEF Packaged, Accepted
<1> QED BY <1>1 DEF BoxOf

\* A directory that bundle is writing has no descriptor.
LEMMA UnfinishedBox ==
  ASSUME NEW d, BoxOf(d), ~whole[d], ~whole'[d], UNCHANGED <<lost, result>>, IsDir(box'[d], d),
         Descriptor \notin DOMAIN box'[d]
  PROVE  BoxOf(d)'
<1>1. ~Accepted(d)' /\ result'[d] # "ok"
  BY DEF Accepted, BoxOf
<1> QED BY <1>1 DEF BoxOf

\* The finished directory is sealed.
LEMMA FinishedIsSealed ==
  ASSUME NEW dir, NEW d \in Division, NEW bytes \in Bytes, NEW log \in Seq(Record),
         IsPrefix(bytes.log, log),
         {Descriptor, Checksums, Shard(d), Subtree(d)} \subseteq DOMAIN dir,
         dir[Subtree(d)] = Bad, dir[Shard(d)] = <<"shard", bytes>>,
         dir[Checksums] = <<"checksums", ChecksumLines(dir)>>,
         dir[Descriptor] = <<"descriptor", DescriptorFor(d, bytes, log, dir)>>
  PROVE  Sealed(dir, d)
<1> DEFINE desc == Desc(dir)
           lines == ChecksumLines(dir)
<1>1. desc = DescriptorFor(d, bytes, log, dir) /\ dir[Shard(d)][2] = bytes
  BY DEF Desc
<1> HIDE DEF desc, lines
<1>2. desc = [divisions |-> <<d>>, runs |-> {bytes}, counts |-> [e \in {d} |-> Counts(log)],
              coverage |-> [e \in {d} |-> Coverage(log)], checksums |-> lines]
  BY <1>1 DEF DescriptorFor, lines
<1>3. /\ desc.counts = [e \in {d} |-> Counts(log)] /\ desc.checksums = lines
      /\ desc = [divisions |-> <<d>>, runs |-> desc.runs, counts |-> desc.counts,
                 coverage |-> desc.coverage, checksums |-> desc.checksums]
  BY <1>2
<1>4. /\ desc.counts = [e \in {d} |-> desc.counts[e]] /\ desc.counts[d] = Counts(log)
  BY <1>3
<1>5. /\ Counts(log) = [s \in Status |-> Counts(log)[s]]
      /\ \A s \in Status : Counts(log)[s] = Lines(log, s)
  BY DEF Counts
<1>6. \A s \in Status : Lines(log, s) \in Nat /\ Lines(bytes.log, s) <= Lines(log, s)
  <2>1. bytes.log \in Seq(Record)
    BY DEF Bytes
  <2> QED BY <2>1, PrefixCountsLess
<1>7. dir[Descriptor] = <<"descriptor", desc>>
  BY <1>1
<1>8. Shaped(desc, d)
  BY <1>3, <1>4, <1>5, <1>6 DEF Shaped
<1> QED BY <1>1, <1>3, <1>4, <1>5, <1>6, <1>7, <1>8 DEF Sealed, desc, lines

\* What was just written has not been damaged.
LEMMA UntouchedIsSpoilt ==
  ASSUME NEW dir, NEW d
  PROVE  Spoilt(dir, dir, d)
BY DEF Spoilt

\* The writing of the files keeps what is known of the bundles.
LEMMA WritesKeepBoxInv ==
  ASSUME Types, JobInv, JobInv', BoxInv, CheckAndList \/ CopyFile \/ WriteRest, ~Refuse
  PROVE  BoxInv'
<1>1. job \in JobOf /\ job.log \in Seq(Record)
  BY DEF Types, JobOf
<1>2. PICK b \in Division : /\ b = job.div /\ job.pc # "idle" /\ job.pc # "verify" /\ ~whole[b]
                            /\ ~Accepted(b) /\ BoxOf(b) /\ lost[b] = Empty
  <2>1. job.pc # "idle" /\ job.pc # "verify"
    BY DEF CheckAndList, CopyFile, WriteRest
  <2> QED BY <2>1 DEF JobInv, BoxInv
<1>3. UNCHANGED <<lost, result, shard, source>>
  BY DEF CheckAndList, CopyFile, WriteRest, Step, producer, live
<1>4. whole' = whole \/ whole' = [whole EXCEPT ![b] = TRUE]
  BY <1>2 DEF CheckAndList, CopyFile, WriteRest, Step
<1>5. PICK n, c :
        /\ n \in FileName \cup {Descriptor, Checksums, Subtree(b)}
        /\ box' = [box EXCEPT ![b] = With(box[b], n, c)]
        /\ n = Descriptor => job'.pc = "verify" /\ whole' = [whole EXCEPT ![b] = TRUE]
        /\ n # Descriptor => whole' = whole
        /\ job'.div = b /\ job'.bytes = job.bytes /\ job'.log = job.log
  <2>1. CASE CheckAndList
    <3>1. box' = [box EXCEPT ![b] = With(box[b], Subtree(b), Bad)] /\ UNCHANGED whole
      BY <1>2, <2>1 DEF CheckAndList, Write
    <3>2. Subtree(b) # Descriptor
      BY <1>2, NamesDiffer
    <3>3. job'.div = b /\ job'.bytes = job.bytes /\ job'.log = job.log
      BY <1>1, <1>2, <2>1 DEF CheckAndList, JobOf
    <3> QED BY <3>1, <3>2, <3>3
  <2>2. CASE CopyFile
    <3> DEFINE name == First(job.todo)
    <3>1. /\ name \in MirrorFiles(b) /\ UNCHANGED whole
          /\ box' = [box EXCEPT ![b] = With(box[b], name, Content(name))]
      BY <1>2, <2>2 DEF CopyFile, Write
    <3>2. name \in FileName /\ name # Descriptor
      BY <1>2, <3>1, NamesDiffer, MirrorFilesAreThere
    <3>3. job'.div = b /\ job'.bytes = job.bytes /\ job'.log = job.log
      BY <1>1, <1>2, <2>2 DEF CopyFile, JobOf
    <3> QED BY <3>1, <3>2, <3>3
  <2>3. CASE WriteRest
    <3>1. PICK next \in BundlePc, name \in {Shard(b), Formats, Converters, Checksums, Descriptor} :
             /\ Write(name, RestContent(b, name)) /\ Step(next)
             /\ whole' = IF next = "verify" THEN [whole EXCEPT ![b] = TRUE] ELSE whole
             /\ next = "verify" <=> name = Descriptor
      BY <1>2, <2>3, RestSteps, Zenon
    <3>2. name \in FileName \cup {Descriptor, Checksums, Subtree(b)}
      BY <1>2, NamesDiffer
    <3>3. job'.div = b /\ job'.bytes = job.bytes /\ job'.log = job.log /\ job'.pc = next
      BY <1>1, <1>2, <3>1 DEF Step, JobOf
    <3> QED BY <1>2, <3>1, <3>2, <3>3 DEF Write
  <2> QED BY <2>1, <2>2, <2>3
<1>6. box'[b] = With(box[b], n, c)
  BY <1>2, <1>5 DEF Types
<1>7. IsDir(box'[b], b)
  BY <1>2, <1>5, <1>6, WritesStayInside DEF BoxOf
<1>8. ASSUME NEW e \in Division, e # b PROVE BoxOf(e)'
  <2>1. box'[e] = box[e] /\ whole'[e] = whole[e]
    BY <1>2, <1>4, <1>5, <1>8 DEF Types
  <2> QED BY <1>3, <2>1, BoxStays DEF BoxInv
<1>9. CASE n # Descriptor
  <2>1. Descriptor \notin DOMAIN box'[b]
    BY <1>2, <1>6, <1>9 DEF BoxOf, With
  <2>2. ~whole'[b]
    BY <1>2, <1>5, <1>9
  <2>3. BoxOf(b)'
    BY <1>2, <1>3, <1>7, <2>1, <2>2, UnfinishedBox
  <2> QED BY <1>8, <2>3 DEF BoxInv
<1>10. CASE n = Descriptor
  <2>1. job'.pc = "verify" /\ whole'[b] /\ job'.div = b /\ lost'[b] = Empty
    BY <1>2, <1>3, <1>5, <1>10 DEF Types
  <2>2. Rest(b, "verify") = {Shard(b), Formats, Converters, Checksums, Descriptor}
    BY DEF Rest
  <2>3. /\ Subtree(b) \in DOMAIN box'[b] /\ box'[b][Subtree(b)] = Bad
        /\ \A m \in Rest(b, "verify") : m \in DOMAIN box'[b] /\ box'[b][m] = RestContent(b, m)'
    <3>1. \A m : RestContent(job.div, m)' = RestContent(b, m)'
      BY <2>1 DEF RestContent
    <3> QED BY <2>1, <3>1 DEF JobInv, Early
  <2>4. /\ RestContent(b, Shard(b))' = <<"shard", job.bytes>>
        /\ RestContent(b, Checksums)' = <<"checksums", ChecksumLines(box'[b])>>
        /\ RestContent(b, Descriptor)' = <<"descriptor", DescriptorFor(b, job.bytes, job.log, box'[b])>>
    BY <1>2, <1>5, NamesDiffer DEF RestContent
  <2>5. job.bytes \in Bytes /\ IsPrefix(job.bytes.log, job.log)
    <3>1. job.pc # "parse"
      <4>1. ~(job.pc = "parse")
        BY DEF CheckAndList, CopyFile, WriteRest
      <4> QED BY <4>1
    <3> QED BY <1>2, <3>1 DEF JobInv
  <2>6. Sealed(box'[b], b)
    BY <1>1, <1>2, <2>2, <2>3, <2>4, <2>5, FinishedIsSealed
  <2>7. Packaged(b)' = box'[b] /\ ~Accepted(b)' /\ result'[b] # "ok"
    BY <1>2, <1>3, <2>1 DEF Packaged, Accepted
  <2>8. BoxOf(b)'
    BY <1>7, <2>1, <2>6, <2>7, UntouchedIsSpoilt DEF BoxOf
  <2> QED BY <1>8, <2>8 DEF BoxInv
<1> QED BY <1>9, <1>10

\* The record that a text belongs to is the one its path is known by.
LEMMA BearingIsNamed ==
  ASSUME NEW log \in Seq(Record), NEW r \in Bearing(log)
  PROVE  r \in Record /\ r.path \in Recorded(log) /\ r = LastOf(log, r.path)
         /\ Named(log, r.path) = r.text /\ r.text # None
<1>1. r \in Effective(log) /\ r.text # None
  BY DEF Bearing
<1>2. r \in Record /\ r.path \in Recorded(log) /\ r = LastOf(log, r.path)
  BY <1>1, EffectiveIsLast
<1> QED BY <1>1, <1>2 DEF Named

\* A bundle that verifies is one moment of the log.
LEMMA VerifiedIsMoment ==
  ASSUME NEW d \in Division, Sealed(box[d], d), lost[d] = Empty, Verifies(box[d]),
         IsPrefix(box[d][Shard(d)][2].log, shard[d].log)
  PROVE  Moment(d)
<1> DEFINE dir == box[d]
           log == dir[Shard(d)][2].log
<1>1. Packaged(d) = dir
  BY DEF Packaged
<1>2. Divisions(dir) = {d}
  <2>1. Desc(dir).divisions = <<d>>
    BY DEF Sealed, Shaped
  <2> QED BY <2>1 DEF Divisions
<1>3. Desc(dir).counts[d] = Counts(log) /\ Desc(dir).coverage[d] = Coverage(log)
  BY <1>2 DEF Verifies, CountsAgree, ShardOf
<1>4. \A r \in Bearing(log) : dir[Text(d, r.path)] = <<"text", r.text>>
  BY <1>2 DEF Verifies, ArtifactsMatch, ShardOf
<1>5. \A r \in Bearing(log) : dir[Text(d, r.path)][2] = r.text
  BY <1>4
<1> QED BY <1>1, <1>3, <1>5 DEF Moment

\* And, when at most one run met it, it ships the sidecars of its texts.
LEMMA VerifiedHasSidecars ==
  ASSUME Types, JobInv, RaceInv, NEW d \in Division, d = job.div, job.pc = "verify", job.met < 2,
         IsDir(box[d], d), Sealed(box[d], d), lost[d] = Empty, Verifies(box[d]),
         box[d][Shard(d)][2] = job.bytes
  PROVE  Sidecars(d)
<1> DEFINE dir == box[d]
           log == dir[Shard(d)][2].log
<1>1. Packaged(d) = dir
  BY DEF Packaged
<1>2. Divisions(dir) = {d}
  <2>1. Desc(dir).divisions = <<d>>
    BY DEF Sealed, Shaped
  <2> QED BY <2>1 DEF Divisions
<1>3. log \in Seq(Record)
  BY DEF Sealed, Bytes
<1>4. SUFFICES ASSUME NEW p \in source[d], Text(d, p) \in DOMAIN dir
               PROVE  /\ Segments(d, p) \in DOMAIN dir
                      /\ dir[Segments(d, p)][2] = dir[Text(d, p)][2]
  BY <1>1 DEF Sidecars
<1>5. p \in Path
  BY DEF Types
<1>6. Text(d, p) \in {n \in Files(dir) : n[1] = "mirror"}
  BY <1>4 DEF Files, Text
<1>7. PICK r \in Bearing(log) : Text(d, p) \in {Text(d, r.path), Segments(d, r.path)}
  <2>1. Text(d, p) \in Referenced(dir)
    BY <1>6 DEF Verifies, NothingUnreferenced
  <2>2. Text(d, p) \in UNION {{Text(d, r.path), Segments(d, r.path)} : r \in Bearing(log)}
    BY <1>2, <2>1 DEF Referenced, ShardOf
  <2> QED BY <2>2
<1>8. r.path = p
  BY <1>7 DEF Text, Segments
<1>9. Bundled(p) = r.text /\ r.text # None
  BY <1>3, <1>8, BearingIsNamed DEF Bundled
<1>10. dir[Text(d, p)] = <<"text", r.text>>
  BY <1>2, <1>8 DEF Verifies, ArtifactsMatch, ShardOf
<1>11. Carried(d, p)
  BY <1>4, <1>9, <1>10 DEF RaceInv, RaceAt, Early
<1>12. Segments(d, p) \in DOMAIN dir /\ dir[Segments(d, p)] = <<"segments", r.text>>
  BY <1>9, <1>11 DEF Carried
<1> QED BY <1>10, <1>12

\* The verification of bundle's own output.
LEMMA VerifyOwnKeepsBoxInv ==
  ASSUME Types, JobInv, BoxInv, RaceInv, VerifyOwn
  PROVE  BoxInv'
<1>1. PICK b \in Division : b = job.div
  BY DEF VerifyOwn, JobInv
<1>2. job.pc = "verify" /\ UNCHANGED <<shard, source, box, whole, lost>>
  BY DEF VerifyOwn, Refuse, producer, live
<1>3. PICK v \in {"ok", "okCrowded", "refused", "refusedQuiet"} :
        /\ result' = [result EXCEPT ![b] = v]
        /\ v \in {"ok", "okCrowded"} => Verifies(box[b])
        /\ v = "ok" => job.met < 2
  BY <1>1 DEF VerifyOwn, Refuse
<1>4. result'[b] = v /\ \A e \in Division : e # b => result'[e] = result[e]
  BY <1>3 DEF Types
<1>5. ASSUME NEW e \in Division, e # b PROVE BoxOf(e)'
  BY <1>2, <1>4, <1>5, BoxStays DEF BoxInv
<1>6. BoxOf(b) /\ whole[b] /\ lost[b] = Empty /\ IsDir(box[b], b)
  BY <1>1, <1>2 DEF JobInv, BoxInv, BoxOf
<1>7. Sealed(box[b], b) /\ Packaged(b) = box[b]
  BY <1>6 DEF BoxOf, Packaged
<1>8. box[b][Shard(b)] = <<"shard", job.bytes>> /\ IsPrefix(job.bytes.log, shard[b].log)
  <2>1. Shard(b) \in Rest(b, job.pc)
    BY <1>2 DEF Rest
  <2>2. box[b][Shard(b)] = RestContent(b, Shard(b))
    BY <1>1, <1>2, <2>1 DEF JobInv, Early
  <2> QED BY <1>1, <1>2, <2>2, NamesDiffer DEF RestContent, JobInv
<1>9. box[b][Shard(b)][2] = job.bytes
  BY <1>8
<1>10. v \in {"ok", "okCrowded"} => Moment(b)
  BY <1>3, <1>6, <1>7, <1>8, <1>9, VerifiedIsMoment
<1>11. v = "ok" => Sidecars(b)
  BY <1>1, <1>2, <1>3, <1>6, <1>7, <1>9, VerifiedHasSidecars
<1>12. Packaged(b)' = Packaged(b) /\ (Accepted(b)' <=> v \in {"ok", "okCrowded"})
  BY <1>2, <1>4 DEF Packaged, Accepted
<1>13. Moment(b)' = Moment(b) /\ Sidecars(b)' = Sidecars(b)
  BY <1>2, <1>12 DEF Moment, Sidecars
<1>14. BoxOf(b)'
  BY <1>2, <1>4, <1>6, <1>10, <1>11, <1>12, <1>13 DEF BoxOf
<1> QED BY <1>5, <1>14 DEF BoxInv

\* A raised count changes nothing else of a descriptor.
LEMMA Recount ==
  ASSUME NEW desc, NEW d, Shaped(desc, d)
  PROVE  LET new == [desc EXCEPT !.counts[d]["failed"] = @ + 1]
         IN /\ Shaped(new, d) /\ new.checksums = desc.checksums
            /\ new.counts[d]["failed"] = desc.counts[d]["failed"] + 1
<1> DEFINE new == [desc EXCEPT !.counts[d]["failed"] = @ + 1]
           row == [desc.counts[d] EXCEPT !["failed"] = @ + 1]
           counts == [desc.counts EXCEPT ![d] = row]
<1>1. "failed" \in Status
  BY DEF Status
<1>2. /\ row = [s \in Status |-> row[s]] /\ row["failed"] = desc.counts[d]["failed"] + 1
      /\ \A s \in Status : row[s] \in Nat
  BY <1>1 DEF Shaped
<1> HIDE DEF row
<1>3. counts = [e \in {d} |-> counts[e]] /\ counts[d] = row
  BY DEF Shaped
<1>4. new = [desc EXCEPT !.counts = counts]
  BY DEF row
<1> HIDE DEF counts, new
<1>5. new = [divisions |-> <<d>>, runs |-> desc.runs, counts |-> counts,
             coverage |-> desc.coverage, checksums |-> desc.checksums]
  BY <1>4 DEF Shaped
<1>6. /\ new = [divisions |-> <<d>>, runs |-> new.runs, counts |-> new.counts,
                coverage |-> new.coverage, checksums |-> new.checksums]
      /\ new.counts = counts /\ new.checksums = desc.checksums
  BY <1>5
<1>7. \A s \in Status : counts[d][s] \in Nat
  BY <1>2, <1>3
<1>8. counts[d] = [s \in Status |-> counts[d][s]] /\ counts[d]["failed"] = desc.counts[d]["failed"] + 1
  BY <1>2, <1>3
<1>9. Shaped(new, d)
  BY <1>3, <1>6, <1>7, <1>8 DEF Shaped
<1>10. new.counts[d]["failed"] = desc.counts[d]["failed"] + 1
  BY <1>6, <1>8
<1> QED BY <1>6, <1>9, <1>10 DEF new

\* Whatever damage does to a file, it does to a copy of what was sealed.
LEMMA DamageSpoils ==
  ASSUME NEW dir, NEW packed, NEW new, NEW d \in Division, IsDir(dir, d), IsDir(packed, d),
         Sealed(packed, d), Spoilt(dir, packed, d),
         \/ \E n \in DOMAIN dir : new = [m \in DOMAIN dir \ {n} |-> dir[m]]
         \/ \E n \in {m \in DOMAIN dir : m[4] # "dir"} : new = [dir EXCEPT ![n] = Bad]
         \/ Descriptor \in DOMAIN dir /\ Is("descriptor", dir[Descriptor]) /\ new = Miscounted(dir, d)
         \/ new = With(dir, Leftover(d), Bad)
  PROVE  IsDir(new, d) /\ Spoilt(new, packed, d)
<1> DEFINE Fits(c, n) ==
             \/ n \in DOMAIN packed /\ c = packed[n]
             \/ c = Bad /\ n # Subtree(d)
             \/ n = Descriptor /\ c = <<"descriptor", c[2]>> /\ Recounted(c[2], Desc(packed), d)
<1>1. /\ DOMAIN dir \subseteq DOMAIN packed \cup {Leftover(d)}
      /\ \A n \in DOMAIN dir : Fits(dir[n], n)
  BY DEF Spoilt, Desc
<1>2. ASSUME DOMAIN new \subseteq DOMAIN packed \cup {Leftover(d)}, \A n \in DOMAIN new : Fits(new[n], n)
      PROVE  Spoilt(new, packed, d)
  BY <1>2 DEF Spoilt, Desc
<1>3. /\ DOMAIN dir \subseteq FileName \cup {Descriptor, Checksums, Subtree(d)}
      /\ dir = [n \in DOMAIN dir |-> dir[n]]
  BY DEF IsDir
<1>4. ASSUME NEW n \in DOMAIN dir, new = [m \in DOMAIN dir \ {n} |-> dir[m]]
      PROVE  IsDir(new, d) /\ Spoilt(new, packed, d)
  <2> HIDE DEF Fits, FileName
  <2> QED BY <1>1, <1>2, <1>3, <1>4 DEF IsDir
<1>5. ASSUME NEW n \in DOMAIN dir, n[4] # "dir", new = [dir EXCEPT ![n] = Bad]
      PROVE  IsDir(new, d) /\ Spoilt(new, packed, d)
  <2>1. Fits(Bad, n)
    BY <1>5, NamesDiffer
  <2> HIDE DEF Fits, FileName
  <2>2. DOMAIN new = DOMAIN dir /\ \A m \in DOMAIN new : new[m] = IF m = n THEN Bad ELSE dir[m]
    BY <1>3, <1>5
  <2>3. new = [m \in DOMAIN new |-> new[m]]
    BY <1>3, <1>5
  <2>4. \A m \in DOMAIN new : Fits(new[m], m)
    BY <1>1, <2>1, <2>2
  <2> QED BY <1>1, <1>2, <1>3, <2>2, <2>3, <2>4 DEF IsDir
<1>6. ASSUME Descriptor \in DOMAIN dir, Is("descriptor", dir[Descriptor]), new = Miscounted(dir, d)
      PROVE  IsDir(new, d) /\ Spoilt(new, packed, d)
  <2> DEFINE old == Desc(dir)
             desc == Desc(packed)
             edited == [old EXCEPT !.counts[d]["failed"] = @ + 1]
             c == <<"descriptor", edited>>
  <2>1. /\ Descriptor \in DOMAIN packed /\ packed[Descriptor] = <<"descriptor", desc>>
        /\ Shaped(desc, d) /\ desc.counts[d]["failed"] \in Nat
    BY DEF Sealed, Shaped, Status
  <2>2. dir[Descriptor] # Bad
    BY <1>6 DEF Is, Bad
  <2>3. dir[Descriptor] = <<"descriptor", desc>> \/ Recounted(old, desc, d)
    BY <1>1, <1>6, <2>1, <2>2 DEF Desc
  <2> HIDE DEF desc
  <2>4. Shaped(old, d) /\ old.checksums = desc.checksums /\ old.counts[d]["failed"] \in Nat
        /\ desc.counts[d]["failed"] <= old.counts[d]["failed"]
    <3>1. CASE dir[Descriptor] = <<"descriptor", desc>>
      <4>1. old = desc
        BY <3>1 DEF Desc
      <4> HIDE DEF old
      <4> QED BY <2>1, <4>1
    <3>2. CASE Recounted(old, desc, d)
      <4> HIDE DEF old
      <4> QED BY <3>2 DEF Recounted, Shaped, Status
    <3> QED BY <2>3, <3>1, <3>2
  <2> HIDE DEF old
  <2>5. /\ Shaped(edited, d) /\ edited.checksums = old.checksums
        /\ edited.counts[d]["failed"] = old.counts[d]["failed"] + 1
    BY <2>4, Recount
  <2> HIDE DEF edited
  <2>6. Recounted(edited, desc, d)
    BY <2>1, <2>4, <2>5 DEF Recounted
  <2>7. Fits(c, Descriptor)
    BY <2>6 DEF desc
  <2>8. new = [dir EXCEPT ![Descriptor] = c]
    BY <1>6 DEF old, edited, Miscounted
  <2> HIDE DEF Fits, FileName, c
  <2>9. DOMAIN new = DOMAIN dir /\ \A m \in DOMAIN new : new[m] = IF m = Descriptor THEN c ELSE dir[m]
    BY <1>3, <2>8
  <2>10. new = [m \in DOMAIN new |-> new[m]]
    BY <1>3, <2>8
  <2>11. \A m \in DOMAIN new : Fits(new[m], m)
    BY <1>1, <2>7, <2>9
  <2> QED BY <1>1, <1>2, <1>3, <2>9, <2>10, <2>11 DEF IsDir
<1>7. ASSUME new = With(dir, Leftover(d), Bad)
      PROVE  IsDir(new, d) /\ Spoilt(new, packed, d)
  <2>1. Leftover(d) \in FileName /\ Leftover(d) # Subtree(d)
    BY DEF FileName, Leftover, Subtree
  <2>2. Fits(Bad, Leftover(d))
    BY <2>1
  <2>3. /\ DOMAIN new = DOMAIN dir \cup {Leftover(d)} /\ new[Leftover(d)] = Bad
        /\ \A m \in DOMAIN dir : m # Leftover(d) => new[m] = dir[m]
    BY <1>7 DEF With
  <2>4. IsDir(new, d)
    BY <1>7, <2>1, WritesStayInside
  <2> HIDE DEF Fits
  <2> QED BY <1>1, <1>2, <2>2, <2>3, <2>4
<1> QED BY <1>4, <1>5, <1>6, <1>7

\* Damage.
LEMMA DamageKeepsBoxInv ==
  ASSUME Types, BoxInv, NEW d \in Division, Damage(d)
  PROVE  BoxInv'
<1>1. /\ whole[d] /\ UNCHANGED <<shard, source, whole, result>>
      /\ lost' = [lost EXCEPT ![d] = IF lost[d] = Empty THEN box[d] ELSE lost[d]]
      /\ \E new : box' = [box EXCEPT ![d] = new]
  BY DEF Damage, producer, live
<1>2. ASSUME NEW e \in Division, e # d PROVE BoxOf(e)'
  BY <1>1, <1>2, BoxStays DEF Types, BoxInv
<1>3. /\ BoxOf(d) /\ IsDir(box[d], d) /\ IsDir(Packaged(d), d) /\ Sealed(Packaged(d), d)
      /\ Spoilt(box[d], Packaged(d), d)
  BY <1>1 DEF BoxInv, BoxOf
<1>4. Packaged(d)' = Packaged(d)
  <2>1. Packaged(d) # Empty
    BY <1>3 DEF Sealed, Empty
  <2>2. lost'[d] = Packaged(d)
    BY <1>1 DEF Packaged, Types
  <2> QED BY <2>1, <2>2 DEF Packaged
<1>5. \/ \E n \in DOMAIN box[d] : box'[d] = [m \in DOMAIN box[d] \ {n} |-> box[d][m]]
      \/ \E n \in {m \in DOMAIN box[d] : m[4] # "dir"} : box'[d] = [box[d] EXCEPT ![n] = Bad]
      \/ /\ Descriptor \in DOMAIN box[d] /\ Is("descriptor", box[d][Descriptor])
         /\ box'[d] = Miscounted(box[d], d)
      \/ box'[d] = With(box[d], Leftover(d), Bad)
  <2>1. box = [e \in Division |-> box[e]]
    BY DEF Types
  <2>2. \A new : [box EXCEPT ![d] = new][d] = new
    BY <2>1
  <2>3. \/ \E n \in DOMAIN box[d] : box' = [box EXCEPT ![d] = [m \in DOMAIN box[d] \ {n} |-> box[d][m]]]
        \/ \E n \in {m \in DOMAIN box[d] : m[4] # "dir"} : box' = [box EXCEPT ![d] = [box[d] EXCEPT ![n] = Bad]]
        \/ /\ Descriptor \in DOMAIN box[d] /\ Is("descriptor", box[d][Descriptor])
           /\ box' = [box EXCEPT ![d] = Miscounted(box[d], d)]
        \/ box' = [box EXCEPT ![d] = With(box[d], Leftover(d), Bad)]
    BY DEF Damage
  <2> QED BY <2>2, <2>3
<1>6. IsDir(box'[d], d) /\ Spoilt(box'[d], Packaged(d), d)
  BY <1>3, <1>5, DamageSpoils
<1>7. Accepted(d)' = Accepted(d) /\ Moment(d)' = Moment(d) /\ Sidecars(d)' = Sidecars(d)
  BY <1>1, <1>4 DEF Accepted, Moment, Sidecars
<1>8. BoxOf(d)'
  BY <1>1, <1>3, <1>4, <1>6, <1>7 DEF BoxOf
<1> QED BY <1>2, <1>8 DEF BoxInv

\* Every step but the run's keeps what is known of the bundles.
LEMMA BundleKeepsBoxInv ==
  ASSUME Types, JobInv, JobInv', BoxInv, RaceInv,
         \/ \E d \in Division : ReadBytes(d) \/ Damage(d) \/ \E p \in Path : Delete(d, p)
         \/ Bump
         \/ ParseShard \/ CheckAndList \/ CopyFile \/ EndCopy \/ WriteRest \/ VerifyOwn \/ KillBundle
  PROVE  BoxInv'
<1>1. ASSUME UNCHANGED <<shard, box, whole, lost, result>>, \A d \in Division : source'[d] \subseteq source[d]
      PROVE  BoxInv'
  BY <1>1, BoxStays DEF BoxInv
<1>2. ASSUME NEW d \in Division, UNCHANGED <<shard, source, box, whole, lost>>,
             \E v \in {"refused", "refusedQuiet"} : result' = [result EXCEPT ![d] = v]
      PROVE  BoxInv'
  <2>1. result'[d] \in {"refused", "refusedQuiet"} /\ \A e \in Division : e # d => result'[e] = result[e]
    BY <1>2 DEF Types
  <2>2. \A e \in Division : BoxOf(e)
    BY DEF BoxInv
  <2>3. ASSUME NEW e \in Division, e # d PROVE BoxOf(e)'
    BY <1>2, <2>1, <2>2, <2>3, BoxStays
  <2>4. BoxOf(d)'
    BY <1>2, <2>1, <2>2, RefusedKeepsBox
  <2> QED BY <2>3, <2>4 DEF BoxInv
<1>3. ASSUME Refuse, job.pc # "idle" PROVE BoxInv'
  <2>1. job.div \in Division
    BY <1>3 DEF JobInv
  <2>2. UNCHANGED <<shard, source, box, whole, lost>>
        /\ \E v \in {"refused", "refusedQuiet"} : result' = [result EXCEPT ![job.div] = v]
    BY <1>3 DEF Refuse, producer, live
  <2> QED BY <1>2, <2>1, <2>2
<1>4. ASSUME NEW d \in Division, ReadBytes(d) PROVE BoxInv'
  <2>1. \/ UNCHANGED result
        \/ \E v \in {"refused", "refusedQuiet"} : result' = [result EXCEPT ![d] = v]
    BY <1>4 DEF ReadBytes
  <2>2. UNCHANGED <<shard, source, box, whole, lost>>
    BY <1>4 DEF ReadBytes, producer, live
  <2> QED BY <1>1, <1>2, <2>1, <2>2
<1>5. ASSUME NEW d \in Division, NEW p \in Path, Delete(d, p) PROVE BoxInv'
  <2>1. /\ UNCHANGED <<shard, box, whole, lost, result>>
        /\ \A e \in Division : source'[e] \subseteq source[e]
    BY <1>5 DEF Delete, live, bundler, Types
  <2> QED BY <1>1, <2>1
<1>6. Bump \/ EndCopy \/ KillBundle \/ (ParseShard /\ ~Refuse) => BoxInv'
  <2>1. Bump \/ EndCopy \/ KillBundle \/ (ParseShard /\ ~Refuse)
          => UNCHANGED <<shard, source, box, whole, lost, result>>
    BY DEF Bump, EndCopy, KillBundle, ParseShard, Step, producer, live, bundler
  <2> QED BY <1>1, <2>1
<1>7. (ParseShard \/ CheckAndList \/ CopyFile) /\ Refuse => BoxInv'
  BY <1>3 DEF ParseShard, CheckAndList, CopyFile
<1>8. (CheckAndList \/ CopyFile) /\ ~Refuse => BoxInv'
  BY WritesKeepBoxInv
<1>9. WriteRest => BoxInv'
  <2>1. ASSUME WriteRest PROVE ~Refuse
    <3>1. job' # NoJob
      BY <2>1 DEF WriteRest, Step, NoJob, Types, JobOf
    <3> QED BY <3>1 DEF Refuse
  <2> QED BY <2>1, WritesKeepBoxInv
<1> QED BY <1>4, <1>5, <1>6, <1>7, <1>8, <1>9, DamageKeepsBoxInv, VerifyOwnKeepsBoxInv

-----------------------------------------------------------------------------
(* A run that overtakes the copy *)

\* What a step of the run does to the division d that is being bundled: it
\* has no part in it, or it enters it, or it is at a source of it.
LEMMA RunMoves ==
  ASSUME Types, RunInv, JobInv, RunStep, NEW d \in Division, d = job.div, job.pc # "idle"
  PROVE  /\ UNCHANGED <<rules, source, box>> /\ job'.div = d /\ job'.pc = job.pc
         /\ job'.bytes = job.bytes /\ job'.log = job.log /\ job'.todo = job.todo
         /\ \/ /\ run.div # d /\ run'.div # d /\ job' = job
               /\ text'[d] = text[d] /\ seg'[d] = seg[d] /\ shard'[d] = shard[d] /\ tmp'[d] = tmp[d]
               /\ fresh[d] => fresh'[d]
            \/ /\ run.pc = "idle" /\ run'.div = d /\ job'.met = Min({job.met + 1, 2})
               /\ UNCHANGED <<text, seg>>
            \/ /\ run.div = d /\ run.pc # "idle" /\ job' = job
<1>1. /\ run \in RunOf /\ job \in JobOf /\ shard \in [Division -> Bytes] /\ fresh \in [Division -> BOOLEAN]
      /\ tmp \in [Division -> BOOLEAN]
      /\ text \in [Division -> [Path -> TextValue \cup {None}]]
      /\ seg \in [Division -> [Path -> TextValue \cup {None}]]
  BY DEF Types
<1>2. /\ UNCHANGED <<rules, source, box>> /\ job'.div = d /\ job'.pc = job.pc
      /\ job'.bytes = job.bytes /\ job'.log = job.log /\ job'.todo = job.todo
  BY <1>1, RunLeavesBundles DEF JobOf
<1>3. ASSUME NEW e \in Division, StartRun(e)
      PROVE  /\ run.pc = "idle" /\ run'.div = d /\ job'.met = Min({job.met + 1, 2})
             /\ UNCHANGED <<text, seg>>
  <2>1. job.div = e /\ e = d
    BY <1>3 DEF StartRun, Concerned, Division
  <2>2. run'.div = e
    BY <1>3 DEF StartRun, NoRun
  <2>3. job' = [job EXCEPT !.met = Min({job.met + 1, 2})]
    BY <1>3, <2>1 DEF StartRun
  <2> QED BY <1>1, <1>3, <2>1, <2>2, <2>3 DEF StartRun, JobOf
<1>4. ASSUME NextSource \/ WriteArtifact \/ RemoveArtifact \/ AppendLine \/ FinishRun \/ KillRun
      PROVE  run.pc # "idle" /\ job' = job
  BY <1>4 DEF NextSource, WriteArtifact, RemoveArtifact, Effect, AppendLine, FinishRun, KillRun, bundler
<1>5. ASSUME NextSource \/ WriteArtifact \/ RemoveArtifact \/ AppendLine \/ FinishRun \/ KillRun, run.div # d
      PROVE  /\ run'.div # d
             /\ text'[d] = text[d] /\ seg'[d] = seg[d] /\ shard'[d] = shard[d] /\ tmp'[d] = tmp[d]
             /\ fresh[d] => fresh'[d]
  <2>1. 0 \notin Division
    BY DEF Division
  <2>2. CASE NextSource
    BY <1>1, <1>5, <2>2 DEF NextSource, live, RunOf
  <2>3. CASE WriteArtifact \/ RemoveArtifact
    BY <1>1, <1>5, <2>3 DEF WriteArtifact, RemoveArtifact, Effect, RunOf
  <2>4. CASE AppendLine
    <3>1. run'.div = run.div /\ \E s : shard' = [shard EXCEPT ![run.div] = s]
      BY <1>1, <2>4, AppendSteps DEF RunOf
    <3> QED BY <1>1, <1>5, <2>4, <3>1 DEF AppendLine
  <2>5. CASE FinishRun
    BY <1>1, <1>5, <2>1, <2>5 DEF FinishRun, live, NoRun
  <2>6. CASE KillRun
    BY <1>1, <1>5, <2>1, <2>6 DEF KillRun, NoRun
  <2> QED BY <1>5, <2>2, <2>3, <2>4, <2>5, <2>6
<1> QED BY <1>2, <1>3, <1>4, <1>5 DEF RunStep

\* What a step of the run does to a source of the division it is in: it
\* writes the text while it is ahead of it, and the sidecar after that.
LEMMA RunWrites ==
  ASSUME Types, RunInv, RunStep, NEW d \in Division, d = run.div, run.pc # "idle", NEW p \in Path
  PROVE  /\ Ahead(d, p)' => Ahead(d, p)
         /\ \/ text'[d][p] = text[d][p] /\ seg'[d][p] = seg[d][p]
            \/ Ahead(d, p) /\ ~Ahead(d, p)' /\ seg'[d][p] = seg[d][p]
            \/ /\ ~Ahead(d, p) /\ text'[d][p] = text[d][p] /\ seg'[d][p] = text[d][p]
<1>1. /\ run \in RunOf
      /\ text \in [Division -> [Path -> TextValue \cup {None}]]
      /\ seg \in [Division -> [Path -> TextValue \cup {None}]]
  BY DEF Types
<1>2. CASE \E e \in Division : StartRun(e)
  BY <1>2 DEF StartRun
<1>3. CASE NextSource
  <2> DEFINE q == Min(run.todo)
  <2>1. run.todo # {} /\ run.todo \in SUBSET Nat /\ run.pc = "next"
    <3>1. run.todo \in SUBSET Path /\ Path \subseteq Nat
      BY <1>1 DEF RunOf, Path
    <3> QED BY <1>3, <3>1 DEF NextSource
  <2>2. q \in run.todo
    BY <2>1, MinIsLeast
  <2>3. \E pc, rec : run' = [run EXCEPT !.pc = pc, !.cur = q, !.todo = @ \ {q}, !.rec = rec]
    <3> HIDE DEF q
    <3> QED BY <1>3 DEF NextSource, q
  <2> HIDE DEF q
  <2>4. run'.div = d /\ run'.cur = q /\ run'.todo = run.todo \ {q}
    BY <1>1, <2>3 DEF RunOf
  <2>5. UNCHANGED <<text, seg>>
    BY <1>3 DEF NextSource, live
  <2> QED BY <2>1, <2>2, <2>4, <2>5 DEF Ahead
<1>4. CASE WriteArtifact \/ RemoveArtifact
  <2> DEFINE q == run.cur
  <2>1. \/ /\ run.pc = "text" /\ run' = [run EXCEPT !.pc = "seg"] /\ UNCHANGED seg
           /\ text' = [text EXCEPT ![d][q] = run.rec.text]
        \/ /\ run.pc = "seg" /\ run' = [run EXCEPT !.pc = "append"] /\ UNCHANGED text
           /\ seg' = [seg EXCEPT ![d][q] = run.rec.text]
        \/ /\ run.pc = "dropText" /\ run' = [run EXCEPT !.pc = "dropSeg"] /\ UNCHANGED seg
           /\ text' = [text EXCEPT ![d][q] = None]
        \/ /\ run.pc = "dropSeg" /\ run' = [run EXCEPT !.pc = "append"] /\ UNCHANGED text
           /\ seg' = [seg EXCEPT ![d][q] = None]
    BY <1>4 DEF WriteArtifact, RemoveArtifact, Effect
  <2>2. /\ run'.div = d /\ run'.cur = q /\ run'.todo = run.todo
        /\ run'.pc \in {"seg", "append", "dropSeg"}
    BY <1>1, <2>1 DEF RunOf
  <2>3. AtSource /\ run.rec \in Record /\ q \in Path /\ q \notin run.todo
    BY <2>1 DEF RunInv, AtSource, Busy, Record
  <2>4. p # q => text'[d][p] = text[d][p] /\ seg'[d][p] = seg[d][p]
    BY <1>1, <2>1, <2>3
  <2>5. (Ahead(d, p)' <=> p \in run.todo)
        /\ (Ahead(d, p) <=> p \in run.todo \/ (run.pc \in {"text", "dropText"} /\ p = q))
    BY <2>2 DEF Ahead
  <2>6. CASE p = q
    <3>1. CASE run.pc \in {"text", "dropText"}
      BY <1>1, <2>1, <2>3, <2>5, <2>6, <3>1
    <3>2. CASE run.pc \in {"seg", "dropSeg"}
      BY <1>1, <2>1, <2>3, <2>5, <2>6, <3>2 DEF AtSource
    <3> QED BY <2>1, <3>1, <3>2
  <2> QED BY <2>4, <2>5, <2>6
<1>5. CASE AppendLine
  <2>1. run.pc \in {"append", "torn", "bare"} /\ run'.div = d /\ run'.todo = run.todo
        /\ run'.pc \in {"torn", "bare", "next"}
    BY <1>1, <1>5, AppendSteps DEF RunOf
  <2> QED BY <1>5, <2>1 DEF AppendLine, Ahead
<1>6. CASE FinishRun \/ KillRun
  <2>1. run'.div # d /\ UNCHANGED <<text, seg>>
    BY <1>6 DEF FinishRun, KillRun, live, NoRun, Division
  <2> QED BY <2>1 DEF Ahead
<1> QED BY <1>2, <1>3, <1>4, <1>5, <1>6 DEF RunStep

\* A step of the run keeps every text it meets with its sidecar.
LEMMA RunKeepsRaceInv ==
  ASSUME Types, RunInv, JobInv, RaceInv, QuietInv, RunStep
  PROVE  RaceInv'
<1>1. SUFFICES ASSUME job'.pc # "idle", job'.met < 2 PROVE (\A p \in source[job.div] : RaceAt(job.div, p))'
  BY DEF RaceInv
<1>2. job.pc # "idle"
  <2>1. job \in JobOf
    BY DEF Types
  <2> QED BY <1>1, <2>1, RunLeavesBundles DEF JobOf
<1>3. PICK d \in Division : d = job.div
  BY <1>2 DEF JobInv
<1>4. /\ UNCHANGED <<rules, source, box>> /\ job'.div = d /\ job'.pc = job.pc
      /\ job'.bytes = job.bytes /\ job'.log = job.log /\ job'.todo = job.todo
      /\ \/ /\ run.div # d /\ run'.div # d /\ job' = job
            /\ text'[d] = text[d] /\ seg'[d] = seg[d] /\ shard'[d] = shard[d] /\ tmp'[d] = tmp[d]
         \/ /\ run.pc = "idle" /\ run'.div = d /\ job'.met = Min({job.met + 1, 2})
            /\ UNCHANGED <<text, seg>>
         \/ /\ run.div = d /\ run.pc # "idle" /\ job' = job
  BY <1>2, <1>3, RunMoves
<1>5. SUFFICES ASSUME NEW p \in source[d] PROVE RaceAt(d, p)'
  BY <1>4 DEF RaceInv
<1>6. p \in Path /\ job.met \in 0..2
  BY DEF Types, JobOf
<1>7. Bundled(p)' = Bundled(p) /\ (Carried(d, p)' <=> Carried(d, p))
  BY <1>4 DEF Bundled, Carried
<1>8. job.met < 2 => RaceAt(d, p)
  BY <1>2, <1>3, <1>5 DEF RaceInv
<1>9. CASE run.div # d /\ run'.div # d /\ job' = job /\ text'[d] = text[d] /\ seg'[d] = seg[d]
  <2>1. ~Ahead(d, p) /\ ~Ahead(d, p)'
    BY <1>9 DEF Ahead
  <2> QED BY <1>1, <1>4, <1>7, <1>8, <1>9, <2>1 DEF RaceAt, Past
<1>10. CASE run.pc = "idle" /\ run'.div = d /\ job'.met = Min({job.met + 1, 2}) /\ UNCHANGED <<text, seg>>
  <2>1. job.met = 0 /\ job'.met # 0
    <3>1. Min({job.met + 1, 2}) \in {job.met + 1, 2}
      BY <1>6, MinIsLeast
    <3> QED BY <1>1, <1>6, <1>10, <3>1
  <2>2. text[d][p] = Bundled(p) /\ seg[d][p] = Bundled(p) /\ ~Past(d, p)
    BY <1>8, <2>1 DEF RaceAt, Past
  <2> QED BY <1>4, <1>7, <1>8, <1>10, <2>1, <2>2 DEF RaceAt
<1>11. CASE run.div = d /\ run.pc # "idle" /\ job' = job
  <2>1. /\ Ahead(d, p)' => Ahead(d, p)
        /\ \/ text'[d][p] = text[d][p] /\ seg'[d][p] = seg[d][p]
           \/ Ahead(d, p) /\ ~Ahead(d, p)' /\ seg'[d][p] = seg[d][p]
           \/ ~Ahead(d, p) /\ text'[d][p] = text[d][p] /\ seg'[d][p] = text[d][p]
    BY <1>6, <1>11, RunWrites
  <2>2. job.met # 0
    <3>1. ~fresh[d]
      BY <1>11 DEF RunInv
    <3> QED BY <1>2, <1>3, <3>1 DEF QuietInv, QuietAt
  <2>3. RaceAt(d, p) /\ job'.met = job.met
    BY <1>1, <1>8, <1>11
  <2>4. job'.met = 0 \/ Ahead(d, p)' => text'[d][p] = Bundled(p) /\ seg'[d][p] = Bundled(p)
    BY <2>1, <2>2, <2>3 DEF RaceAt
  <2>5. text'[d][p] = Bundled(p) => seg'[d][p] = Bundled(p)
    BY <2>1, <2>3 DEF RaceAt
  <2>6. Past(d, p) => Past(d, p)'
    BY <1>7, <2>1 DEF Past
  <2> QED BY <1>4, <1>7, <2>3, <2>4, <2>5, <2>6 DEF RaceAt
<1> QED BY <1>4, <1>9, <1>10, <1>11

\* The mirror of a division that nothing writes to.
LEMMA MirrorStays ==
  ASSUME NEW d \in Division, text'[d] = text[d], seg'[d] = seg[d], tmp'[d] = tmp[d]
  PROVE  MirrorFiles(d)' = MirrorFiles(d) /\ \A n \in MirrorFiles(d) : Content(n)' = Content(n)
<1>1. MirrorFiles(d)' = MirrorFiles(d)
  BY DEF MirrorFiles
<1>2. \A n \in MirrorFiles(d) : n[2] = d
  BY DEF MirrorFiles, Text, Segments, Leftover
<1> QED BY <1>1, <1>2 DEF Content

\* A copy that no run disturbs stays one, or is met by a run.
LEMMA RunKeepsQuietInv ==
  ASSUME Types, RunInv, JobInv, QuietInv, RunStep
  PROVE  QuietInv'
<1>1. SUFFICES ASSUME job'.pc # "idle", job'.met = 0 PROVE QuietAt(job.div)'
  BY DEF QuietInv
<1>2. job.pc # "idle"
  <2>1. job \in JobOf
    BY DEF Types
  <2> QED BY <1>1, <2>1, RunLeavesBundles DEF JobOf
<1>3. PICK d \in Division : d = job.div
  BY <1>2 DEF JobInv
<1>4. /\ UNCHANGED <<rules, source, box>> /\ job'.div = d /\ job'.pc = job.pc
      /\ job'.bytes = job.bytes /\ job'.log = job.log /\ job'.todo = job.todo
      /\ \/ /\ run.div # d /\ run'.div # d /\ job' = job
            /\ text'[d] = text[d] /\ seg'[d] = seg[d] /\ shard'[d] = shard[d] /\ tmp'[d] = tmp[d]
            /\ fresh[d] => fresh'[d]
         \/ /\ run.pc = "idle" /\ run'.div = d /\ job'.met = Min({job.met + 1, 2})
            /\ UNCHANGED <<text, seg>>
         \/ /\ run.div = d /\ run.pc # "idle" /\ job' = job
  BY <1>2, <1>3, RunMoves
<1>5. job.met \in 0..2
  BY DEF Types, JobOf
<1>6. ~(job'.met = Min({job.met + 1, 2}))
  <2>1. Min({job.met + 1, 2}) \in {job.met + 1, 2}
    BY <1>5, MinIsLeast
  <2> QED BY <1>1, <1>5, <2>1
<1>7. ~(run.div = d /\ run.pc # "idle" /\ job' = job)
  <2>1. run.div = d /\ run.pc # "idle" => ~fresh[d]
    BY DEF RunInv
  <2> QED BY <1>1, <1>2, <1>3, <2>1 DEF QuietInv, QuietAt
<1>8. /\ job' = job /\ QuietAt(d)
      /\ text'[d] = text[d] /\ seg'[d] = seg[d] /\ shard'[d] = shard[d] /\ tmp'[d] = tmp[d]
      /\ fresh[d] => fresh'[d]
  BY <1>1, <1>2, <1>3, <1>4, <1>6, <1>7 DEF QuietInv
<1>9. MirrorFiles(d)' = MirrorFiles(d) /\ \A n \in MirrorFiles(d) : Content(n)' = Content(n)
  BY <1>8, MirrorStays
<1>10. Shippable' = Shippable
  BY <1>3, <1>4, <1>8 DEF Shippable
<1>11. Rest(d, job.pc)' = Rest(d, job.pc)
  BY <1>8 DEF Rest
<1>12. QuietAt(d)'
  BY <1>4, <1>8, <1>9, <1>10, <1>11 DEF QuietAt
<1> QED BY <1>4, <1>12

\* The names of a text and its sidecar differ from every other, and the
\* sidecar comes first.
LEMMA SidecarFirst ==
  ASSUME NEW d \in Division, NEW p \in Path
  PROVE  /\ Text(d, p) \in FileName /\ Segments(d, p) \in FileName
         /\ Before(Segments(d, p), Text(d, p)) /\ Segments(d, p) # Text(d, p)
         /\ Subtree(d) \notin {Segments(d, p), Text(d, p)}
         /\ \A n : n[1] # "mirror" => n \notin {Segments(d, p), Text(d, p)}
BY DEF Text, Segments, Subtree, FileName, Before, Path, Division

\* The copy takes a text after its sidecar.
LEMMA CopiedInOrder ==
  ASSUME NEW d \in Division, NEW p \in Path, NEW names \in SUBSET FileName, names # {},
         First(names) = Text(d, p)
  PROVE  Segments(d, p) \notin names
<1>1. IsFiniteSet(names)
  BY HandoffAssumption, FileNamesAreFinite, FS_Subset
<1>2. \A m \in names \ {Text(d, p)} : Before(Text(d, p), m)
  BY <1>1, FirstIsFirst
<1>3. /\ Segments(d, p) \in FileName /\ Text(d, p) \in FileName
      /\ Before(Segments(d, p), Text(d, p)) /\ Segments(d, p) # Text(d, p)
  BY SidecarFirst
<1>4. ~Before(Text(d, p), Segments(d, p))
  BY <1>3, BeforeIsStrict
<1> QED BY <1>2, <1>3, <1>4

\* A job that ends, or that does not change between runs, holds to nothing.
LEMMA IdleIsFree ==
  ASSUME job'.pc = "idle"
  PROVE  RaceInv' /\ QuietInv'
BY DEF RaceInv, QuietInv

\* The start: a fresh division has every sidecar.
LEMMA StartsQuiet ==
  ASSUME Types, RunInv, NEW d \in Division, ReadBytes(d)
  PROVE  RaceInv' /\ QuietInv'
<1>1. CASE job' = NoJob
  BY <1>1, IdleIsFree DEF NoJob
<1>2. CASE job' # NoJob
  <2>1. /\ job' = [NoJob EXCEPT !.div = d, !.pc = "parse", !.bytes = shard[d],
                                !.met = IF fresh[d] THEN 0 ELSE 2]
        /\ EndsWithNewline(shard[d]) /\ UNCHANGED <<source, shard, text, seg, run, fresh, rules>>
    BY <1>2 DEF ReadBytes, producer, live
  <2>2. /\ job'.div = d /\ job'.pc = "parse" /\ job'.bytes = shard[d]
        /\ job'.met = IF fresh[d] THEN 0 ELSE 2
    BY <2>1 DEF NoJob
  <2>3. ASSUME fresh[d], NEW p \in source[d] PROVE RaceAt(d, p)'
    <3>1. Settled(d, p)
      BY <2>3 DEF RunInv
    <3>2. Bundled(p)' = Named(shard[d].log, p)
      BY <2>2 DEF Bundled
    <3> QED BY <2>1, <2>2, <3>1, <3>2 DEF RaceAt, Settled, Early
  <2>4. RaceInv'
    BY <2>1, <2>2, <2>3 DEF RaceInv
  <2>5. fresh[d] => QuietAt(d)'
    BY <2>1, <2>2 DEF QuietAt, EndsWithNewline, Early
  <2>6. QuietInv'
    BY <2>2, <2>5 DEF QuietInv
  <2> QED BY <2>4, <2>6
<1> QED BY <1>1, <1>2

\* The second read, and the end of the copy.
LEMMA ReadsStayQuiet ==
  ASSUME Types, JobInv, RaceInv, QuietInv, ParseShard \/ EndCopy, ~Refuse
  PROVE  RaceInv' /\ QuietInv'
<1>1. PICK d \in Division : d = job.div
  BY DEF JobInv, ParseShard, EndCopy
<1>2. /\ job.pc # "idle" /\ UNCHANGED <<rules, source, shard, text, seg, tmp, run, fresh, box>>
      /\ \/ /\ job.pc = "parse" /\ job' = [job EXCEPT !.pc = "check", !.log = shard[d].log]
         \/ /\ job.pc = "copy" /\ job.todo = {} /\ job' = [job EXCEPT !.pc = "shard"]
  BY <1>1 DEF ParseShard, EndCopy, Step, producer, live
<1>3. /\ job'.div = d /\ job'.bytes = job.bytes /\ job'.todo = job.todo /\ job'.met = job.met
      /\ job'.pc \in Early <=> job.pc \in Early
      /\ \/ job.pc = "parse" /\ job'.pc = "check" /\ job'.log = shard[d].log
         \/ job.pc = "copy" /\ job'.pc = "shard" /\ job'.log = job.log
  BY <1>1, <1>2 DEF Types, JobOf, Early
<1>4. ASSUME NEW p, RaceAt(d, p) PROVE RaceAt(d, p)'
  BY <1>2, <1>3, <1>4 DEF RaceAt, Bundled, Ahead, Past, Carried
<1>5. RaceInv'
  BY <1>1, <1>2, <1>3, <1>4 DEF RaceInv
<1>6. MirrorFiles(d)' = MirrorFiles(d) /\ \A n \in MirrorFiles(d) : Content(n)' = Content(n)
  BY <1>2, MirrorStays
<1>7. job.pc = "copy" => (Shippable' <=> Shippable)
  BY <1>1, <1>2, <1>3 DEF Shippable
<1>8. Rest(d, "copy") = {} /\ Rest(d, "shard")' = {} /\ (job'.pc = "shard" => Rest(d, job.pc)' = Rest(d, "shard"))
  BY <1>2, <1>3 DEF Rest
<1>9. ASSUME QuietAt(d) PROVE QuietAt(d)'
  <2>1. CASE job.pc = "parse"
    BY <1>2, <1>3, <1>9, <2>1 DEF QuietAt, Early
  <2>2. CASE job.pc = "copy"
    <3>1. Rest(d, job.pc)' = {} /\ Rest(d, job.pc) = {}
      BY <1>3, <2>2 DEF Rest
    <3> QED BY <1>2, <1>3, <1>6, <1>7, <1>9, <2>2, <3>1 DEF QuietAt, Early
  <2> QED BY <1>2, <2>1, <2>2
<1>10. QuietInv'
  BY <1>1, <1>2, <1>3, <1>9 DEF QuietInv
<1> QED BY <1>5, <1>10

\* The list of files.
LEMMA ListStaysQuiet ==
  ASSUME Types, JobInv, RaceInv, QuietInv, CheckAndList, ~Refuse
  PROVE  RaceInv' /\ QuietInv'
<1>1. PICK d \in Division : d = job.div
  BY DEF JobInv, CheckAndList
<1>2. /\ job.pc = "check" /\ UNCHANGED <<rules, source, shard, text, seg, tmp, run, fresh>> /\ Shippable
      /\ job' = [job EXCEPT !.pc = "copy", !.todo = MirrorFiles(d)]
      /\ box' = [box EXCEPT ![d] = With(box[d], Subtree(d), Bad)]
  BY <1>1 DEF CheckAndList, Write, producer, live
<1>3. /\ job'.div = d /\ job'.bytes = job.bytes /\ job'.todo = MirrorFiles(d) /\ job'.met = job.met
      /\ job'.pc = "copy" /\ job'.log = job.log
  BY <1>1, <1>2 DEF Types, JobOf
<1>4. DOMAIN box'[d] = {Subtree(d)}
  <2>1. box[d] = Empty /\ DOMAIN Empty = {}
    BY <1>1, <1>2 DEF JobInv, Empty
  <2>2. box'[d] = With(box[d], Subtree(d), Bad)
    BY <1>2 DEF Types
  <2> QED BY <2>1, <2>2 DEF With
<1>5. ASSUME NEW p \in source[d], RaceAt(d, p) PROVE RaceAt(d, p)'
  <2>1. p \in Path
    BY DEF Types
  <2>2. Bundled(p)' = Bundled(p) /\ (Ahead(d, p)' <=> Ahead(d, p)) /\ (Past(d, p)' <=> Past(d, p))
    BY <1>2, <1>3 DEF Bundled, Ahead, Past
  <2>3. Text(d, p) \notin DOMAIN box'[d]
    BY <1>4, <2>1, SidecarFirst
  <2>4. ASSUME Bundled(p) # None, ~Past(d, p) PROVE Segments(d, p) \in job'.todo
    <3>1. text[d][p] = Bundled(p) /\ seg[d][p] = Bundled(p)
      BY <1>5, <2>4 DEF RaceAt, Past
    <3>2. Segments(d, p) \in MirrorFiles(d)
      BY <2>1, <2>4, <3>1 DEF MirrorFiles
    <3> QED BY <1>3, <3>2
  <2> QED BY <1>2, <1>3, <1>5, <2>2, <2>3, <2>4 DEF RaceAt
<1>6. RaceInv'
  BY <1>1, <1>2, <1>3, <1>5 DEF RaceInv
<1>7. MirrorFiles(d)' = MirrorFiles(d)
  BY <1>2, MirrorStays
<1>8. Shippable'
  BY <1>1, <1>2, <1>3 DEF Shippable
<1>9. ASSUME QuietAt(d) PROVE QuietAt(d)'
  <2>1. Rest(d, job.pc)' = {}
    BY <1>3 DEF Rest
  <2> QED BY <1>2, <1>3, <1>4, <1>7, <1>8, <1>9, <2>1 DEF QuietAt
<1>10. QuietInv'
  BY <1>1, <1>2, <1>3, <1>9 DEF QuietInv
<1> QED BY <1>6, <1>10

\* The copy of a file.
LEMMA CopyStaysQuiet ==
  ASSUME Types, JobInv, RaceInv, QuietInv, CopyFile, ~Refuse
  PROVE  RaceInv' /\ QuietInv'
<1> DEFINE name == First(job.todo)
           c == Content(name)
<1>1. PICK d \in Division : d = job.div
  BY DEF JobInv, CopyFile
<1>2. /\ job.pc = "copy" /\ UNCHANGED <<rules, source, shard, text, seg, tmp, run, fresh>>
      /\ job.todo # {} /\ name \in MirrorFiles(d) /\ job' = [job EXCEPT !.todo = @ \ {name}]
      /\ box' = [box EXCEPT ![d] = With(box[d], name, c)]
  BY <1>1 DEF CopyFile, Write, producer, live
<1>3. job.todo \in SUBSET FileName
  BY DEF Types, JobOf
<1>4. ASSUME NEW p \in Path, name = Text(d, p) PROVE Segments(d, p) \notin job.todo
  BY <1>2, <1>3, <1>4, CopiedInOrder
<1>5. /\ \A p \in Path : name = Text(d, p) => c = <<"text", text[d][p]>>
      /\ \A p \in Path : name = Segments(d, p) => c = <<"segments", seg[d][p]>>
  BY DEF Content, Text, Segments
<1> HIDE DEF name
<1>6. /\ job'.div = d /\ job'.bytes = job.bytes /\ job'.todo = job.todo \ {name} /\ job'.met = job.met
      /\ job'.pc = "copy" /\ job'.log = job.log
  BY <1>1, <1>2 DEF Types, JobOf
<1> HIDE DEF c
<1>7. /\ DOMAIN box'[d] = DOMAIN box[d] \cup {name} /\ box'[d][name] = c
      /\ \A m \in DOMAIN box[d] : m # name => box'[d][m] = box[d][m]
  <2>1. box'[d] = With(box[d], name, c)
    BY <1>2 DEF Types
  <2> QED BY <2>1 DEF With
<1>8. ASSUME NEW p \in source[d], RaceAt(d, p) PROVE RaceAt(d, p)'
  <2>1. p \in Path /\ Segments(d, p) # Text(d, p)
    <3>1. p \in Path
      BY DEF Types
    <3> QED BY <3>1, SidecarFirst
  <2>2. Bundled(p)' = Bundled(p) /\ (Ahead(d, p)' <=> Ahead(d, p)) /\ (Past(d, p)' <=> Past(d, p))
    BY <1>2, <1>6 DEF Bundled, Ahead, Past
  <2>3. Carried(d, p) /\ name # Segments(d, p) => Carried(d, p)'
    BY <1>7, <2>2 DEF Carried
  <2>4. name = Segments(d, p) /\ ~Past(d, p) => Carried(d, p)'
    <3>1. ~Past(d, p) => seg[d][p] = Bundled(p)
      BY <1>8 DEF RaceAt, Past
    <3> QED BY <1>5, <1>7, <2>1, <2>2, <3>1 DEF Carried
  <2>5. ASSUME Bundled(p) # None PROVE Segments(d, p) \in job'.todo \/ Carried(d, p)' \/ Past(d, p)'
    <3>1. Segments(d, p) \in job.todo \/ Carried(d, p) \/ Past(d, p)
      BY <1>2, <1>8, <2>5 DEF RaceAt, Early
    <3> QED BY <1>6, <2>2, <2>3, <2>4, <3>1
  <2>6. ASSUME Bundled(p) # None, Text(d, p) \in DOMAIN box'[d], box'[d][Text(d, p)] = <<"text", Bundled(p)>>
        PROVE  Carried(d, p)' /\ Segments(d, p) \notin job'.todo
    <3>1. CASE name = Text(d, p)
      <4>1. text[d][p] = Bundled(p)
        BY <1>5, <1>7, <2>1, <2>6, <3>1
      <4>2. Segments(d, p) \notin job.todo /\ Carried(d, p)
        BY <1>2, <1>4, <1>8, <2>1, <2>6, <3>1, <4>1 DEF RaceAt, Past, Early
      <4> QED BY <1>6, <2>1, <2>3, <3>1, <4>2
    <3>2. CASE name # Text(d, p)
      <4>1. Text(d, p) \in DOMAIN box[d] /\ box[d][Text(d, p)] = <<"text", Bundled(p)>>
        BY <1>7, <2>6, <3>2
      <4>2. Segments(d, p) \notin job.todo /\ Carried(d, p)
        BY <1>2, <1>8, <2>6, <4>1 DEF RaceAt, Early
      <4>3. name \in job.todo
        <5>1. IsFiniteSet(job.todo)
          BY <1>3, HandoffAssumption, FileNamesAreFinite, FS_Subset
        <5> QED BY <1>2, <1>3, <5>1, FirstIsFirst DEF name
      <4> QED BY <1>6, <2>3, <4>2, <4>3
    <3> QED BY <3>1, <3>2
  <2> QED BY <1>2, <1>6, <1>8, <2>2, <2>5, <2>6 DEF RaceAt
<1>9. RaceInv'
  BY <1>1, <1>2, <1>6, <1>8 DEF RaceInv
<1>10. MirrorFiles(d)' = MirrorFiles(d) /\ \A n \in MirrorFiles(d) : Content(n)' = Content(n)
  BY <1>2, MirrorStays
<1>11. Shippable' <=> Shippable
  BY <1>1, <1>2, <1>6 DEF Shippable
<1>12. ASSUME QuietAt(d) PROVE QuietAt(d)'
  <2>1. Rest(d, job.pc)' = {} /\ Rest(d, job.pc) = {}
    BY <1>2, <1>6 DEF Rest
  <2>2. /\ job.todo \subseteq MirrorFiles(d) /\ Shippable
        /\ DOMAIN box[d] = {Subtree(d)} \cup (MirrorFiles(d) \ job.todo)
        /\ \A n \in MirrorFiles(d) \ job.todo : box[d][n] = Content(n)
    BY <1>2, <1>12, <2>1 DEF QuietAt, Early
  <2>3. DOMAIN box'[d] = {Subtree(d)} \cup (MirrorFiles(d) \ job'.todo)
    BY <1>2, <1>6, <1>7, <2>2
  <2>4. ASSUME NEW n \in MirrorFiles(d) \ job'.todo PROVE box'[d][n] = Content(n)
    BY <1>6, <1>7, <2>2 DEF c
  <2> QED BY <1>2, <1>6, <1>10, <1>11, <1>12, <2>1, <2>2, <2>3, <2>4 DEF QuietAt
<1>13. QuietInv'
  BY <1>1, <1>2, <1>6, <1>12 DEF QuietInv
<1> QED BY <1>9, <1>13

\* The files that follow the mirror.
LEMMA RestStaysQuiet ==
  ASSUME Types, JobInv, RaceInv, QuietInv, WriteRest
  PROVE  RaceInv' /\ QuietInv'
<1>1. PICK d \in Division : d = job.div /\ job.todo = {} /\ job.pc # "idle"
  BY DEF JobInv, WriteRest
<1>2. PICK next \in BundlePc, name \in {Shard(d), Formats, Converters, Checksums, Descriptor} :
         /\ next \notin Early \cup {"copy"} /\ job.pc \notin Early \cup {"copy"}
         /\ Rest(d, next) = Rest(d, job.pc) \cup {name}
         /\ Write(name, RestContent(d, name)) /\ Step(next)
  BY <1>1, RestSteps, Zenon
<1>3. /\ job' = [job EXCEPT !.pc = next]
      /\ UNCHANGED <<rules, source, shard, text, seg, tmp, run, fresh>>
      /\ box' = [box EXCEPT ![d] = With(box[d], name, RestContent(d, name))]
  BY <1>1, <1>2 DEF Step, Write, producer, live
<1>4. /\ job'.div = d /\ job'.bytes = job.bytes /\ job'.todo = {} /\ job'.met = job.met
      /\ job'.pc = next /\ job'.log = job.log
  BY <1>1, <1>3 DEF Types, JobOf
<1>5. /\ DOMAIN box'[d] = DOMAIN box[d] \cup {name}
      /\ \A m \in DOMAIN box[d] : m # name => box'[d][m] = box[d][m]
  <2>1. box'[d] = With(box[d], name, RestContent(d, name))
    BY <1>3 DEF Types
  <2> QED BY <2>1 DEF With
<1>6. name[1] # "mirror"
  BY NamesDiffer
<1>7. ASSUME NEW p \in source[d], RaceAt(d, p) PROVE RaceAt(d, p)'
  <2>1. name \notin {Segments(d, p), Text(d, p)}
    <3>1. p \in Path
      BY DEF Types
    <3> QED BY <1>6, <3>1, SidecarFirst
  <2>2. Bundled(p)' = Bundled(p) /\ (Ahead(d, p)' <=> Ahead(d, p)) /\ (Past(d, p)' <=> Past(d, p))
    BY <1>3, <1>4 DEF Bundled, Ahead, Past
  <2>3. Carried(d, p) => Carried(d, p)'
    BY <1>5, <2>1, <2>2 DEF Carried
  <2> QED BY <1>1, <1>2, <1>3, <1>4, <1>5, <1>7, <2>1, <2>2, <2>3 DEF RaceAt
<1>8. RaceInv'
  BY <1>1, <1>3, <1>4, <1>7 DEF RaceInv
<1>9. MirrorFiles(d)' = MirrorFiles(d) /\ \A n \in MirrorFiles(d) : Content(n)' = Content(n)
  BY <1>3, MirrorStays
<1>10. Shippable' <=> Shippable
  BY <1>1, <1>3, <1>4 DEF Shippable
<1>11. ASSUME QuietAt(d) PROVE QuietAt(d)'
  <2>1. Rest(d, job.pc)' = Rest(d, job.pc) \cup {name}
    <3>1. Rest(d, job.pc)' = Rest(d, next)
      BY <1>4 DEF Rest
    <3> QED BY <1>2, <3>1
  <2>2. \A n \in MirrorFiles(d) : n[1] = "mirror"
    BY MirrorFilesAreThere
  <2>3. /\ DOMAIN box[d] = Rest(d, job.pc) \cup {Subtree(d)} \cup MirrorFiles(d) /\ Shippable
        /\ \A n \in MirrorFiles(d) : box[d][n] = Content(n)
        /\ fresh[d] /\ job.bytes = shard[d] /\ shard[d].log # <<>> /\ job.log = shard[d].log
    BY <1>1, <1>2, <1>11 DEF QuietAt, Early
  <2>4. DOMAIN box'[d] = Rest(d, job.pc)' \cup {Subtree(d)} \cup MirrorFiles(d)
    BY <1>5, <2>1, <2>3
  <2>5. \A n \in MirrorFiles(d) : box'[d][n] = Content(n)
    BY <1>5, <1>6, <2>2, <2>3
  <2> QED BY <1>3, <1>4, <1>9, <1>10, <2>3, <2>4, <2>5 DEF QuietAt
<1>12. QuietInv'
  BY <1>1, <1>3, <1>4, <1>11 DEF QuietInv
<1> QED BY <1>8, <1>12

\* Every step but the run's.
LEMMA BundleStaysQuiet ==
  ASSUME Types, RunInv, JobInv, RaceInv, QuietInv,
         \/ \E d \in Division : ReadBytes(d) \/ Damage(d) \/ \E p \in Path : Delete(d, p)
         \/ Bump
         \/ ParseShard \/ CheckAndList \/ CopyFile \/ EndCopy \/ WriteRest \/ VerifyOwn \/ KillBundle
  PROVE  RaceInv' /\ QuietInv'
<1>1. VerifyOwn \/ KillBundle \/ Refuse => job'.pc = "idle"
  BY DEF VerifyOwn, KillBundle, Refuse, NoJob
<1>2. Bump \/ (\E d \in Division : Damage(d) \/ \E p \in Path : Delete(d, p)) => job'.pc = "idle"
  <2>1. job.div = 0 => job.pc = "idle"
    BY DEF JobInv, Division
  <2>2. \A d \in Division : Damage(d) => job.div = 0 /\ job' = job
    BY DEF Damage
  <2>3. \A d \in Division, p \in Path : Delete(d, p) => job.pc = "idle" /\ job' = job
    BY DEF Delete, bundler
  <2>4. Bump => job.pc = "idle" /\ job' = job
    BY DEF Bump, bundler
  <2> QED BY <2>1, <2>2, <2>3, <2>4
<1> QED BY <1>1, <1>2, IdleIsFree, StartsQuiet, ReadsStayQuiet, ListStaysQuiet, CopyStaysQuiet,
           RestStaysQuiet

-----------------------------------------------------------------------------
(* The invariant *)

\* A merge, and a step that changes nothing, leave all of it alone.
LEMMA MergeKeepsTheRest ==
  ASSUME RunInv, JobInv, BoxInv, RaceInv, QuietInv, UNCHANGED <<rules, producer, bundler>>
  PROVE  RunInv' /\ JobInv' /\ BoxInv' /\ RaceInv' /\ QuietInv'
<1>1. UNCHANGED <<rules, source, shard, text, seg, tmp, run, runs, fresh, job, box, whole, lost, result>>
  BY DEF producer, live, bundler
<1>2. RunInv'
  BY RunInvStays
<1>3. JobInv'
  <2>1. \A d, n : RestContent(d, n)' = RestContent(d, n)
    BY <1>1 DEF RestContent
  <2>2. \A d : Accepted(d)' = Accepted(d)
    BY <1>1 DEF Accepted
  <2>3. \A d, pc : Rest(d, pc)' = Rest(d, pc)
    BY DEF Rest
  <2> QED BY <1>1, <2>1, <2>2, <2>3 DEF JobInv
<1>4. BoxInv'
  BY <1>1, BoxStays DEF BoxInv
<1>5. RaceInv'
  <2>1. \A d, p : RaceAt(d, p)' <=> RaceAt(d, p)
    BY <1>1 DEF RaceAt, Ahead, Bundled, Past, Carried
  <2> QED BY <1>1, <2>1 DEF RaceInv
<1>6. QuietInv'
  <2>1. \A d : QuietAt(d)' <=> QuietAt(d)
    BY <1>1 DEF QuietAt, MirrorFiles, Content, Shippable, Rest
  <2> QED BY <1>1, <2>1 DEF QuietInv
<1> QED BY <1>2, <1>3, <1>4, <1>5, <1>6

\* Every step keeps the invariant.
LEMMA InvariantIsInductive ==
  ASSUME IInv, [Next]_vars
  PROVE  IInv'
<1> USE DEF IInv
<1>1. ASSUME RunStep PROVE IInv'
  BY <1>1, RunKeepsTypes, RunKeepsRunInv, RunKeepsJobInv, RunKeepsBoxInv, RunKeepsRaceInv, RunKeepsQuietInv
<1>2. ASSUME \/ \E d \in Division : ReadBytes(d) \/ Damage(d) \/ \E p \in Path : Delete(d, p)
             \/ Bump
             \/ ParseShard \/ CheckAndList \/ CopyFile \/ EndCopy \/ WriteRest \/ VerifyOwn \/ KillBundle
      PROVE  IInv'
  <2>1. Types' /\ JobInv'
    BY <1>2, BundleKeepsTypes, BundleKeepsJobInv
  <2>2. BoxInv'
    BY <1>2, <2>1, BundleKeepsBoxInv
  <2>3. RaceInv' /\ QuietInv'
    BY <1>2, BundleStaysQuiet
  <2>4. RunInv'
    <3>1. \/ Bump \/ \E d \in Division, p \in Path : Delete(d, p)
          \/ UNCHANGED <<rules, producer>>
      BY <1>2 DEF ReadBytes, Damage, ParseShard, CheckAndList, CopyFile, EndCopy, WriteRest, VerifyOwn,
                  KillBundle, Step, Refuse
    <3> QED BY <3>1, BetweenRuns, RunInvStays
  <2> QED BY <2>1, <2>2, <2>3, <2>4
<1>3. ASSUME \/ \E d \in Division : VerifyInput(d)
             \/ StartMerge \/ CheckInputs \/ CopyInputs \/ WriteDescriptor \/ VerifyMerged
      PROVE  IInv'
  BY <1>3, MergeKeepsTypes, MergeKeepsTheRest
<1>4. ASSUME UNCHANGED vars PROVE IInv'
  <2>1. Types'
    BY <1>4 DEF vars, producer, live, bundler, merger, Types
  <2>2. UNCHANGED <<rules, producer, bundler>>
    BY <1>4 DEF vars
  <2> QED BY <2>1, <2>2, MergeKeepsTheRest
<1> QED BY <1>1, <1>2, <1>3, <1>4 DEF Next

\* A division that was bundled before holds one record, of a failure.
LEMMA ShippedLog ==
  /\ 1 \in Path /\ FailedLog \in Bytes /\ FailedLog.log \in Seq(Record) /\ FailedLog.log # <<>>
  /\ Recorded(FailedLog.log) = {1} /\ Bearing(FailedLog.log) = {}
  /\ Named(FailedLog.log, 1) = None /\ LastOf(FailedLog.log, 1).rules = 1
<1> DEFINE r == Line(1, "failed", 1, None)
           log == <<r>>
<1>1. 1 \in Path /\ 1 \in 1..MaxRules
  BY HandoffAssumption DEF Path
<1>2. r \in Record
  BY <1>1, LineIsRecord DEF Status
<1>3. r.path = 1 /\ r.rules = 1 /\ r.text = None
  BY DEF Line
<1>4. FailedLog.log = log /\ FailedLog.tail = "lf" /\ FailedLog = [log |-> log, tail |-> "lf"]
  BY DEF FailedLog
<1> HIDE DEF r
<1>5. log \in Seq(Record) /\ DOMAIN log = {1} /\ log[1] = r /\ log # <<>>
  <2>1. log \in Seq(Record) /\ DOMAIN log = 1..1 /\ log[1] = r
    BY <1>2
  <2> QED BY <2>1
<1> HIDE DEF log
<1>6. FailedLog \in Bytes
  BY <1>4, <1>5 DEF Bytes
<1>7. Recorded(log) = {1}
  BY <1>3, <1>5 DEF Recorded
<1>8. LastOf(log, 1) = r
  BY <1>2, <1>3, <1>5, LastOfIs
<1>9. Effective(log) = {r}
  BY <1>7, <1>8 DEF Effective
<1>10. Bearing(log) = {}
  BY <1>3, <1>9 DEF Bearing
<1>11. Named(log, 1) = None
  BY <1>3, <1>7, <1>8 DEF Named
<1> QED BY <1>1, <1>3, <1>4, <1>5, <1>6, <1>7, <1>8, <1>10, <1>11

\* Its bundle is one that bundle wrote.
LEMMA ShippedBoxIsSealed ==
  ASSUME NEW d \in Division
  PROVE  LET dir == ShippedBox(d)
         IN /\ DOMAIN dir = {Subtree(d), Shard(d), Formats, Converters, Checksums, Descriptor}
            /\ IsDir(dir, d) /\ Sealed(dir, d) /\ dir[Shard(d)] = <<"shard", FailedLog>>
            /\ Desc(dir).counts[d] = Counts(FailedLog.log)
            /\ Desc(dir).coverage[d] = Coverage(FailedLog.log)
<1> DEFINE a == With(Empty, Subtree(d), Bad)
           b == With(a, Shard(d), <<"shard", FailedLog>>)
           c == With(b, Formats, <<"rules", 1>>)
           e == With(c, Converters, <<"rules", 1>>)
           f == With(e, Checksums, <<"checksums", ChecksumLines(e)>>)
           desc == DescriptorFor(d, FailedLog, FailedLog.log, e)
           dir == With(f, Descriptor, <<"descriptor", desc>>)
<1>1. ShippedBox(d) = dir
  BY DEF ShippedBox
<1>2. IsDir(Empty, d) /\ DOMAIN Empty = {}
  BY DEF IsDir, Empty
<1>3. Shard(d) \in FileName /\ Formats \in FileName /\ Converters \in FileName
  BY NamesDiffer
<1>4. DOMAIN a = {Subtree(d)} /\ a[Subtree(d)] = Bad /\ IsDir(a, d)
  <2>1. IsDir(a, d)
    BY <1>2, WritesStayInside
  <2>2. DOMAIN With(Empty, Subtree(d), Bad) = DOMAIN Empty \cup {Subtree(d)}
        /\ With(Empty, Subtree(d), Bad)[Subtree(d)] = Bad
    BY DEF With
  <2> QED BY <1>2, <2>1, <2>2
<1> HIDE DEF a
<1>5. /\ DOMAIN b = {Subtree(d), Shard(d)} /\ b[Subtree(d)] = Bad /\ b[Shard(d)] = <<"shard", FailedLog>>
      /\ IsDir(b, d)
  <2>1. IsDir(b, d)
    BY <1>3, <1>4, WritesStayInside
  <2> QED BY <1>4, <2>1, NamesDiffer DEF With
<1> HIDE DEF b
<1>6. /\ DOMAIN c = {Subtree(d), Shard(d), Formats} /\ c[Subtree(d)] = Bad
      /\ c[Shard(d)] = <<"shard", FailedLog>> /\ IsDir(c, d)
  <2>1. IsDir(c, d)
    BY <1>3, <1>5, WritesStayInside
  <2> QED BY <1>5, <2>1, NamesDiffer DEF With
<1> HIDE DEF c
<1>7. /\ DOMAIN e = {Subtree(d), Shard(d), Formats, Converters} /\ e[Subtree(d)] = Bad
      /\ e[Shard(d)] = <<"shard", FailedLog>> /\ IsDir(e, d)
  <2>1. IsDir(e, d)
    BY <1>3, <1>6, WritesStayInside
  <2> QED BY <1>6, <2>1, NamesDiffer DEF With
<1> HIDE DEF e
<1>8. /\ DOMAIN f = {Subtree(d), Shard(d), Formats, Converters, Checksums} /\ f[Subtree(d)] = Bad
      /\ f[Shard(d)] = <<"shard", FailedLog>> /\ f[Checksums] = <<"checksums", ChecksumLines(e)>>
      /\ IsDir(f, d) /\ ChecksumLines(f) = ChecksumLines(e)
  <2>1. IsDir(f, d)
    BY <1>7, WritesStayInside
  <2>2. ChecksumLines(f) = ChecksumLines(e)
    BY <1>7, RootIsUnlisted, NamesDiffer
  <2> QED BY <1>7, <2>1, <2>2, NamesDiffer DEF With
<1> HIDE DEF f, desc
<1>9. /\ DOMAIN dir = {Subtree(d), Shard(d), Formats, Converters, Checksums, Descriptor}
      /\ dir[Subtree(d)] = Bad /\ dir[Shard(d)] = <<"shard", FailedLog>>
      /\ dir[Checksums] = <<"checksums", ChecksumLines(e)>> /\ dir[Descriptor] = <<"descriptor", desc>>
      /\ IsDir(dir, d) /\ ChecksumLines(dir) = ChecksumLines(e)
  <2>1. IsDir(dir, d)
    BY <1>8, WritesStayInside
  <2>2. ChecksumLines(dir) = ChecksumLines(f)
    BY <1>8, RootIsUnlisted, NamesDiffer
  <2> QED BY <1>8, <2>1, <2>2, NamesDiffer DEF With
<1> HIDE DEF dir
<1>10. desc = DescriptorFor(d, FailedLog, FailedLog.log, dir)
  BY <1>9 DEF desc, DescriptorFor
<1>11. Sealed(dir, d)
  <2>1. IsPrefix(FailedLog.log, FailedLog.log)
    BY ShippedLog, PrefixOfItself
  <2> QED BY <1>9, <1>10, <2>1, ShippedLog, FinishedIsSealed
<1>12. Desc(dir) = desc
  BY <1>9 DEF Desc
<1>13. desc.counts[d] = Counts(FailedLog.log) /\ desc.coverage[d] = Coverage(FailedLog.log)
  BY <1>10 DEF DescriptorFor
<1> QED BY <1>1, <1>9, <1>11, <1>12, <1>13

\* The invariant holds at the start.
LEMMA InvariantAtStart ==
  ASSUME Init
  PROVE  IInv
<1>1. /\ rules = 1 /\ source \in [Division -> SUBSET Path] /\ run = NoRun /\ runs = 0 /\ job = NoJob
      /\ shard = [d \in Division |-> IF d \in Shipped THEN FailedLog ELSE [log |-> <<>>, tail |-> "lf"]]
      /\ text = [d \in Division |-> [p \in Path |-> None]] /\ seg = text
      /\ tmp = [d \in Division |-> FALSE] /\ fresh = [d \in Division |-> d \in Shipped]
      /\ box = [d \in Division |-> IF d \in Shipped THEN ShippedBox(d) ELSE Empty]
      /\ whole = fresh /\ lost = [d \in Division |-> Empty]
      /\ result = [d \in Division |-> IF d \in Shipped THEN "ok" ELSE "none"]
      /\ merging = NoMerge /\ merged = "none" /\ used = 0
      /\ \A d \in Shipped : source[d] = {1}
  BY HandoffAssumption DEF Init
<1>2. [log |-> <<>>, tail |-> "lf"] \in Bytes
  BY EmptySeq DEF Bytes
<1>3. Types
  <2>1. 1 \in 1..MaxRules /\ 0 \in 0..MaxRuns /\ 0 \in 0..MaxMishaps /\ 0 \in 0..ND /\ 0 \in 0..NP
    BY HandoffAssumption
  <2>2. run \in RunOf
    BY <1>1, <2>1 DEF NoRun, RunOf, RunPc
  <2>3. shard \in [Division -> Bytes]
    BY <1>1, <1>2, ShippedLog
  <2>4. text \in [Division -> [Path -> TextValue \cup {None}]]
    BY <1>1
  <2>5. /\ tmp \in [Division -> BOOLEAN] /\ fresh \in [Division -> BOOLEAN]
        /\ result \in [Division -> {"none", "ok", "okCrowded", "refused", "refusedQuiet"}]
        /\ box = [d \in Division |-> box[d]] /\ lost = [d \in Division |-> lost[d]]
    BY <1>1
  <2>6. merging.pc = "idle"
    BY <1>1 DEF NoMerge
  <2> QED BY <1>1, <2>1, <2>2, <2>3, <2>4, <2>5, <2>6, NoJobIsJob DEF Types
<1>4. RunInv
  <2>1. 0 \notin Division
    BY DEF Division
  <2>2. ASSUME NEW d \in Division, fresh[d]
        PROVE  shard[d].tail = "lf" /\ \A p \in source[d] : Settled(d, p)
    <3>1. d \in Shipped /\ shard[d] = FailedLog /\ source[d] = {1}
      BY <1>1, <2>2
    <3>2. FailedLog.tail = "lf"
      BY DEF FailedLog
    <3> QED BY <1>1, <3>1, <3>2, ShippedLog DEF Settled
  <2> QED BY <1>1, <2>1, <2>2 DEF RunInv, NoRun, Busy
<1>5. JobInv /\ RaceInv /\ QuietInv
  BY <1>1 DEF JobInv, RaceInv, QuietInv, NoJob
<1>6. ASSUME NEW d \in Division, d \notin Shipped PROVE BoxOf(d)
  <2>1. box[d] = Empty /\ ~whole[d] /\ lost[d] = Empty /\ result[d] = "none"
    BY <1>1, <1>6
  <2>2. IsDir(Empty, d) /\ DOMAIN Empty = {}
    BY DEF IsDir, Empty
  <2> QED BY <2>1, <2>2 DEF BoxOf, Accepted
<1>7. ASSUME NEW d \in Division, d \in Shipped PROVE BoxOf(d)
  <2> DEFINE dir == ShippedBox(d)
  <2>1. box[d] = dir /\ whole[d] /\ lost[d] = Empty /\ shard[d] = FailedLog /\ source[d] = {1}
    BY <1>1, <1>7
  <2>2. Packaged(d) = dir
    BY <2>1 DEF Packaged
  <2>3. /\ DOMAIN dir = {Subtree(d), Shard(d), Formats, Converters, Checksums, Descriptor}
        /\ IsDir(dir, d) /\ Sealed(dir, d) /\ dir[Shard(d)] = <<"shard", FailedLog>>
        /\ Desc(dir).counts[d] = Counts(FailedLog.log)
        /\ Desc(dir).coverage[d] = Coverage(FailedLog.log)
    BY ShippedBoxIsSealed
  <2> HIDE DEF dir
  <2>4. Moment(d)
    <3>1. dir[Shard(d)][2].log = FailedLog.log
      BY <2>3
    <3> QED BY <2>1, <2>2, <2>3, <3>1, ShippedLog, PrefixOfItself DEF Moment
  <2>5. Sidecars(d)
    <3>1. Text(d, 1) \notin DOMAIN dir
      BY <2>3 DEF Text, Subtree, Shard, Formats, Converters, Checksums, Descriptor
    <3> QED BY <2>1, <2>2, <3>1 DEF Sidecars
  <2> QED BY <2>1, <2>2, <2>3, <2>4, <2>5, UntouchedIsSpoilt DEF BoxOf
<1>8. BoxInv
  BY <1>6, <1>7 DEF BoxInv
<1> QED BY <1>3, <1>4, <1>5, <1>8 DEF IInv

\* The invariant holds in every reachable state.
THEOREM InvariantHolds == Spec => []IInv
BY InvariantAtStart, InvariantIsInductive, PTL DEF Spec

-----------------------------------------------------------------------------
(* The properties *)

\* What verifies, damaged or not, is what was packaged: the descriptor holds
\* the checksums, those hold every file, and the counts hold the descriptor.
LEMMA VerifiedIsUndamaged ==
  ASSUME NEW dir, NEW packed, NEW d \in Division, IsDir(dir, d), IsDir(packed, d), Sealed(packed, d),
         Spoilt(dir, packed, d), Verifies(dir)
  PROVE  dir = packed
<1> DEFINE lines == ChecksumLines(packed)
           bytes == packed[Shard(d)][2]
<1>1. /\ {Descriptor, Checksums, Shard(d), Subtree(d)} \subseteq DOMAIN packed
      /\ packed[Subtree(d)] = Bad /\ bytes \in Bytes /\ packed[Shard(d)] = <<"shard", bytes>>
      /\ packed[Checksums] = <<"checksums", lines>> /\ packed[Descriptor] = <<"descriptor", Desc(packed)>>
      /\ Shaped(Desc(packed), d) /\ Desc(packed).checksums = lines
      /\ \A s \in Status : Lines(bytes.log, s) <= Desc(packed).counts[d][s]
  BY DEF Sealed
<1>2. \A n \in DOMAIN dir : \/ n \in DOMAIN packed /\ dir[n] = packed[n]
                            \/ dir[n] = Bad /\ n # Subtree(d)
                            \/ /\ n = Descriptor /\ dir[n] = <<"descriptor", Desc(dir)>>
                               /\ Recounted(Desc(dir), Desc(packed), d)
  BY DEF Spoilt
<1>3. /\ Descriptor \in DOMAIN dir /\ Is("descriptor", dir[Descriptor])
      /\ Is("checksums", dir[Checksums])
  BY DEF Verifies, DescriptorHolds, ChainHolds
<1>4. dir[Descriptor] # Bad /\ dir[Checksums] # Bad
  BY <1>3 DEF Is, Bad
<1>5. /\ dir[Descriptor] = <<"descriptor", Desc(dir)>> /\ Shaped(Desc(dir), d)
      /\ Desc(dir).checksums = lines
      /\ Desc(packed).counts[d]["failed"] <= Desc(dir).counts[d]["failed"]
      /\ Desc(dir).counts[d]["failed"] = Desc(packed).counts[d]["failed"] => Desc(dir) = Desc(packed)
  <2>1. CASE dir[Descriptor] = packed[Descriptor]
    <3>1. Desc(dir) = Desc(packed)
      BY <2>1 DEF Desc
    <3>2. Desc(packed).counts[d]["failed"] \in Nat
      BY <1>1 DEF Shaped, Status
    <3> QED BY <1>1, <2>1, <3>1, <3>2
  <2>2. CASE dir[Descriptor] = <<"descriptor", Desc(dir)>> /\ Recounted(Desc(dir), Desc(packed), d)
    BY <1>1, <2>2 DEF Recounted
  <2> QED BY <1>2, <1>3, <1>4, <2>1, <2>2
<1>6. Divisions(dir) = {d}
  <2>1. Desc(dir).divisions = <<d>>
    BY <1>5 DEF Shaped
  <2> QED BY <2>1 DEF Divisions
<1>7. {Descriptor, Checksums, Formats, Converters, Shard(d), Subtree(d)} \subseteq DOMAIN dir
  BY <1>6 DEF Verifies, LayoutHolds
<1>8. dir[Subtree(d)] = packed[Subtree(d)]
  BY <1>2, <1>7, NamesDiffer
<1>9. dir[Checksums] = packed[Checksums] /\ dir[Checksums][2] = lines
  <2>1. dir[Checksums] = packed[Checksums]
    BY <1>2, <1>4, <1>7, NamesDiffer
  <2> QED BY <1>1, <2>1
<1>10. Files(dir) = Files(packed) /\ \A n \in Files(dir) : dir[n] = packed[n]
  <2>1. /\ {lines[i].name : i \in DOMAIN lines} = Files(dir)
        /\ \A i \in DOMAIN lines : dir[lines[i].name] = lines[i].hash
    BY <1>9 DEF Verifies, ChainHolds
  <2>2. /\ \A i \in DOMAIN lines : lines[i].name \in Files(packed) /\ lines[i].hash = packed[lines[i].name]
        /\ \A n \in Files(packed) : \E i \in DOMAIN lines : lines[i].name = n
    BY ChecksumLinesList
  <2> HIDE DEF lines
  <2>3. ASSUME NEW n \in Files(dir) PROVE n \in Files(packed) /\ dir[n] = packed[n]
    <3>1. PICK i \in DOMAIN lines : lines[i].name = n
      BY <2>1
    <3> QED BY <2>1, <2>2, <3>1
  <2>4. Files(packed) \subseteq Files(dir)
    BY <2>1, <2>2
  <2> QED BY <2>3, <2>4
<1>11. DOMAIN dir = DOMAIN packed
  <2>1. /\ DOMAIN dir \subseteq FileName \cup {Descriptor, Checksums, Subtree(d)}
        /\ DOMAIN packed \subseteq FileName \cup {Descriptor, Checksums, Subtree(d)}
    BY DEF IsDir
  <2>2. Files(dir) = DOMAIN dir \cap FileName /\ Files(packed) = DOMAIN packed \cap FileName
    BY FilesOfDir
  <2> HIDE DEF FileName
  <2> QED BY <1>1, <1>7, <1>10, <2>1, <2>2
<1>12. dir[Descriptor] = packed[Descriptor]
  <2>1. Shard(d) \in Files(packed)
    <3>1. Files(packed) = DOMAIN packed \cap FileName
      BY FilesOfDir
    <3> QED BY <1>1, <3>1, NamesDiffer
  <2>2. ShardOf(dir, d) = bytes
    BY <1>10, <2>1 DEF ShardOf
  <2>3. Desc(dir).counts[d] = Counts(bytes.log)
    BY <1>6, <2>2 DEF Verifies, CountsAgree
  <2>4. "failed" \in Status
    BY DEF Status
  <2>5. Desc(dir).counts[d]["failed"] = Lines(bytes.log, "failed")
    BY <2>3, <2>4 DEF Counts
  <2>6. /\ Desc(dir).counts[d]["failed"] \in Nat /\ Desc(packed).counts[d]["failed"] \in Nat
        /\ Lines(bytes.log, "failed") <= Desc(packed).counts[d]["failed"]
    BY <1>1, <1>5, <2>4 DEF Shaped
  <2>7. Desc(dir).counts[d]["failed"] = Desc(packed).counts[d]["failed"]
    BY <1>5, <2>5, <2>6
  <2> QED BY <1>1, <1>5, <2>7
<1>13. \A n \in DOMAIN dir : dir[n] = packed[n]
  <2>1. \A n \in DOMAIN dir : n \in Files(dir) \cup {Descriptor, Checksums, Subtree(d)}
    <3>1. Files(dir) = DOMAIN dir \cap FileName
      BY FilesOfDir
    <3> HIDE DEF FileName
    <3> QED BY <3>1 DEF IsDir
  <2> QED BY <1>8, <1>9, <1>10, <1>12, <2>1
<1>14. dir = [n \in DOMAIN dir |-> dir[n]] /\ packed = [n \in DOMAIN packed |-> packed[n]]
  BY DEF IsDir
<1> QED BY <1>11, <1>13, <1>14

\* The invariant implies each of the state properties.
LEMMA InvariantIsEnough ==
  ASSUME IInv
  PROVE  TypeOK /\ ShipsOneMoment /\ SidecarShips /\ VerifiedIsPackaged
<1> USE DEF IInv
<1>1. TypeOK
  <2>1. \A d \in Division : Files(box[d]) \subseteq FileName
    <3> TAKE d \in Division
    <3>1. IsDir(box[d], d)
      BY DEF BoxInv, BoxOf
    <3> HIDE DEF FileName
    <3> QED BY <3>1, FilesOfDir
  <2>2. \A d \in Division : shard[d].tail \in {"lf", "bare", "torn"} /\ shard[d].log \in Seq(Record)
    BY DEF Types, Bytes
  <2>3. \A d \in Division : \A i \in DOMAIN shard[d].log : shard[d].log[i] \in Record
    BY <2>2, ElementOfSeq, LenProperties
  <2>4. run.pc \in RunPc /\ run.todo \subseteq Path /\ run.rec \in Record \cup {None}
        /\ job.pc \in BundlePc /\ job.met \in 0..2
    BY DEF Types, RunOf, JobOf
  <2> QED BY <2>1, <2>2, <2>3, <2>4 DEF TypeOK, Types
<1>2. ShipsOneMoment
  BY DEF BoxInv, BoxOf, Moment, ShipsOneMoment
<1>3. SidecarShips
  BY DEF BoxInv, BoxOf, Sidecars, SidecarShips
<1>4. ASSUME NEW d \in Division, ~whole[d] \/ box[d] # Packaged(d) PROVE ~Verifies(box[d])
  <2>1. CASE ~whole[d]
    BY <2>1 DEF BoxInv, BoxOf, Verifies, DescriptorHolds
  <2>2. CASE whole[d]
    BY <1>4, <2>2, VerifiedIsUndamaged DEF BoxInv, BoxOf
  <2> QED BY <2>1, <2>2
<1> QED BY <1>1, <1>2, <1>3, <1>4 DEF VerifiedIsPackaged

\* Every variable keeps to its values.
THEOREM TypeCorrect == Spec => []TypeOK
BY InvariantHolds, InvariantIsEnough, PTL

\* A bundle that was reported ok is one moment of the division, whatever a
\* run appended while it was written (bundle).
THEOREM OneMomentShips == Spec => []ShipsOneMoment
BY InvariantHolds, InvariantIsEnough, PTL

\* And, when at most one run met the copy, no text of it is without its own
\* sidecar (copy_tree against write_artifact).
THEOREM SidecarsShip == Spec => []SidecarShips
BY InvariantHolds, InvariantIsEnough, PTL

\* A bundle that is unfinished or damaged does not verify (verify).
THEOREM OnlyPackagedVerifies == Spec => []VerifiedIsPackaged
BY InvariantHolds, InvariantIsEnough, PTL

-----------------------------------------------------------------------------
(* The refusal of a quiet division *)

\* In a quiet division that nothing excuses, the files of every path are what
\* its record names, under the rules of the tool.
LEMMA QuietIsSettled ==
  ASSUME Types, RunInv, NEW d \in Division, fresh[d], ~Excused(d), NEW p \in Path
  PROVE  /\ text[d][p] = Named(shard[d].log, p) /\ seg[d][p] = Named(shard[d].log, p)
         /\ p \in Recorded(shard[d].log) => LastOf(shard[d].log, p).rules = rules
<1>1. CASE p \in source[d]
  <2>1. Settled(d, p)
    BY <1>1 DEF RunInv
  <2> QED BY <2>1 DEF Settled
<1>2. CASE p \notin source[d]
  <2>1. ~Stale(d, p)
    BY DEF Excused
  <2> QED BY <1>2, <2>1 DEF Stale
<1> QED BY <1>1, <1>2

\* Such a division passes bundle's own checks.
LEMMA QuietIsShippable ==
  ASSUME Types, RunInv, NEW d \in Division, d = job.div, fresh[d], ~Excused(d), job.log = shard[d].log
  PROVE  Shippable
<1> DEFINE log == shard[d].log
<1>1. log \in Seq(Record)
  BY DEF Types, Bytes
<1>2. ASSUME NEW r \in Bearing(log) PROVE text[d][r.path] # None
  <2>1. r \in Record /\ Named(log, r.path) = r.text /\ r.text # None
    BY <1>1, BearingIsNamed
  <2>2. r.path \in Path
    BY <2>1 DEF Record
  <2> QED BY <2>1, <2>2, QuietIsSettled
<1>3. ASSUME NEW r \in Effective(log) PROVE r.rules = rules
  <2>1. r \in Record /\ r.path \in Recorded(log) /\ r = LastOf(log, r.path)
    BY <1>1, EffectiveIsLast
  <2>2. r.path \in Path
    BY <2>1 DEF Record
  <2> QED BY <2>1, <2>2, QuietIsSettled
<1> QED BY <1>2, <1>3 DEF Shippable

\* And what is written of it verifies.
LEMMA QuietVerifies ==
  ASSUME IInv, NEW d \in Division, d = job.div, job.pc = "verify", job.met = 0, ~Excused(d)
  PROVE  Verifies(box[d])
<1> DEFINE dir == box[d]
           log == shard[d].log
<1> USE DEF IInv
<1>1. /\ fresh[d] /\ job.bytes = shard[d] /\ job.log = log /\ Shippable /\ job.todo = {}
      /\ DOMAIN dir = Rest(d, "verify") \cup {Subtree(d)} \cup MirrorFiles(d)
      /\ \A n \in MirrorFiles(d) : dir[n] = Content(n)
  <2>1. QuietAt(d) /\ job.todo = {}
    BY DEF QuietInv, JobInv
  <2> QED BY <2>1 DEF QuietAt, Early
<1>2. Rest(d, "verify") = {Shard(d), Formats, Converters, Checksums, Descriptor}
  BY DEF Rest
<1>3. \A n \in Rest(d, "verify") : dir[n] = RestContent(d, n)
  BY DEF JobInv, Early
<1>4. /\ dir[Shard(d)] = <<"shard", shard[d]>> /\ dir[Formats] = <<"rules", rules>>
      /\ dir[Converters] = <<"rules", rules>> /\ dir[Checksums] = <<"checksums", ChecksumLines(dir)>>
      /\ dir[Descriptor] = <<"descriptor", DescriptorFor(d, shard[d], log, dir)>>
  BY <1>1, <1>2, <1>3, NamesDiffer DEF RestContent
<1>5. log \in Seq(Record) /\ shard[d].tail = "lf"
  BY <1>1 DEF Types, Bytes, RunInv
<1>6. /\ Desc(dir).divisions = <<d>> /\ Desc(dir).checksums = ChecksumLines(dir)
      /\ Desc(dir).counts = [e \in {d} |-> Counts(log)]
      /\ Desc(dir).coverage = [e \in {d} |-> Coverage(log)]
  <2>1. Desc(dir) = DescriptorFor(d, shard[d], log, dir)
    BY <1>4 DEF Desc
  <2> HIDE DEF dir, log
  <2> QED BY <2>1 DEF DescriptorFor
<1>7. Divisions(dir) = {d}
  BY <1>6 DEF Divisions
<1>8. ShardOf(dir, d) = shard[d]
  BY <1>4 DEF ShardOf
<1>9. ASSUME NEW p \in Path
      PROVE  /\ text[d][p] = Named(log, p) /\ seg[d][p] = Named(log, p)
  BY <1>1, QuietIsSettled
<1>10. \A n \in MirrorFiles(d) : n[1] = "mirror" /\ n[2] = d
  BY DEF MirrorFiles, Text, Segments, Leftover
<1>11. DescriptorHolds(dir)
  <2>1. Is("descriptor", dir[Descriptor]) /\ Descriptor \in DOMAIN dir
    BY <1>1, <1>2, <1>4 DEF Is
  <2>2. \A i, j \in DOMAIN <<d>> : ~(i < j)
    OBVIOUS
  <2> QED BY <1>6, <2>1, <2>2 DEF DescriptorHolds
<1>12. LayoutHolds(dir)
  BY <1>1, <1>2, <1>7, <1>10 DEF LayoutHolds
<1>13. ChainHolds(dir)
  <2>1. IsDir(dir, d)
    BY DEF BoxInv, BoxOf
  <2> DEFINE lines == ChecksumLines(dir)
  <2>2. /\ \A i \in DOMAIN lines : lines[i].name \in Files(dir) /\ lines[i].hash = dir[lines[i].name]
        /\ \A n \in Files(dir) : \E i \in DOMAIN lines : lines[i].name = n
        /\ WellFormed(lines)
    BY <2>1, ChecksumLinesList
  <2>3. Is("checksums", dir[Checksums]) /\ dir[Checksums][2] = lines /\ lines = Desc(dir).checksums
    BY <1>4, <1>6 DEF Is
  <2> HIDE DEF lines
  <2>4. {lines[i].name : i \in DOMAIN lines} = Files(dir)
    BY <2>2
  <2> QED BY <2>2, <2>3, <2>4 DEF ChainHolds
<1>14. ShardsParse(dir)
  BY <1>4, <1>5, <1>7, <1>8 DEF ShardsParse, Is
<1>15. SnapshotHolds(dir)
  <2>1. \A r \in Effective(log) : r.rules = rules
    BY <1>1 DEF Shippable
  <2> QED BY <1>4, <1>7, <1>8, <2>1 DEF SnapshotHolds, Is
<1>16. ArtifactsMatch(dir)
  <2>1. ASSUME NEW r \in Bearing(log)
        PROVE  Text(d, r.path) \in DOMAIN dir /\ dir[Text(d, r.path)] = <<"text", r.text>>
    <3>1. r.path \in Path /\ Named(log, r.path) = r.text /\ r.text # None
      BY <1>5, BearingIsNamed DEF Record
    <3>2. text[d][r.path] = r.text
      BY <1>9, <3>1
    <3>3. Text(d, r.path) \in MirrorFiles(d)
      BY <3>1, <3>2 DEF MirrorFiles
    <3>4. Content(Text(d, r.path)) = <<"text", text[d][r.path]>>
      BY DEF Content, Text
    <3> QED BY <1>1, <3>2, <3>3, <3>4
  <2> QED BY <1>7, <1>8, <2>1 DEF ArtifactsMatch
<1>17. NothingUnreferenced(dir)
  <2>1. ASSUME NEW p \in Path, Named(log, p) # None
        PROVE  \E r \in Bearing(log) : r.path = p
    <3>1. p \in Recorded(log) /\ LastOf(log, p).text # None
      BY <2>1 DEF Named
    <3>2. LastOf(log, p).path = p
      BY <1>5, <3>1, LastIsRecord
    <3> QED BY <3>1, <3>2 DEF Bearing, Effective
  <2>2. ASSUME NEW n \in MirrorFiles(d)
        PROVE  \E p \in Path : n \in {Text(d, p), Segments(d, p)} /\ Named(log, p) # None
    <3>1. ~tmp[d]
      BY DEF Excused
    <3> QED BY <1>9, <3>1 DEF MirrorFiles
  <2>3. ASSUME NEW n \in MirrorFiles(d) PROVE n \in Referenced(dir)
    <3>1. PICK p \in Path : n \in {Text(d, p), Segments(d, p)} /\ Named(log, p) # None
      BY <2>2
    <3>2. PICK r \in Bearing(log) : r.path = p
      BY <2>1, <3>1
    <3>3. Referenced(dir) = UNION {{Text(d, q.path), Segments(d, q.path)} : q \in Bearing(log)}
      BY <1>7, <1>8 DEF Referenced
    <3> QED BY <3>1, <3>2, <3>3
  <2>4. {n \in Files(dir) : n[1] = "mirror"} \subseteq MirrorFiles(d)
    BY <1>1, <1>2, NamesDiffer DEF Files
  <2> QED BY <2>3, <2>4 DEF NothingUnreferenced
<1>18. NoCollision(dir)
  <2>1. ASSUME NEW r \in Bearing(log) PROVE r.path \in Path /\ text[d][r.path] # None
    <3>1. r.path \in Path /\ Named(log, r.path) = r.text /\ r.text # None
      BY <1>5, BearingIsNamed DEF Record
    <3> QED BY <1>9, <3>1
  <2>2. ~Collides(d)
    BY DEF Excused
  <2> QED BY <1>7, <1>8, <2>1, <2>2 DEF NoCollision, Collides
<1>19. CountsAgree(dir)
  BY <1>6, <1>7, <1>8 DEF CountsAgree
<1> QED BY <1>11, <1>12, <1>13, <1>14, <1>15, <1>16, <1>17, <1>18, <1>19 DEF Verifies

\* A step that refuses a quiet division has a reason.
LEMMA RefusalIsExcused ==
  ASSUME IInv, [Next]_vars, NEW d \in Division, result'[d] = "refusedQuiet", result[d] # "refusedQuiet"
  PROVE  Excused(d)
<1> USE DEF IInv
<1>1. result \in [Division -> {"none", "ok", "okCrowded", "refused", "refusedQuiet"}]
  BY DEF Types
<1>2. SUFFICES ASSUME ~Excused(d) PROVE FALSE
  OBVIOUS
<1>3. ASSUME UNCHANGED result PROVE FALSE
  BY <1>3
<1>4. ASSUME NEW e \in Division, ReadBytes(e) PROVE FALSE
  <2>1. e = d /\ fresh[d] /\ ~EndsWithNewline(shard[d])
    BY <1>1, <1>4 DEF ReadBytes
  <2>2. shard[d].tail = "lf"
    BY <2>1 DEF RunInv
  <2> QED BY <1>2, <2>1, <2>2 DEF EndsWithNewline, Excused
<1>5. ASSUME Refuse, job.pc # "idle"
      PROVE  d = job.div /\ job.met = 0 /\ QuietAt(d) /\ shard[d].tail = "lf" /\ fresh[d]
  <2>1. d = job.div /\ job.met = 0
    BY <1>1, <1>5 DEF Refuse
  <2>2. QuietAt(d)
    BY <1>5, <2>1 DEF QuietInv
  <2> QED BY <2>1, <2>2 DEF QuietAt, RunInv
<1>6. ASSUME ParseShard PROVE FALSE
  <2>1. CASE Refuse
    <3>1. job.pc # "idle" /\ (shard[job.div].tail = "torn" \/ job'.pc = "check")
      BY <1>6 DEF ParseShard, Types, JobOf
    <3>2. job'.pc = "idle"
      BY <2>1 DEF Refuse, NoJob
    <3> QED BY <1>5, <2>1, <3>1, <3>2
  <2>2. CASE ~Refuse
    BY <1>3, <1>6, <2>2 DEF ParseShard
  <2> QED BY <2>1, <2>2
<1>7. ASSUME CheckAndList PROVE FALSE
  <2>1. CASE Refuse
    <3>1. job.pc = "check" /\ (~Shippable \/ job'.pc = "copy")
      BY <1>7 DEF CheckAndList, Types, JobOf
    <3>2. job'.pc = "idle"
      BY <2>1 DEF Refuse, NoJob
    <3>3. d = job.div /\ fresh[d] /\ job.log = shard[d].log
      BY <1>5, <2>1, <3>1 DEF QuietAt
    <3> QED BY <1>2, <3>1, <3>2, <3>3, QuietIsShippable
  <2>2. CASE ~Refuse
    BY <1>3, <1>7, <2>2 DEF CheckAndList
  <2> QED BY <2>1, <2>2
<1>8. ASSUME CopyFile PROVE FALSE
  <2>1. CASE Refuse
    <3>1. job.pc = "copy" /\ job.todo # {} /\ (First(job.todo) \notin MirrorFiles(job.div) \/ job'.pc = "copy")
      BY <1>8 DEF CopyFile, Types, JobOf
    <3>2. job'.pc = "idle"
      BY <2>1 DEF Refuse, NoJob
    <3>3. d = job.div /\ job.todo \subseteq MirrorFiles(d)
      BY <1>5, <2>1, <3>1 DEF QuietAt, Early
    <3>4. First(job.todo) \in job.todo
      <4>1. job.todo \in SUBSET FileName
        BY DEF Types, JobOf
      <4>2. IsFiniteSet(job.todo)
        BY <4>1, HandoffAssumption, FileNamesAreFinite, FS_Subset
      <4> QED BY <3>1, <4>1, <4>2, FirstIsFirst
    <3> QED BY <3>1, <3>2, <3>3, <3>4
  <2>2. CASE ~Refuse
    BY <1>3, <1>8, <2>2 DEF CopyFile
  <2> QED BY <2>1, <2>2
<1>9. ASSUME VerifyOwn PROVE FALSE
  <2>1. /\ job.pc = "verify" /\ ~Verifies(box[job.div]) /\ Refuse
    <3>1. CASE Verifies(box[job.div])
      BY <1>1, <1>9, <3>1 DEF VerifyOwn
    <3> QED BY <1>9, <3>1 DEF VerifyOwn
  <2>2. d = job.div /\ job.met = 0
    BY <1>5, <2>1
  <2> QED BY <1>2, <2>1, <2>2, QuietVerifies
<1>10. RunStep => UNCHANGED result
  BY RunLeavesBundles
<1>11. ASSUME \/ Bump \/ EndCopy \/ WriteRest \/ KillBundle
              \/ \E e \in Division : Damage(e) \/ VerifyInput(e) \/ \E p \in Path : Delete(e, p)
              \/ StartMerge \/ CheckInputs \/ CopyInputs \/ WriteDescriptor \/ VerifyMerged
              \/ UNCHANGED vars
       PROVE  UNCHANGED result
  <2>1. CASE \/ \E e \in Division : VerifyInput(e)
             \/ StartMerge \/ CheckInputs \/ CopyInputs \/ WriteDescriptor \/ VerifyMerged
    BY <2>1, MergeKeepsTypes DEF bundler
  <2>2. CASE \/ Bump \/ EndCopy \/ WriteRest \/ KillBundle \/ UNCHANGED vars
             \/ \E e \in Division : Damage(e) \/ \E p \in Path : Delete(e, p)
    BY <2>2 DEF Bump, EndCopy, WriteRest, KillBundle, Damage, Delete, Step, bundler, vars
  <2> QED BY <1>11, <2>1, <2>2
<1> QED BY <1>3, <1>4, <1>6, <1>7, <1>8, <1>9, <1>10, <1>11 DEF Next

\* bundle refuses a division that is complete and that no run touches for
\* nothing but the reasons it names (bundle).
THEOREM QuietShips == Spec => QuietDivisionShips
<1>1. IInv /\ [Next]_vars =>
        [\A d \in Division : result'[d] = "refusedQuiet" => result[d] = "refusedQuiet" \/ Excused(d)]_vars
  BY RefusalIsExcused
<1> QED BY <1>1, InvariantHolds, PTL DEF Spec, QuietDivisionShips

-----------------------------------------------------------------------------
(* The merge under way, and what is left of it when it has ended *)

\* An input that verified: a bundle as it was packaged.
Input(d) == [div |-> d, desc |-> Desc(Packaged(d))]

Packages == [i \in DOMAIN merging.in |-> Packaged(merging.in[i].div)]

Undamaged == \A d \in Division : lost[d] = Empty

\* No bundle is written any more, and the inputs are those that verified.
InputInv ==
  merging.pc # "idle" \/ merged # "none" =>
    /\ job.pc = "idle" /\ \A d \in Division : whole[d]
    /\ merging.in \in Seq({Input(d) : d \in Division})
    /\ \A i \in DOMAIN merging.in : Verifies(Packaged(merging.in[i].div))

\* A merge has no result before its end, and writes only what has passed the
\* check of the inputs against each other.
CheckedInv ==
  /\ merging.pc # "idle" => merged = "none"
  /\ merging.pc \in {"copy", "descriptor", "own"} =>
       /\ Len(merging.in) >= 2
       /\ \A i, j \in DOMAIN merging.in :
            i # j => DivKey[merging.in[i].div] # DivKey[merging.in[j].div]
       /\ Undamaged => \A i \in DOMAIN Packages : \A n \in {Formats, Converters} :
                         Packages[i][n] = Packages[1][n]

\* What merge writes from undamaged inputs.
MergedFiles == With(Copied(Descs, Packages), Checksums, <<"checksums", Joined(Packages)>>)
MergedBundle == With(MergedFiles, Descriptor, <<"descriptor", JoinedDescriptor(Descs, Joined(Packages))>>)

\* The joined lines are those of the packages, whatever is copied meanwhile.
OutInv ==
  /\ merging.pc \in {"descriptor", "own"} =>
       /\ Checksums \in DOMAIN out
       /\ out[Checksums] \in {Bad, <<"checksums", Joined(Packages)>>}
  /\ merging.pc = "own" =>
       out[Descriptor] = <<"descriptor", JoinedDescriptor(Descs, out[Checksums][2])>>
  /\ Undamaged => /\ merging.pc = "descriptor" => out = MergedFiles
                  /\ merging.pc = "own" => out = MergedBundle

MergeInv == InputInv /\ CheckedInv /\ OutInv /\ MergedIsUnion /\ UndamagedMerges

-----------------------------------------------------------------------------
(* What was packaged stays *)

\* Damage takes nothing from what is remembered of a bundle.
LEMMA PackagedStays ==
  ASSUME Types, BoxInv, UNCHANGED <<box, lost>> \/ \E d \in Division : Damage(d)
  PROVE  /\ \A e \in Division : Packaged(e)' = Packaged(e)
         /\ Undamaged' => Undamaged
<1>1. CASE UNCHANGED <<box, lost>>
  BY <1>1 DEF Packaged, Undamaged
<1>2. ASSUME NEW d \in Division, Damage(d)
      PROVE  (\A e \in Division : Packaged(e)' = Packaged(e)) /\ (Undamaged' => Undamaged)
  <2>1. /\ whole[d]
        /\ lost' = [lost EXCEPT ![d] = IF lost[d] = Empty THEN box[d] ELSE lost[d]]
        /\ \E new : box' = [box EXCEPT ![d] = new]
    BY <1>2 DEF Damage
  <2>2. Packaged(d) # Empty
    <3>1. Sealed(Packaged(d), d)
      BY <2>1 DEF BoxInv, BoxOf
    <3> QED BY <3>1 DEF Sealed, Empty
  <2>3. lost'[d] = Packaged(d)
    BY <2>1 DEF Packaged, Types
  <2>4. Packaged(d)' = Packaged(d)
    BY <2>2, <2>3 DEF Packaged
  <2>5. ASSUME NEW e \in Division, e # d PROVE box'[e] = box[e] /\ lost'[e] = lost[e]
    BY <2>1, <2>5 DEF Types
  <2>6. \A e \in Division : Packaged(e)' = Packaged(e)
    BY <2>4, <2>5 DEF Packaged
  <2> QED BY <2>2, <2>3, <2>6 DEF Undamaged
<1> QED BY <1>1, <1>2

\* A step that is none of the merge's leaves the merge where it is.
LEMMA MergeInvStays ==
  ASSUME Types, BoxInv, MergeInv, UNCHANGED merger,
         \/ merging.pc = "idle" /\ merged = "none"
         \/ /\ UNCHANGED whole /\ job'.pc = job.pc
            /\ UNCHANGED <<box, lost>> \/ \E d \in Division : Damage(d)
  PROVE  MergeInv'
<1>1. merging' = merging /\ out' = out /\ merged' = merged
  BY DEF merger
<1>2. CASE merging.pc = "idle" /\ merged = "none"
  BY <1>1, <1>2 DEF MergeInv, InputInv, CheckedInv, OutInv, MergedIsUnion, UndamagedMerges
<1>3. CASE /\ merging.pc # "idle" \/ merged # "none"
           /\ UNCHANGED whole /\ job'.pc = job.pc
           /\ UNCHANGED <<box, lost>> \/ \E d \in Division : Damage(d)
  <2>1. (\A e \in Division : Packaged(e)' = Packaged(e)) /\ (Undamaged' => Undamaged)
    BY <1>3, PackagedStays
  <2>2. \A e \in Division : Input(e)' = Input(e)
    BY <2>1 DEF Input, Desc
  <2>3. {Input(e) : e \in Division}' = {Input(e) : e \in Division}
    BY <2>2
  <2>4. \A i \in DOMAIN merging.in : merging.in[i].div \in Division
    BY <1>3, ElementOfSeq, LenProperties DEF MergeInv, InputInv, Input
  <2>5. InputInv'
    BY <1>1, <1>3, <2>1, <2>3, <2>4 DEF MergeInv, InputInv
  <2>6. Packages' = Packages
    BY <1>1, <2>1, <2>4 DEF Packages
  <2>7. Descs' = Descs
    BY <1>1 DEF Descs
  <2>8. CheckedInv'
    BY <1>1, <2>1, <2>6 DEF MergeInv, CheckedInv
  <2>9. MergedFiles' = MergedFiles /\ MergedBundle' = MergedBundle /\ Joined(Packages)' = Joined(Packages)
    BY <2>6, <2>7 DEF MergedFiles, MergedBundle
  <2>10. OutInv'
    BY <1>1, <2>1, <2>7, <2>9 DEF MergeInv, OutInv
  <2>11. MergedIsUnion'
    BY <1>1, <2>1, <2>4 DEF MergeInv, MergedIsUnion
  <2>12. UndamagedMerges'
    BY <1>1, <2>1 DEF MergeInv, UndamagedMerges, Undamaged
  <2> QED BY <2>5, <2>8, <2>10, <2>11, <2>12 DEF MergeInv
<1> QED BY <1>2, <1>3

\* The run, the bundling and the operator leave a merge alone.
LEMMA OthersKeepMergeInv ==
  ASSUME IInv, MergeInv,
         \/ RunStep \/ Bump
         \/ \E d \in Division : ReadBytes(d) \/ Damage(d) \/ \E p \in Path : Delete(d, p)
         \/ ParseShard \/ CheckAndList \/ CopyFile \/ EndCopy \/ WriteRest \/ VerifyOwn \/ KillBundle
  PROVE  MergeInv'
<1> USE DEF IInv
<1>1. ASSUME RunStep PROVE MergeInv'
  <2>1. UNCHANGED <<box, whole, lost, merger>>
    BY <1>1 DEF RunStep, StartRun, NextSource, WriteArtifact, RemoveArtifact, Effect, AppendLine,
                FinishRun, KillRun, bundler
  <2>2. job'.pc = job.pc
    BY <1>1, RunLeavesBundles DEF Types, JobOf
  <2> QED BY <2>1, <2>2, MergeInvStays
<1>2. ASSUME Bump \/ \E d \in Division, p \in Path : Delete(d, p) PROVE MergeInv'
  BY <1>2, MergeInvStays DEF Bump, Delete, bundler
<1>3. ASSUME NEW d \in Division, Damage(d) PROVE MergeInv'
  BY <1>3, MergeInvStays DEF Damage
<1>4. ASSUME \/ \E d \in Division : ReadBytes(d)
             \/ ParseShard \/ CheckAndList \/ CopyFile \/ EndCopy \/ WriteRest \/ VerifyOwn
             \/ KillBundle
      PROVE  MergeInv'
  <2>1. UNCHANGED merger
    BY <1>4 DEF ReadBytes, ParseShard, CheckAndList, CopyFile, EndCopy, WriteRest, VerifyOwn,
                KillBundle, Step, Refuse
  <2>2. merging.pc = "idle" /\ merged = "none"
    <3>1. job.pc # "idle" \/ \E d \in Division : ~whole[d]
      BY <1>4 DEF ReadBytes, ParseShard, CheckAndList, CopyFile, EndCopy, WriteRest, VerifyOwn,
                  KillBundle, Concerned
    <3> QED BY <3>1 DEF MergeInv, InputInv
  <2> QED BY <2>1, <2>2, MergeInvStays
<1> QED BY <1>1, <1>2, <1>3, <1>4

-----------------------------------------------------------------------------
(* The inputs *)

\* An input is a bundle that verified as it was packaged.
LEMMA InputIs ==
  ASSUME IInv, InputInv, merging.pc # "idle" \/ merged # "none", NEW i \in DOMAIN merging.in
  PROVE  LET d == merging.in[i].div
             p == Packaged(d)
         IN /\ d \in Division /\ merging.in[i] = Input(d) /\ merging.in[i].desc = Desc(p)
            /\ IsDir(p, d) /\ Sealed(p, d) /\ Spoilt(box[d], p, d) /\ Verifies(p)
            /\ Desc(p).divisions = <<d>> /\ p[Checksums] = <<"checksums", ChecksumLines(p)>>
<1> DEFINE d == merging.in[i].div
           p == Packaged(d)
<1>1. merging.in[i] \in {Input(e) : e \in Division}
  BY ElementOfSeq, LenProperties DEF InputInv
<1>2. PICK e \in Division : merging.in[i] = Input(e)
  BY <1>1
<1>3. d = e /\ merging.in[i].desc = Desc(p)
  BY <1>2 DEF Input
<1>4. IsDir(p, d) /\ Sealed(p, d) /\ Spoilt(box[d], p, d) /\ Verifies(p)
  <2>1. whole[e] /\ BoxOf(e)
    BY DEF InputInv, IInv, BoxInv
  <2> QED BY <1>3, <2>1 DEF BoxOf, InputInv
<1>5. Desc(p).divisions = <<d>> /\ p[Checksums] = <<"checksums", ChecksumLines(p)>>
  <2>1. Shaped(Desc(p), d) /\ p[Checksums] = <<"checksums", ChecksumLines(p)>>
    BY <1>4 DEF Sealed
  <2> HIDE DEF p, d
  <2> QED BY <2>1 DEF Shaped
<1> QED BY <1>2, <1>3, <1>4, <1>5

\* What is taken of undamaged inputs is what was packaged.
LEMMA UndamagedInputs ==
  ASSUME IInv, InputInv, merging.pc # "idle" \/ merged # "none", Undamaged
  PROVE  Inputs = Packages
BY InputIs DEF Inputs, Packages, Packaged, Undamaged

\* Whatever happened to the inputs, a checksum file that is none of damage's
\* is the packaged one.
LEMMA InputLines ==
  ASSUME IInv, InputInv, merging.pc # "idle" \/ merged # "none",
         \A i \in DOMAIN Inputs : Checksums \in DOMAIN Inputs[i] /\ Is("checksums", Inputs[i][Checksums])
  PROVE  Joined(Inputs) = Joined(Packages)
<1>1. DOMAIN Inputs = DOMAIN merging.in /\ DOMAIN Packages = DOMAIN merging.in
  BY DEF Inputs, Packages
<1>2. ASSUME NEW i \in DOMAIN merging.in PROVE Inputs[i][Checksums] = Packages[i][Checksums]
  <2> DEFINE d == merging.in[i].div
  <2>1. Spoilt(box[d], Packaged(d), d) /\ d \in Division
    BY InputIs
  <2>2. Inputs[i] = box[d] /\ Packages[i] = Packaged(d)
    BY DEF Inputs, Packages
  <2>3. Checksums \in DOMAIN box[d] /\ box[d][Checksums] # Bad
    BY <1>1, <2>2 DEF Is, Bad
  <2> QED BY <2>1, <2>2, <2>3, NamesDiffer DEF Spoilt
<1>3. [i \in DOMAIN Inputs |-> LinesOf(Inputs[i])] = [i \in DOMAIN Packages |-> LinesOf(Packages[i])]
  BY <1>1, <1>2 DEF LinesOf
<1> QED BY <1>3 DEF Joined

-----------------------------------------------------------------------------
(* merge, step by step *)

\* What a merge step finds unchanged.
LEMMA MergeStepKeeps ==
  ASSUME NEW next, NEW in, MergeStep(next, in)
  PROVE  /\ merging' = [pc |-> next, in |-> in] /\ UNCHANGED <<job, box, whole, lost>>
         /\ \A d : Packaged(d)' = Packaged(d) /\ Input(d)' = Input(d)
         /\ Undamaged' <=> Undamaged
<1>1. merging' = [pc |-> next, in |-> in] /\ UNCHANGED <<job, box, whole, lost>>
  BY DEF MergeStep, bundler
<1>2. \A d : Packaged(d)' = Packaged(d)
  BY <1>1 DEF Packaged
<1> QED BY <1>1, <1>2 DEF Input, Undamaged, Desc

\* A merge that goes on with the same inputs keeps what is known of them.
LEMMA SameInputs ==
  ASSUME IInv, InputInv, merging.pc # "idle" \/ merged # "none", NEW next, MergeStep(next, merging.in)
  PROVE  /\ merging'.in = merging.in /\ merging'.pc = next
         /\ InputInv' /\ Packages' = Packages /\ Descs' = Descs
         /\ MergedFiles' = MergedFiles /\ MergedBundle' = MergedBundle
         /\ Joined(Packages)' = Joined(Packages)
<1>1. /\ merging' = [pc |-> next, in |-> merging.in] /\ UNCHANGED <<job, box, whole, lost>>
      /\ \A d : Packaged(d)' = Packaged(d) /\ Input(d)' = Input(d)
  BY MergeStepKeeps
<1>2. merging'.in = merging.in /\ merging'.pc = next
  BY <1>1
<1>3. {Input(d) : d \in Division}' = {Input(d) : d \in Division}
  BY <1>1
<1>4. InputInv'
  BY <1>1, <1>2, <1>3 DEF InputInv
<1>5. Packages' = Packages /\ Descs' = Descs
  BY <1>1, <1>2 DEF Packages, Descs
<1>6. /\ MergedFiles' = MergedFiles /\ MergedBundle' = MergedBundle
      /\ Joined(Packages)' = Joined(Packages)
  BY <1>5 DEF MergedFiles, MergedBundle
<1> QED BY <1>2, <1>4, <1>5, <1>6

\* Ending without success claims nothing.
LEMMA EndKeepsMergeInv ==
  ASSUME IInv, MergeInv, merging.pc # "idle", NEW why, why # "none", EndMerge(why), why # "ok",
         why = "refusedOutput" => ~Undamaged
  PROVE  MergeInv'
<1>1. /\ MergeStep("idle", merging.in) /\ merged' = why /\ out' = out
  BY DEF EndMerge
<1>2. InputInv' /\ merging'.pc = "idle" /\ (Undamaged' <=> Undamaged)
  BY <1>1, SameInputs, MergeStepKeeps DEF MergeInv
<1>3. CheckedInv' /\ OutInv' /\ MergedIsUnion'
  BY <1>1, <1>2 DEF CheckedInv, OutInv, MergedIsUnion
<1>4. UndamagedMerges'
  BY <1>1, <1>2 DEF UndamagedMerges, Undamaged
<1> QED BY <1>2, <1>3, <1>4 DEF MergeInv

\* The start.
LEMMA StartKeepsMergeInv ==
  ASSUME IInv, MergeInv, StartMerge
  PROVE  MergeInv'
<1>1. /\ MergeStep("verify", <<>>) /\ merged = "none" /\ merged' = merged /\ job.pc = "idle"
      /\ \A d \in Division : Accepted(d)
  BY DEF StartMerge
<1>2. \A d \in Division : whole[d]
  <2>1. \A d \in Division : whole[d] \in BOOLEAN /\ BoxOf(d)
    BY DEF IInv, Types, BoxInv
  <2> QED BY <1>1, <2>1 DEF BoxOf
<1>3. merging' = [pc |-> "verify", in |-> <<>>] /\ UNCHANGED <<job, box, whole, lost>>
  BY <1>1, MergeStepKeeps
<1>4. merging'.in = <<>> /\ merging'.pc = "verify"
  BY <1>3
<1>5. InputInv'
  <2>1. <<>> \in Seq({Input(d) : d \in Division}') /\ DOMAIN <<>> = {}
    BY EmptySeq
  <2> QED BY <1>1, <1>2, <1>3, <1>4, <2>1 DEF InputInv
<1>6. CheckedInv' /\ OutInv' /\ MergedIsUnion' /\ UndamagedMerges'
  BY <1>1, <1>4 DEF CheckedInv, OutInv, MergedIsUnion, UndamagedMerges
<1> QED BY <1>5, <1>6 DEF MergeInv

\* Another input.
LEMMA VerifyKeepsMergeInv ==
  ASSUME IInv, MergeInv, NEW d \in Division, VerifyInput(d)
  PROVE  MergeInv'
<1> DEFINE in == merging.in
           new == Append(in, Input(d))
<1>1. CASE ~Verifies(box[d])
  BY <1>1, EndKeepsMergeInv DEF VerifyInput
<1>2. CASE Verifies(box[d])
  <2>1. box[d] = Packaged(d) /\ whole[d]
    BY <1>2, InvariantIsEnough DEF VerifiedIsPackaged
  <2>2. [div |-> d, desc |-> Desc(box[d])] = Input(d)
    BY <2>1 DEF Input
  <2>3. MergeStep("verify", new) /\ UNCHANGED <<out, merged>> /\ merging.pc = "verify"
    BY <1>2, <2>2 DEF VerifyInput
  <2>4. /\ merging' = [pc |-> "verify", in |-> new] /\ UNCHANGED <<job, box, whole, lost>>
        /\ \A e : Packaged(e)' = Packaged(e) /\ Input(e)' = Input(e)
    BY <2>3, MergeStepKeeps
  <2>5. in \in Seq({Input(e) : e \in Division}) /\ Input(d) \in {Input(e) : e \in Division}
    BY <2>3 DEF MergeInv, InputInv
  <2>6. /\ new \in Seq({Input(e) : e \in Division}) /\ DOMAIN new = DOMAIN in \cup {Len(in) + 1}
        /\ new[Len(in) + 1] = Input(d) /\ \A i \in DOMAIN in : new[i] = in[i]
    BY <2>5, AppendProperties, LenProperties
  <2> HIDE DEF new
  <2>7. \A i \in DOMAIN new : Verifies(Packaged(new[i].div))
    <3>1. Input(d).div = d
      BY DEF Input
    <3> QED BY <1>2, <2>1, <2>3, <2>6, <3>1 DEF MergeInv, InputInv
  <2>8. merging'.in = new /\ merging'.pc = "verify"
    BY <2>4
  <2>9. {Input(e) : e \in Division}' = {Input(e) : e \in Division}
    BY <2>4
  <2>10. InputInv'
    BY <2>3, <2>4, <2>6, <2>7, <2>8, <2>9 DEF MergeInv, InputInv
  <2>11. CheckedInv' /\ OutInv' /\ MergedIsUnion' /\ UndamagedMerges'
    BY <2>3, <2>8 DEF MergeInv, CheckedInv, OutInv, MergedIsUnion, UndamagedMerges
  <2> QED BY <2>10, <2>11 DEF MergeInv
<1> QED BY <1>1, <1>2

\* The inputs are compared with each other.
LEMMA CheckKeepsMergeInv ==
  ASSUME IInv, MergeInv, CheckInputs
  PROVE  MergeInv'
<1> DEFINE passed == /\ \A i \in DOMAIN Inputs : {Formats, Converters} \subseteq DOMAIN Inputs[i]
                     /\ Mergeable(Descs, Inputs)
<1>1. merging.pc = "verify" /\ Len(merging.in) >= 2 /\ UNCHANGED out
  BY DEF CheckInputs, EndMerge
<1>2. CASE ~passed
  BY <1>1, <1>2, EndKeepsMergeInv DEF CheckInputs
<1>3. CASE passed
  <2>1. MergeStep("copy", merging.in) /\ UNCHANGED <<out, merged>>
    BY <1>3 DEF CheckInputs
  <2>2. /\ InputInv /\ merging'.in = merging.in /\ merging'.pc = "copy"
        /\ InputInv' /\ Packages' = Packages /\ (Undamaged' <=> Undamaged)
    BY <1>1, <2>1, SameInputs, MergeStepKeeps DEF MergeInv
  <2>3. ASSUME NEW i \in DOMAIN merging.in, NEW j \in DOMAIN merging.in, i # j
        PROVE  DivKey[merging.in[i].div] # DivKey[merging.in[j].div]
    <3>1. /\ Descs[i].divisions = <<merging.in[i].div>> /\ Descs[j].divisions = <<merging.in[j].div>>
          /\ i \in DOMAIN Descs /\ j \in DOMAIN Descs
      BY <1>1, <2>2, InputIs DEF Descs
    <3>2. /\ merging.in[i].div \in ToSet(Descs[i].divisions)
          /\ merging.in[j].div \in ToSet(Descs[j].divisions)
      BY <3>1 DEF ToSet
    <3> QED BY <1>3, <2>3, <3>1, <3>2 DEF Mergeable
  <2>4. Undamaged => \A i \in DOMAIN Packages : \A n \in {Formats, Converters} :
                      Packages[i][n] = Packages[1][n]
    BY <1>1, <1>3, <2>2, UndamagedInputs DEF Mergeable
  <2>5. CheckedInv'
    BY <1>1, <2>1, <2>2, <2>3, <2>4 DEF MergeInv, CheckedInv
  <2>6. OutInv' /\ MergedIsUnion' /\ UndamagedMerges'
    BY <1>1, <2>1, <2>2 DEF MergeInv, CheckedInv, OutInv, MergedIsUnion, UndamagedMerges
  <2> QED BY <2>2, <2>5, <2>6 DEF MergeInv
<1> QED BY <1>2, <1>3

\* The copy.
LEMMA CopyKeepsMergeInv ==
  ASSUME IInv, MergeInv, CopyInputs
  PROVE  MergeInv'
<1>1. merging.pc = "copy"
  BY DEF CopyInputs
<1>2. CASE ~\A i \in DOMAIN Inputs : Checksums \in DOMAIN Inputs[i]
  BY <1>1, <1>2, EndKeepsMergeInv DEF CopyInputs
<1>3. CASE \A i \in DOMAIN Inputs : Checksums \in DOMAIN Inputs[i]
  <2> DEFINE readable == \A i \in DOMAIN Inputs : Is("checksums", Inputs[i][Checksums])
             c == IF readable THEN <<"checksums", Joined(Inputs)>> ELSE Bad
  <2>1. /\ MergeStep("descriptor", merging.in) /\ UNCHANGED merged
        /\ out' = With(Copied(Descs, Inputs), Checksums, c)
    BY <1>3 DEF CopyInputs
  <2>2. /\ InputInv /\ merging'.in = merging.in /\ merging'.pc = "descriptor"
        /\ InputInv' /\ Packages' = Packages /\ (Undamaged' <=> Undamaged)
        /\ MergedFiles' = MergedFiles /\ Joined(Packages)' = Joined(Packages)
    BY <1>1, <2>1, SameInputs, MergeStepKeeps DEF MergeInv
  <2>3. readable => Joined(Inputs) = Joined(Packages)
    BY <1>1, <1>3, <2>2, InputLines
  <2>4. Checksums \in DOMAIN out' /\ out'[Checksums] \in {Bad, <<"checksums", Joined(Packages)>>}
    <3>1. Checksums \in DOMAIN out' /\ out'[Checksums] = c
      BY <2>1 DEF With
    <3> QED BY <2>3, <3>1
  <2>5. ASSUME Undamaged PROVE out' = MergedFiles
    <3>1. Inputs = Packages
      BY <1>1, <2>2, <2>5, UndamagedInputs
    <3>2. readable
      <4>1. ASSUME NEW i \in DOMAIN merging.in PROVE Is("checksums", Packages[i][Checksums])
        <5>1. Packages[i][Checksums] = <<"checksums", ChecksumLines(Packaged(merging.in[i].div))>>
          BY <1>1, <2>2, InputIs DEF Packages
        <5> QED BY <5>1 DEF Is
      <4> QED BY <3>1, <4>1 DEF Packages
    <3> QED BY <2>1, <3>1, <3>2 DEF MergedFiles
  <2>6. CheckedInv'
    BY <1>1, <2>1, <2>2 DEF MergeInv, CheckedInv
  <2>7. OutInv'
    BY <2>2, <2>4, <2>5 DEF OutInv
  <2>8. MergedIsUnion' /\ UndamagedMerges'
    BY <1>1, <2>1, <2>2 DEF MergeInv, CheckedInv, MergedIsUnion, UndamagedMerges
  <2> QED BY <2>2, <2>6, <2>7, <2>8 DEF MergeInv
<1> QED BY <1>2, <1>3

\* The descriptor.
LEMMA DescriptorKeepsMergeInv ==
  ASSUME IInv, MergeInv, WriteDescriptor
  PROVE  MergeInv'
<1> DEFINE c == <<"descriptor", JoinedDescriptor(Descs, out[Checksums][2])>>
<1>1. /\ merging.pc = "descriptor" /\ MergeStep("own", merging.in) /\ UNCHANGED merged
      /\ out' = With(out, Descriptor, c)
  BY DEF WriteDescriptor
<1>2. /\ InputInv /\ merging'.in = merging.in /\ merging'.pc = "own"
      /\ InputInv' /\ Packages' = Packages /\ Descs' = Descs /\ (Undamaged' <=> Undamaged)
      /\ MergedBundle' = MergedBundle /\ Joined(Packages)' = Joined(Packages)
  BY <1>1, SameInputs, MergeStepKeeps DEF MergeInv
<1> HIDE DEF c
<1>3. out'[Descriptor] = c /\ out'[Checksums] = out[Checksums] /\ Checksums \in DOMAIN out'
  <2>1. Checksums # Descriptor /\ Checksums \in DOMAIN out
    BY <1>1 DEF MergeInv, OutInv, Checksums, Descriptor
  <2> QED BY <1>1, <2>1 DEF With
<1>4. OutInv'
  <2>1. out'[Checksums] \in {Bad, <<"checksums", Joined(Packages)>>}
    BY <1>1, <1>3 DEF MergeInv, OutInv
  <2>2. out'[Descriptor] = <<"descriptor", JoinedDescriptor(Descs, out'[Checksums][2])>>
    BY <1>3 DEF c
  <2>3. ASSUME Undamaged PROVE out' = MergedBundle
    <3>1. out = MergedFiles
      BY <1>1, <2>3 DEF MergeInv, OutInv
    <3>2. MergedFiles[Checksums][2] = Joined(Packages)
      BY DEF MergedFiles, With
    <3> QED BY <1>1, <3>1, <3>2 DEF MergedBundle, c
  <2> QED BY <1>2, <1>3, <2>1, <2>2, <2>3 DEF OutInv
<1>5. CheckedInv' /\ MergedIsUnion' /\ UndamagedMerges'
  BY <1>1, <1>2 DEF MergeInv, CheckedInv, MergedIsUnion, UndamagedMerges
<1> QED BY <1>2, <1>4, <1>5 DEF MergeInv

-----------------------------------------------------------------------------
(* The joined lines *)

LineOf(dir, n) == [name |-> n, hash |-> dir[n]]

\* A package lists its files, each with what it holds.
LEMMA LinesOfPackage ==
  ASSUME NEW dir, NEW d \in Division, IsDir(dir, d), dir[Checksums] = <<"checksums", ChecksumLines(dir)>>
  PROVE  LinesOf(dir) = {LineOf(dir, n) : n \in Files(dir)} /\ IsFiniteSet(LinesOf(dir))
<1> DEFINE names == Sorted(Files(dir))
           N == Cardinality(Files(dir))
           lines == ChecksumLines(dir)
<1>1. IsFiniteSet(Files(dir)) /\ Files(dir) \in SUBSET FileName
  BY FilesOfDir
<1>2. /\ names \in [1..N -> Files(dir)]
      /\ \A n \in Files(dir) : \E k \in 1..N : names[k] = n
  BY <1>1, SortedLists
<1>3. lines = [i \in 1..N |-> LineOf(dir, names[i])]
  BY <1>2 DEF ChecksumLines, LineOf
<1>4. LinesOf(dir) = {lines[i] : i \in DOMAIN lines}
  BY DEF LinesOf, ToSet
<1> HIDE DEF lines, names
<1>5. LinesOf(dir) = {LineOf(dir, n) : n \in Files(dir)}
  <2>1. \A i \in 1..N : names[i] \in Files(dir)
    BY <1>2
  <2> QED BY <1>2, <1>3, <1>4, <2>1
<1>6. IsFiniteSet(LinesOf(dir))
  <2> DEFINE f == [n \in Files(dir) |-> LineOf(dir, n)]
  <2>1. f \in Surjection(Files(dir), LinesOf(dir))
    BY <1>5 DEF Surjection
  <2> QED BY <1>1, <2>1, FS_Surjection
<1> QED BY <1>5, <1>6

\* The joined list holds the lines of every package and no other, and it
\* holds none twice.
LEMMA JoinedLines ==
  ASSUME IInv, InputInv, merging.pc # "idle" \/ merged # "none"
  PROVE  LET lines == Joined(Packages)
             S == UNION {LinesOf(Packages[i]) : i \in DOMAIN merging.in}
         IN /\ DOMAIN lines = 1..Cardinality(S) /\ Cardinality(S) \in Nat
            /\ \A k \in DOMAIN lines : lines[k] \in S
            /\ \A l \in S : \E k \in DOMAIN lines : lines[k] = l
            /\ \A j, k \in DOMAIN lines : j < k =>
                 lines[j] # lines[k] /\ (lines[j].name # lines[k].name => Before(lines[j].name, lines[k].name))
<1> DEFINE lists == [i \in DOMAIN Packages |-> LinesOf(Packages[i])]
           S == UNION {lists[i] : i \in DOMAIN lists}
           lines == Joined(Packages)
<1>1. DOMAIN lists = DOMAIN merging.in /\ DOMAIN merging.in = 1..Len(merging.in) /\ Len(merging.in) \in Nat
  BY LenProperties DEF InputInv, Packages
<1>2. ASSUME NEW i \in DOMAIN lists
      PROVE  /\ IsFiniteSet(lists[i])
             /\ \A l \in lists[i] : l.name \in FileName /\ l = LineOf(Packages[i], l.name)
  <2>1. /\ IsDir(Packages[i], merging.in[i].div) /\ merging.in[i].div \in Division
        /\ Packages[i][Checksums] = <<"checksums", ChecksumLines(Packages[i])>>
    BY <1>1, InputIs DEF Packages
  <2>2. /\ lists[i] = {LineOf(Packages[i], n) : n \in Files(Packages[i])}
        /\ IsFiniteSet(lists[i])
    BY <2>1, LinesOfPackage
  <2>3. Files(Packages[i]) \in SUBSET FileName
    BY <2>1, FilesOfDir
  <2> QED BY <2>2, <2>3 DEF LineOf
<1>3. IsFiniteSet({lists[i] : i \in DOMAIN lists})
  <2>1. IsFiniteSet(DOMAIN lists)
    BY <1>1, FS_Interval
  <2> DEFINE T == {lists[i] : i \in DOMAIN lists}
  <2>2. lists \in Surjection(DOMAIN lists, T)
    BY DEF Surjection
  <2> QED BY <2>1, <2>2, FS_Surjection
<1>4. IsFiniteSet(S)
  BY <1>2, <1>3, FS_UNION
<1>5. \A i \in DOMAIN lists : \A a, b \in lists[i] : a.name = b.name => a = b
  BY <1>2
<1>6. DOMAIN lists \in SUBSET Nat
  BY <1>1
<1>7. lines = SortedLines(lists)
  BY DEF Joined
<1>8. S = UNION {LinesOf(Packages[i]) : i \in DOMAIN merging.in}
  BY <1>1
<1> HIDE DEF lists, lines
<1>9. /\ lines \in [1..Cardinality(S) -> S]
      /\ \A l \in S : \E k \in 1..Cardinality(S) : lines[k] = l
      /\ \A j, k \in 1..Cardinality(S) : j < k =>
           lines[j] # lines[k] /\ (lines[j].name # lines[k].name => Before(lines[j].name, lines[k].name))
  <2>1. \A i \in DOMAIN lists : /\ \A a \in lists[i] : a.name \in FileName
                                /\ \A a, b \in lists[i] : a.name = b.name => a = b
    BY <1>2, <1>5
  <2>2. LET T == UNION {lists[i] : i \in DOMAIN lists}
            s == SortedLines(lists)
        IN /\ s \in [1..Cardinality(T) -> T]
           /\ \A l \in T : \E k \in 1..Cardinality(T) : s[k] = l
           /\ \A j, k \in 1..Cardinality(T) : j < k =>
                s[j] # s[k] /\ (s[j].name # s[k].name => Before(s[j].name, s[k].name))
    BY <1>4, <1>6, <2>1, LinesSort, Zenon
  <2> HIDE DEF FileName
  <2> QED BY <1>7, <2>2
<1>10. Cardinality(S) \in Nat
  BY <1>4, FS_CardinalityType
<1> HIDE DEF S
<1>11. /\ DOMAIN lines = 1..Cardinality(S) /\ \A k \in DOMAIN lines : lines[k] \in S
  BY <1>9
<1> QED BY <1>8, <1>9, <1>10, <1>11 DEF lines

\* The joined descriptor is of the inputs' divisions, each with its counts.
LEMMA JoinedIs ==
  ASSUME IInv, InputInv, merging.pc # "idle" \/ merged # "none", NEW lines
  PROVE  LET divs == {merging.in[i].div : i \in DOMAIN merging.in}
             desc == JoinedDescriptor(Descs, lines)
         IN /\ divs \in SUBSET Nat /\ IsFiniteSet(divs)
            /\ desc.divisions = SortedBy(divs, <) /\ desc.checksums = lines
            /\ ToSet(desc.divisions) = divs
            /\ DOMAIN desc.counts = divs /\ DOMAIN desc.coverage = divs
            /\ \A d \in divs : /\ desc.counts[d] = Desc(Packaged(d)).counts[d]
                               /\ desc.coverage[d] = Desc(Packaged(d)).coverage[d]
<1> DEFINE divs == {merging.in[i].div : i \in DOMAIN merging.in}
           all == UNION {ToSet(Descs[i].divisions) : i \in DOMAIN Descs}
           owner(d) == CHOOSE i \in DOMAIN Descs : d \in ToSet(Descs[i].divisions)
           desc == JoinedDescriptor(Descs, lines)
<1>1. DOMAIN Descs = DOMAIN merging.in
  BY DEF Descs
<1>2. ASSUME NEW i \in DOMAIN merging.in
      PROVE  /\ ToSet(Descs[i].divisions) = {merging.in[i].div} /\ merging.in[i].div \in Division
             /\ Descs[i] = Desc(Packaged(merging.in[i].div))
  <2>1. /\ Descs[i] = Desc(Packaged(merging.in[i].div)) /\ merging.in[i].div \in Division
        /\ Descs[i].divisions = <<merging.in[i].div>>
    BY InputIs DEF Descs
  <2> QED BY <2>1 DEF ToSet
<1>3. all = divs
  BY <1>1, <1>2
<1>4. \A d \in divs : owner(d) \in DOMAIN merging.in /\ merging.in[owner(d)].div = d
  BY <1>1, <1>2
<1>5. desc = [divisions |-> SortedBy(all, <),
              runs |-> UNION {Descs[i].runs : i \in DOMAIN Descs},
              counts |-> [d \in all |-> Descs[owner(d)].counts[d]],
              coverage |-> [d \in all |-> Descs[owner(d)].coverage[d]],
              checksums |-> lines]
  BY DEF JoinedDescriptor
<1> HIDE DEF all, owner, desc
<1>6. /\ desc.divisions = SortedBy(divs, <) /\ desc.checksums = lines
      /\ DOMAIN desc.counts = divs /\ DOMAIN desc.coverage = divs
      /\ \A d \in divs : /\ desc.counts[d] = Desc(Packaged(d)).counts[d]
                         /\ desc.coverage[d] = Desc(Packaged(d)).coverage[d]
  <2>1. /\ desc.divisions = SortedBy(all, <) /\ desc.checksums = lines
        /\ DOMAIN desc.counts = all /\ DOMAIN desc.coverage = all
        /\ \A d \in all : /\ desc.counts[d] = Descs[owner(d)].counts[d]
                          /\ desc.coverage[d] = Descs[owner(d)].coverage[d]
    BY <1>5
  <2>2. \A d \in divs : Descs[owner(d)] = Desc(Packaged(d))
    BY <1>2, <1>4
  <2> QED BY <1>3, <2>1, <2>2
<1>7. divs \in SUBSET Nat /\ IsFiniteSet(divs)
  <2>1. divs \in SUBSET Division
    BY <1>2
  <2>2. Division \in SUBSET Nat /\ IsFiniteSet(Division)
    <3>1. 1 \in Int /\ ND \in Int
      BY HandoffAssumption
    <3> QED BY <3>1, FS_Interval DEF Division
  <2> QED BY <2>1, <2>2, FS_Subset
<1>8. ToSet(desc.divisions) = divs
  <2> HIDE DEF divs
  <2>1. /\ SortedBy(divs, <) \in [1..Cardinality(divs) -> divs]
        /\ \A n \in divs : \E k \in 1..Cardinality(divs) : SortedBy(divs, <)[k] = n
    BY <1>7, NumbersSort
  <2> QED BY <1>6, <2>1 DEF ToSet
<1> QED BY <1>6, <1>7, <1>8 DEF desc

-----------------------------------------------------------------------------
(* What verifies is the union *)

LEMMA VerifiedIsUnion ==
  ASSUME IInv, MergeInv, merging.pc = "own", Verifies(out)
  PROVE  LET divs == {merging.in[i].div : i \in DOMAIN merging.in}
         IN /\ Files(out) = UNION {Files(Packaged(d)) : d \in divs}
            /\ \A d \in divs : \A n \in Files(Packaged(d)) : out[n] = Packaged(d)[n]
            /\ Divisions(out) = divs
            /\ \A d \in divs : Desc(out).counts[d] = Desc(Packaged(d)).counts[d]
<1> DEFINE divs == {merging.in[i].div : i \in DOMAIN merging.in}
           lines == Joined(Packages)
           S == UNION {LinesOf(Packages[i]) : i \in DOMAIN merging.in}
<1>1. InputInv /\ out[Checksums] \in {Bad, <<"checksums", lines>>}
      /\ out[Descriptor] = <<"descriptor", JoinedDescriptor(Descs, out[Checksums][2])>>
  BY DEF MergeInv, OutInv
<1>2. /\ Is("checksums", out[Checksums])
      /\ {out[Checksums][2][i].name : i \in DOMAIN out[Checksums][2]} = Files(out)
      /\ \A i \in DOMAIN out[Checksums][2] : out[out[Checksums][2][i].name] = out[Checksums][2][i].hash
  BY DEF Verifies, ChainHolds
<1>3. out[Checksums] = <<"checksums", lines>>
  BY <1>1, <1>2 DEF Is, Bad
<1>4. out[Checksums][2] = lines /\ Desc(out) = JoinedDescriptor(Descs, lines)
  BY <1>1, <1>3 DEF Desc
<1>5. /\ \A k \in DOMAIN lines : lines[k] \in S
      /\ \A l \in S : \E k \in DOMAIN lines : lines[k] = l
  BY <1>1, JoinedLines
<1> HIDE DEF lines
<1>6. ASSUME NEW i \in DOMAIN merging.in
      PROVE  /\ Packages[i] = Packaged(merging.in[i].div)
             /\ LinesOf(Packages[i]) = {LineOf(Packages[i], n) : n \in Files(Packages[i])}
  <2>1. Packages[i] = Packaged(merging.in[i].div)
    BY DEF Packages
  <2> QED BY <1>1, <2>1, InputIs, LinesOfPackage
<1>7. ASSUME NEW n \in Files(out) PROVE \E d \in divs : n \in Files(Packaged(d))
  <2>1. PICK k \in DOMAIN lines : lines[k].name = n
    BY <1>2, <1>4
  <2>2. PICK i \in DOMAIN merging.in : lines[k] \in LinesOf(Packages[i])
    BY <1>5
  <2>3. PICK m \in Files(Packages[i]) : lines[k] = LineOf(Packages[i], m)
    BY <1>6, <2>2
  <2>4. m = n
    BY <2>1, <2>3 DEF LineOf
  <2> QED BY <1>6, <2>3, <2>4
<1>8. ASSUME NEW i \in DOMAIN merging.in, NEW n \in Files(Packages[i])
      PROVE  n \in Files(out) /\ out[n] = Packages[i][n]
  <2>1. LineOf(Packages[i], n) \in S
    BY <1>6
  <2>2. PICK k \in DOMAIN lines : lines[k] = LineOf(Packages[i], n)
    BY <1>5, <2>1
  <2>3. lines[k].name = n /\ lines[k].hash = Packages[i][n]
    BY <2>2 DEF LineOf
  <2> QED BY <1>2, <1>4, <2>3
<1>9. /\ ToSet(Desc(out).divisions) = divs
      /\ \A d \in divs : Desc(out).counts[d] = Desc(Packaged(d)).counts[d]
  <2>1. merging.pc # "idle" \/ merged # "none"
    OBVIOUS
  <2> DEFINE desc == JoinedDescriptor(Descs, lines)
  <2>2. /\ ToSet(desc.divisions) = divs
        /\ \A d \in divs : desc.counts[d] = Desc(Packaged(d)).counts[d]
    BY <1>1, <2>1, JoinedIs, Zenon
  <2> QED BY <1>4, <2>2
<1>10. Divisions(out) = divs
  BY <1>9 DEF Divisions, ToSet
<1>11. \A d \in divs : \A n \in Files(Packaged(d)) : n \in Files(out) /\ out[n] = Packaged(d)[n]
  BY <1>6, <1>8
<1>12. Files(out) = UNION {Files(Packaged(d)) : d \in divs}
  BY <1>7, <1>11
<1> QED BY <1>9, <1>10, <1>11, <1>12

-----------------------------------------------------------------------------
(* Undamaged inputs make a bundle that verifies *)

\* A package that verifies has the files of its division, and the snapshot.
LEMMA PackageFiles ==
  ASSUME NEW p, NEW d \in Division, IsDir(p, d), Verifies(p), Desc(p).divisions = <<d>>
  PROVE  /\ Divisions(p) = {d}
         /\ {Formats, Converters, Shard(d)} \subseteq Files(p)
         /\ \A n \in Files(p) : /\ n \in FileName /\ n[4] # "dir" /\ n[1] # "root"
                                /\ \/ n \in {Formats, Converters, Shard(d)}
                                   \/ n[1] = "mirror" /\ n[2] = d
<1>1. Divisions(p) = {d}
  BY DEF Divisions
<1>2. /\ {Descriptor, Checksums, Formats, Converters, Shard(d), Subtree(d)} \subseteq DOMAIN p
      /\ \A n \in DOMAIN p \ {Descriptor, Checksums, Formats, Converters, Shard(d), Subtree(d)} :
           n[1] = "mirror" /\ n[2] = d
  BY <1>1 DEF Verifies, LayoutHolds
<1>3. Files(p) = DOMAIN p \cap FileName
  BY FilesOfDir
<1>4. {Formats, Converters, Shard(d)} \subseteq Files(p)
  BY <1>2, <1>3, NamesDiffer
<1>5. ASSUME NEW n \in Files(p)
      PROVE  /\ n \in FileName /\ n[4] # "dir" /\ n[1] # "root"
             /\ \/ n \in {Formats, Converters, Shard(d)}
                \/ n[1] = "mirror" /\ n[2] = d
  <2>1. n \in FileName /\ n \in DOMAIN p
    BY <1>3
  <2>2. n[4] # "dir" /\ n[1] # "root"
    BY DEF Files
  <2>3. n \notin {Descriptor, Checksums, Subtree(d)}
    BY <2>2, NamesDiffer
  <2> QED BY <1>2, <2>1, <2>2, <2>3
<1> QED BY <1>1, <1>4, <1>5

\* The inputs of a merge that was checked.
LEMMA CheckedInput ==
  ASSUME IInv, MergeInv, merging.pc = "own", Undamaged, NEW i \in DOMAIN merging.in
  PROVE  LET d == merging.in[i].div
             p == Packages[i]
         IN /\ p = Packaged(d) /\ d \in Division /\ IsDir(p, d) /\ Verifies(p) /\ Desc(p).divisions = <<d>>
            /\ Divisions(p) = {d} /\ ToSet(Descs[i].divisions) = {d}
            /\ LinesOf(p) = {LineOf(p, n) : n \in Files(p)}
            /\ 1 \in DOMAIN merging.in /\ \A n \in {Formats, Converters} : p[n] = Packages[1][n]
<1> DEFINE d == merging.in[i].div
           p == Packages[i]
<1>1. p = Packaged(d)
  BY DEF Packages
<1>2. /\ d \in Division /\ IsDir(p, d) /\ Verifies(p) /\ Desc(p).divisions = <<d>>
      /\ p[Checksums] = <<"checksums", ChecksumLines(p)>> /\ Descs[i] = Desc(p)
  BY <1>1, InputIs DEF MergeInv, Descs
<1>3. Divisions(p) = {d} /\ ToSet(Descs[i].divisions) = {d}
  BY <1>2 DEF Divisions, ToSet
<1>4. LinesOf(p) = {LineOf(p, n) : n \in Files(p)}
  BY <1>2, LinesOfPackage
<1>5. 1 \in DOMAIN merging.in
  <2>1. Len(merging.in) >= 2 /\ Len(merging.in) \in Nat /\ DOMAIN merging.in = 1..Len(merging.in)
    BY LenProperties DEF MergeInv, CheckedInv, InputInv
  <2> QED BY <2>1
<1>6. \A n \in {Formats, Converters} : p[n] = Packages[1][n]
  BY DEF MergeInv, CheckedInv, Packages
<1> QED BY <1>1, <1>2, <1>3, <1>4, <1>5, <1>6

\* A file of two inputs is one of the snapshot, and the same in both.
LEMMA SharedFiles ==
  ASSUME IInv, MergeInv, merging.pc = "own", Undamaged, NEW i \in DOMAIN merging.in,
         NEW j \in DOMAIN merging.in, NEW n \in Files(Packages[i]), n \in Files(Packages[j])
  PROVE  Packages[i][n] = Packages[j][n]
<1> DEFINE d == merging.in[i].div
           e == merging.in[j].div
<1>1. /\ d \in Division /\ IsDir(Packages[i], d) /\ Verifies(Packages[i])
      /\ Desc(Packages[i]).divisions = <<d>>
      /\ \A m \in {Formats, Converters} : Packages[i][m] = Packages[1][m]
  BY CheckedInput
<1>2. /\ e \in Division /\ IsDir(Packages[j], e) /\ Verifies(Packages[j])
      /\ Desc(Packages[j]).divisions = <<e>>
      /\ \A m \in {Formats, Converters} : Packages[j][m] = Packages[1][m]
  BY CheckedInput
<1>3. n \in {Formats, Converters, Shard(d)} \/ (n[1] = "mirror" /\ n[2] = d)
  BY <1>1, PackageFiles
<1>4. n \in {Formats, Converters, Shard(e)} \/ (n[1] = "mirror" /\ n[2] = e)
  BY <1>2, PackageFiles
<1>5. CASE n \in {Formats, Converters}
  BY <1>1, <1>2, <1>5
<1>6. CASE n \notin {Formats, Converters}
  <2>1. n[2] = d /\ n[2] = e
    BY <1>3, <1>4, <1>6 DEF Shard
  <2>2. i = j
    BY <2>1 DEF MergeInv, CheckedInv
  <2> QED BY <2>2
<1> QED BY <1>5, <1>6

\* What merge has written: every file of its inputs, as it is in them.
LEMMA MergedIs ==
  ASSUME IInv, MergeInv, merging.pc = "own", Undamaged
  PROVE  LET divs == {merging.in[i].div : i \in DOMAIN merging.in}
         IN /\ Files(out) = UNION {Files(Packages[i]) : i \in DOMAIN merging.in}
            /\ DOMAIN out = Files(out) \cup {Subtree(d) : d \in divs} \cup {Checksums, Descriptor}
            /\ \A i \in DOMAIN merging.in : \A n \in Files(Packages[i]) : out[n] = Packages[i][n]
            /\ out[Checksums] = <<"checksums", Joined(Packages)>>
            /\ out[Descriptor] = <<"descriptor", JoinedDescriptor(Descs, Joined(Packages))>>
<1> DEFINE divs == {merging.in[i].div : i \in DOMAIN merging.in}
           taken(i) == {n \in Files(Packages[i]) : n[1] = "rules" => i = 1}
           subtrees == {Subtree(d) : d \in UNION {ToSet(Descs[i].divisions) : i \in DOMAIN Descs}}
           all == UNION {taken(i) : i \in DOMAIN Packages}
           from(n) == CHOOSE i \in DOMAIN Packages : n \in taken(i)
           copy == Copied(Descs, Packages)
<1>1. copy = [n \in all \cup subtrees |-> IF n \in subtrees THEN Bad ELSE Packages[from(n)][n]]
  BY DEF Copied
<1>2. DOMAIN Packages = DOMAIN merging.in /\ DOMAIN Descs = DOMAIN merging.in
  BY DEF Packages, Descs
<1>3. ASSUME NEW i \in DOMAIN merging.in
      PROVE  /\ merging.in[i].div \in Division /\ ToSet(Descs[i].divisions) = {merging.in[i].div}
             /\ 1 \in DOMAIN merging.in
  BY CheckedInput
<1>4. ASSUME NEW i \in DOMAIN merging.in
          PROVE  /\ {Formats, Converters} \subseteq Files(Packages[i])
                 /\ \A n \in Files(Packages[i]) : /\ n[4] # "dir" /\ n[1] # "root"
                                                  /\ n[1] = "rules" => n \in {Formats, Converters}
  <2> DEFINE d == merging.in[i].div
  <2>1. /\ d \in Division /\ IsDir(Packages[i], d) /\ Verifies(Packages[i])
        /\ Desc(Packages[i]).divisions = <<d>>
    BY CheckedInput
  <2> HIDE DEF d
  <2>2. ASSUME NEW n \in Files(Packages[i])
        PROVE  n[4] # "dir" /\ n[1] # "root" /\ (n[1] = "rules" => n \in {Formats, Converters})
    <3>1. /\ n[4] # "dir" /\ n[1] # "root"
          /\ n \in {Formats, Converters, Shard(d)} \/ n[1] = "mirror"
      BY <2>1, PackageFiles
    <3> QED BY <2>1, <3>1, NamesDiffer
  <2> QED BY <2>1, <2>2, PackageFiles
<1>5. subtrees = {Subtree(d) : d \in divs}
  <2>1. \A i \in DOMAIN Descs : ToSet(Descs[i].divisions) = {merging.in[i].div}
    BY <1>2, <1>3
  <2>2. UNION {ToSet(Descs[i].divisions) : i \in DOMAIN Descs} = divs
    BY <1>2, <2>1
  <2> QED BY <2>2
<1>6. all = UNION {Files(Packages[i]) : i \in DOMAIN merging.in}
  <2>1. ASSUME NEW i \in DOMAIN merging.in, NEW n \in Files(Packages[i])
        PROVE  \E j \in DOMAIN merging.in : n \in taken(j)
    <3>1. CASE n[1] = "rules"
      <4>1. 1 \in DOMAIN merging.in /\ n \in taken(1)
        BY <1>3, <1>4, <3>1
      <4> QED BY <4>1
    <3>2. CASE n[1] # "rules"
      BY <3>2
    <3> QED BY <3>1, <3>2
  <2> QED BY <1>2, <2>1
<1>7. ASSUME NEW i \in DOMAIN merging.in, NEW n \in Files(Packages[i])
      PROVE  n \in all /\ n \notin subtrees /\ Packages[from(n)][n] = Packages[i][n]
  <2>1. n \in all
    BY <1>6
  <2>2. n \notin subtrees
    <3>1. n[4] # "dir"
      BY <1>4, Zenon
    <3> QED BY <1>5, <3>1 DEF Subtree
  <2>3. from(n) \in DOMAIN merging.in /\ n \in Files(Packages[from(n)])
    BY <1>2, <2>1
  <2> QED BY <2>1, <2>2, <2>3, SharedFiles
<1> HIDE DEF all, subtrees, from, copy
<1>8. DOMAIN copy = all \cup subtrees /\ \A i \in DOMAIN merging.in : \A n \in Files(Packages[i]) : copy[n] = Packages[i][n]
  BY <1>1, <1>7
<1>9. /\ DOMAIN out = all \cup subtrees \cup {Checksums, Descriptor}
      /\ \A n \in all \cup subtrees : n \notin {Checksums, Descriptor} => out[n] = copy[n]
      /\ out[Checksums] = <<"checksums", Joined(Packages)>>
      /\ out[Descriptor] = <<"descriptor", JoinedDescriptor(Descs, Joined(Packages))>>
  <2>1. Checksums # Descriptor
    BY DEF Checksums, Descriptor
  <2>2. out = With(With(copy, Checksums, <<"checksums", Joined(Packages)>>),
                   Descriptor, <<"descriptor", JoinedDescriptor(Descs, Joined(Packages))>>)
    BY DEF MergeInv, OutInv, MergedBundle, MergedFiles, copy
  <2> QED BY <1>8, <2>1, <2>2 DEF With
<1>10. ASSUME NEW i \in DOMAIN merging.in, NEW n \in Files(Packages[i]) PROVE out[n] = Packages[i][n]
  <2>1. n \notin {Checksums, Descriptor}
    <3>1. n[1] # "root"
      BY <1>4, Zenon
    <3> QED BY <3>1 DEF Checksums, Descriptor
  <2> QED BY <1>7, <1>8, <1>9, <2>1
<1>11. Files(out) = all
  <2>1. ASSUME NEW n \in all PROVE n[1] # "root" /\ n[4] # "dir"
    <3>1. PICK i \in DOMAIN merging.in : n \in Files(Packages[i])
      BY <1>6
    <3> QED BY <1>4, <3>1, Zenon
  <2>2. \A n \in subtrees : n[4] = "dir"
    BY <1>5 DEF Subtree
  <2>3. Checksums[1] = "root" /\ Descriptor[1] = "root"
    BY DEF Checksums, Descriptor
  <2> QED BY <1>9, <2>1, <2>2, <2>3 DEF Files
<1> QED BY <1>5, <1>6, <1>9, <1>10, <1>11

\* The merged bundle verifies, one step of verify after the other.
LEMMA UndamagedVerifies ==
  ASSUME IInv, MergeInv, merging.pc = "own", Undamaged
  PROVE  Verifies(out)
<1> DEFINE In == DOMAIN merging.in
           divs == {merging.in[i].div : i \in In}
           lines == Joined(Packages)
           desc == JoinedDescriptor(Descs, lines)
<1>1. InputInv
  BY DEF MergeInv
<1>2. /\ Files(out) = UNION {Files(Packages[i]) : i \in In}
      /\ DOMAIN out = Files(out) \cup {Subtree(d) : d \in divs} \cup {Checksums, Descriptor}
      /\ \A i \in In : \A n \in Files(Packages[i]) : out[n] = Packages[i][n]
      /\ out[Checksums] = <<"checksums", lines>> /\ out[Descriptor] = <<"descriptor", desc>>
  BY MergedIs, Zenon
<1>3. /\ divs \in SUBSET Nat /\ IsFiniteSet(divs)
      /\ desc.divisions = SortedBy(divs, <) /\ desc.checksums = lines
      /\ ToSet(desc.divisions) = divs
      /\ DOMAIN desc.counts = divs
      /\ \A d \in divs : /\ desc.counts[d] = Desc(Packaged(d)).counts[d]
                         /\ desc.coverage[d] = Desc(Packaged(d)).coverage[d]
  <2>1. merging.pc # "idle" \/ merged # "none"
    OBVIOUS
  <2> QED BY <1>1, <2>1, JoinedIs, Zenon
<1>4. Desc(out) = desc /\ Divisions(out) = divs
  <2>1. Desc(out) = desc
    BY <1>2 DEF Desc
  <2> HIDE DEF desc, divs
  <2> QED BY <1>3, <2>1 DEF Divisions, ToSet
<1>5. ASSUME NEW i \in In
      PROVE  LET d == merging.in[i].div
                 p == Packages[i]
             IN /\ d \in Division /\ p = Packaged(d) /\ Verifies(p) /\ Divisions(p) = {d}
                /\ {Formats, Converters, Shard(d)} \subseteq Files(p)
                /\ \A n \in Files(p) : \/ n \in {Formats, Converters, Shard(d)}
                                       \/ n[1] = "mirror" /\ n[2] = d
                /\ LinesOf(p) = {LineOf(p, n) : n \in Files(p)}
                /\ Files(p) \subseteq DOMAIN p
  <2> DEFINE d == merging.in[i].div
             p == Packages[i]
  <2>1. Files(p) \subseteq DOMAIN p
    BY DEF Files
  <2>2. /\ p = Packaged(d) /\ d \in Division /\ IsDir(p, d) /\ Verifies(p) /\ Desc(p).divisions = <<d>>
        /\ LinesOf(p) = {LineOf(p, n) : n \in Files(p)}
    BY CheckedInput
  <2> HIDE DEF d, p
  <2>3. /\ Divisions(p) = {d}
        /\ {Formats, Converters, Shard(d)} \subseteq Files(p)
        /\ \A n \in Files(p) : \/ n \in {Formats, Converters, Shard(d)}
                               \/ n[1] = "mirror" /\ n[2] = d
    BY <2>2, PackageFiles
  <2>4. /\ d \in Division /\ p = Packaged(d) /\ Verifies(p) /\ Divisions(p) = {d}
        /\ {Formats, Converters, Shard(d)} \subseteq Files(p)
        /\ \A n \in Files(p) : \/ n \in {Formats, Converters, Shard(d)}
                               \/ n[1] = "mirror" /\ n[2] = d
        /\ LinesOf(p) = {LineOf(p, n) : n \in Files(p)}
        /\ Files(p) \subseteq DOMAIN p
    BY <2>1, <2>2, <2>3
  <2> QED BY <2>4 DEF d, p
<1> HIDE DEF desc, lines, divs
<1>6. ASSUME NEW d \in divs
      PROVE  \E i \in In : /\ d = merging.in[i].div
                           /\ ShardOf(out, d) = ShardOf(Packages[i], d)
                           /\ Verifies(Packages[i]) /\ Divisions(Packages[i]) = {d}
                           /\ Shard(d) \in Files(Packages[i]) /\ out[Shard(d)] = Packages[i][Shard(d)]
  <2>1. PICK i \in In : d = merging.in[i].div
    BY DEF divs
  <2> QED BY <1>2, <1>5, <2>1 DEF ShardOf
<1>7. DescriptorHolds(out)
  <2> DEFINE ds == desc.divisions
             N == Cardinality(divs)
  <2>1. /\ ds \in [1..N -> divs] /\ N \in Nat
        /\ \A j, k \in 1..N : j < k => ds[j] < ds[k]
    BY <1>3, NumbersSort, FS_CardinalityType
  <2>2. ASSUME NEW j \in 1..N, NEW k \in 1..N, j < k
        PROVE  ds[j] < ds[k] /\ DivKey[ds[j]] # DivKey[ds[k]]
    <3>1. ds[j] < ds[k] /\ ds[j] \in divs /\ ds[k] \in divs
      BY <2>1, <2>2
    <3>2. ds[j] # ds[k]
      <4>1. divs \in SUBSET Nat
        BY <1>3
      <4>2. ds[j] \in Nat /\ ds[k] \in Nat
        BY <3>1, <4>1
      <4> QED BY <3>1, <4>2
    <3>3. PICK a \in In : ds[j] = merging.in[a].div
      BY <3>1 DEF divs
    <3>4. PICK b \in In : ds[k] = merging.in[b].div
      BY <3>1 DEF divs
    <3> QED BY <3>1, <3>2, <3>3, <3>4 DEF MergeInv, CheckedInv
  <2>3. DOMAIN ds = 1..N
    BY <2>1
  <2>4. Descriptor \in DOMAIN out /\ Is("descriptor", out[Descriptor])
    BY <1>2 DEF Is
  <2> HIDE DEF ds, N
  <2>5. \A j \in DOMAIN ds : \A k \in DOMAIN ds : j < k => ds[j] < ds[k] /\ DivKey[ds[j]] # DivKey[ds[k]]
    BY <2>2, <2>3
  <2> QED BY <1>4, <2>4, <2>5 DEF DescriptorHolds, ds
<1>8. LayoutHolds(out)
  <2>1. \A d \in divs : Shard(d) \in DOMAIN out /\ Subtree(d) \in DOMAIN out
    BY <1>2, <1>6
  <2>2. {Formats, Converters} \subseteq DOMAIN out
    <3>1. 1 \in In
      <4>1. Len(merging.in) >= 2 /\ Len(merging.in) \in Nat /\ In = 1..Len(merging.in)
        BY LenProperties DEF MergeInv, CheckedInv, InputInv
      <4> QED BY <4>1
    <3> QED BY <1>2, <1>5, <3>1
  <2>3. ASSUME NEW n \in DOMAIN out,
               n \notin {Descriptor, Checksums, Formats, Converters} \cup {Shard(d) : d \in divs}
                          \cup {Subtree(d) : d \in divs}
        PROVE  n[1] = "mirror" /\ n[2] \in divs
    <3>1. PICK i \in In : n \in Files(Packages[i])
      BY <1>2, <2>3
    <3>2. merging.in[i].div \in divs
      BY DEF divs
    <3> QED BY <1>5, <2>3, <3>1, <3>2
  <2> QED BY <1>2, <1>4, <2>1, <2>2, <2>3 DEF LayoutHolds
<1>9. ChainHolds(out)
  <2> DEFINE S == UNION {LinesOf(Packages[i]) : i \in In}
  <2>1. /\ DOMAIN lines = 1..Cardinality(S) /\ Cardinality(S) \in Nat
        /\ \A k \in DOMAIN lines : lines[k] \in S
        /\ \A l \in S : \E k \in DOMAIN lines : lines[k] = l
        /\ \A j, k \in DOMAIN lines : j < k =>
             lines[j] # lines[k] /\ (lines[j].name # lines[k].name => Before(lines[j].name, lines[k].name))
    <3>1. merging.pc # "idle" \/ merged # "none"
      OBVIOUS
    <3> QED BY <1>1, <3>1, JoinedLines, Zenon DEF lines
  <2>2. \A l \in S : l.name \in Files(out) /\ l = LineOf(out, l.name)
    <3>1. ASSUME NEW i \in In, NEW n \in Files(Packages[i])
          PROVE  LineOf(Packages[i], n) = LineOf(out, n) /\ LineOf(out, n).name = n /\ n \in Files(out)
      BY <1>2 DEF LineOf
    <3> QED BY <1>5, <3>1
  <2>3. \A n \in Files(out) : \E l \in S : l.name = n
    <3>1. ASSUME NEW i \in In, NEW n \in Files(Packages[i])
          PROVE  LineOf(Packages[i], n) \in S /\ LineOf(Packages[i], n).name = n
      BY <1>5 DEF LineOf
    <3> QED BY <1>2, <3>1
  <2> HIDE DEF S
  <2>4. {lines[k].name : k \in DOMAIN lines} = Files(out)
    BY <2>1, <2>2, <2>3
  <2>5. \A k \in DOMAIN lines : out[lines[k].name] = lines[k].hash
    BY <2>1, <2>2 DEF LineOf
  <2>6. WellFormed(lines)
    <3>1. ASSUME NEW k \in DOMAIN lines, k > 1 PROVE Before(lines[k - 1].name, lines[k].name)
      <4>1. k - 1 \in DOMAIN lines /\ k - 1 < k
        BY <2>1, <3>1
      <4>2. lines[k - 1].name # lines[k].name
        BY <2>1, <2>2, <4>1
      <4> QED BY <2>1, <4>1, <4>2
    <3> QED BY <3>1 DEF WellFormed
  <2>7. Is("checksums", out[Checksums]) /\ out[Checksums][2] = lines /\ lines = Desc(out).checksums
    <3>1. lines = Desc(out).checksums
      <4>1. desc.checksums = lines
        BY <1>3
      <4>2. Desc(out) = desc
        BY <1>4
      <4> QED BY <4>1, <4>2
    <3>2. Is("checksums", out[Checksums]) /\ out[Checksums][2] = lines
      <4>1. out[Checksums] = <<"checksums", lines>>
        BY <1>2
      <4> QED BY <4>1 DEF Is
    <3> QED BY <3>1, <3>2
  <2> QED BY <2>4, <2>5, <2>6, <2>7 DEF ChainHolds
<1>10. ShardsParse(out)
  <2>1. ASSUME NEW d \in divs PROVE Is("shard", out[Shard(d)]) /\ ShardOf(out, d).tail = "lf"
    <3>1. PICK i \in In : /\ ShardOf(out, d) = ShardOf(Packages[i], d)
                          /\ Verifies(Packages[i]) /\ Divisions(Packages[i]) = {d}
                          /\ out[Shard(d)] = Packages[i][Shard(d)]
      BY <1>6
    <3> QED BY <3>1 DEF Verifies, ShardsParse
  <2> QED BY <1>4, <2>1 DEF ShardsParse
<1>11. SnapshotHolds(out)
  <2>1. \A i \in In : out[Formats] = Packages[i][Formats] /\ out[Converters] = Packages[i][Converters]
    BY <1>2, <1>5
  <2>2. ASSUME NEW d \in divs
        PROVE  /\ out[Formats] = out[Converters] /\ Is("rules", out[Formats])
               /\ \A r \in Effective(ShardOf(out, d).log) : r.rules = out[Formats][2]
    <3>1. PICK i \in In : /\ ShardOf(out, d) = ShardOf(Packages[i], d)
                          /\ Verifies(Packages[i]) /\ Divisions(Packages[i]) = {d}
      BY <1>6
    <3> QED BY <2>1, <3>1 DEF Verifies, SnapshotHolds
  <2>3. divs # {}
    <3>1. 1 \in In
      <4>1. Len(merging.in) >= 2 /\ Len(merging.in) \in Nat /\ In = 1..Len(merging.in)
        BY LenProperties DEF MergeInv, CheckedInv, InputInv
      <4> QED BY <4>1
    <3> QED BY <3>1 DEF divs
  <2> QED BY <1>4, <2>2, <2>3 DEF SnapshotHolds
<1>12. ArtifactsMatch(out)
  <2>1. ASSUME NEW d \in divs, NEW r \in Bearing(ShardOf(out, d).log)
        PROVE  Text(d, r.path) \in DOMAIN out /\ out[Text(d, r.path)] = <<"text", r.text>>
    <3>1. PICK i \in In : /\ ShardOf(out, d) = ShardOf(Packages[i], d)
                          /\ Verifies(Packages[i]) /\ Divisions(Packages[i]) = {d}
      BY <1>6
    <3>2. /\ Text(d, r.path) \in DOMAIN Packages[i]
          /\ Packages[i][Text(d, r.path)] = <<"text", r.text>>
      BY <3>1 DEF Verifies, ArtifactsMatch
    <3>3. Text(d, r.path) \in Files(Packages[i])
      BY <3>2 DEF Files, Text
    <3> QED BY <1>2, <3>2, <3>3
  <2> QED BY <1>4, <2>1 DEF ArtifactsMatch
<1>13. NothingUnreferenced(out)
  <2>1. ASSUME NEW n \in Files(out), n[1] = "mirror" PROVE n \in Referenced(out)
    <3>1. PICK i \in In : n \in Files(Packages[i])
      BY <1>2
    <3> DEFINE d == merging.in[i].div
               log == ShardOf(Packages[i], d).log
    <3>2. Verifies(Packages[i]) /\ Divisions(Packages[i]) = {d} /\ Shard(d) \in Files(Packages[i])
      BY <1>5
    <3>3. n \in Referenced(Packages[i])
      BY <2>1, <3>1, <3>2 DEF Verifies, NothingUnreferenced
    <3>4. PICK r \in Bearing(log) : n \in {Text(d, r.path), Segments(d, r.path)}
      BY <3>2, <3>3 DEF Referenced
    <3>5. ShardOf(out, d) = ShardOf(Packages[i], d) /\ d \in divs
      BY <1>2, <3>2 DEF ShardOf, divs
    <3> QED BY <1>4, <3>4, <3>5 DEF Referenced
  <2> QED BY <2>1 DEF NothingUnreferenced
<1>14. NoCollision(out)
  <2>1. ASSUME NEW d \in divs, NEW r \in Bearing(ShardOf(out, d).log), NEW s \in Bearing(ShardOf(out, d).log),
               r.path # s.path
        PROVE  PathKey[r.path] # PathKey[s.path]
    <3>1. PICK i \in In : /\ ShardOf(out, d) = ShardOf(Packages[i], d)
                          /\ Verifies(Packages[i]) /\ Divisions(Packages[i]) = {d}
      BY <1>6
    <3> QED BY <2>1, <3>1 DEF Verifies, NoCollision
  <2> QED BY <1>4, <2>1 DEF NoCollision
<1>15. CountsAgree(out)
  <2>1. ASSUME NEW d \in divs
        PROVE  /\ Desc(out).counts[d] = Counts(ShardOf(out, d).log)
               /\ Desc(out).coverage[d] = Coverage(ShardOf(out, d).log)
    <3>1. PICK i \in In : /\ d = merging.in[i].div /\ ShardOf(out, d) = ShardOf(Packages[i], d)
                          /\ Verifies(Packages[i]) /\ Divisions(Packages[i]) = {d}
      BY <1>6
    <3>2. /\ Desc(Packages[i]).counts[d] = Counts(ShardOf(Packages[i], d).log)
          /\ Desc(Packages[i]).coverage[d] = Coverage(ShardOf(Packages[i], d).log)
      BY <3>1 DEF Verifies, CountsAgree
    <3>3. Packages[i] = Packaged(d)
      BY <1>5, <3>1
    <3> QED BY <1>3, <1>4, <3>1, <3>2, <3>3
  <2> QED BY <1>3, <1>4, <2>1 DEF CountsAgree
<1> QED BY <1>7, <1>8, <1>9, <1>10, <1>11, <1>12, <1>13, <1>14, <1>15 DEF Verifies

\* The last step of a merge keeps the invariant.
LEMMA OwnKeepsMergeInv ==
  ASSUME IInv, MergeInv, VerifyMerged
  PROVE  MergeInv'
<1>1. merging.pc = "own"
  BY DEF VerifyMerged
<1>2. CASE ~Verifies(out)
  BY <1>1, <1>2, EndKeepsMergeInv, UndamagedVerifies DEF VerifyMerged
<1>3. CASE Verifies(out)
  <2>1. MergeStep("idle", merging.in) /\ merged' = "ok" /\ out' = out
    BY <1>3 DEF VerifyMerged, EndMerge
  <2>2. /\ InputInv' /\ merging'.in = merging.in /\ merging'.pc = "idle"
        /\ \A d : Packaged(d)' = Packaged(d)
    BY <1>1, <2>1, SameInputs, MergeStepKeeps DEF MergeInv
  <2>3. MergedIsUnion'
    <3> DEFINE divs == {merging.in[i].div : i \in DOMAIN merging.in}
    <3>1. /\ Files(out) = UNION {Files(Packaged(d)) : d \in divs}
          /\ \A d \in divs : \A n \in Files(Packaged(d)) : out[n] = Packaged(d)[n]
          /\ Divisions(out) = divs
          /\ \A d \in divs : Desc(out).counts[d] = Desc(Packaged(d)).counts[d]
      BY <1>1, <1>3, VerifiedIsUnion, Zenon
    <3> QED BY <2>1, <2>2, <3>1 DEF MergedIsUnion, Desc
  <2>4. CheckedInv' /\ OutInv' /\ UndamagedMerges'
    BY <2>1, <2>2 DEF CheckedInv, OutInv, UndamagedMerges
  <2> QED BY <2>2, <2>3, <2>4 DEF MergeInv
<1> QED BY <1>2, <1>3

-----------------------------------------------------------------------------
(* The theorems *)

\* Every step keeps what is known of a merge.
LEMMA MergeInvIsInductive ==
  ASSUME IInv, MergeInv, [Next]_vars
  PROVE  MergeInv'
<1>1. ASSUME \/ RunStep \/ Bump
             \/ \E d \in Division : ReadBytes(d) \/ Damage(d) \/ \E p \in Path : Delete(d, p)
             \/ ParseShard \/ CheckAndList \/ CopyFile \/ EndCopy \/ WriteRest \/ VerifyOwn \/ KillBundle
      PROVE  MergeInv'
  BY <1>1, OthersKeepMergeInv
<1>2. ASSUME \/ \E d \in Division : VerifyInput(d)
             \/ StartMerge \/ CheckInputs \/ CopyInputs \/ WriteDescriptor \/ VerifyMerged
      PROVE  MergeInv'
  BY <1>2, VerifyKeepsMergeInv, StartKeepsMergeInv, CheckKeepsMergeInv, CopyKeepsMergeInv,
     DescriptorKeepsMergeInv, OwnKeepsMergeInv
<1>3. ASSUME UNCHANGED vars PROVE MergeInv'
  BY <1>3, MergeInvStays DEF vars, bundler, IInv
<1> QED BY <1>1, <1>2, <1>3 DEF Next

LEMMA MergeInvAtStart ==
  ASSUME Init
  PROVE  MergeInv
BY DEF Init, NoMerge, MergeInv, InputInv, CheckedInv, OutInv, MergedIsUnion, UndamagedMerges

\* It holds in every reachable state.
THEOREM MergeInvHolds == Spec => []MergeInv
BY InvariantHolds, MergeInvAtStart, MergeInvIsInductive, PTL DEF Spec

\* A merge reported ok is the exact union of its inputs as they were
\* packaged, whatever happened to them on the way (merge).
THEOREM MergesAreUnions == Spec => []MergedIsUnion
<1>1. MergeInv => MergedIsUnion
  BY DEF MergeInv
<1> QED BY <1>1, MergeInvHolds, PTL

\* A merge that does not verify had an input that was damaged (merge).
THEOREM UndamagedInputsMerge == Spec => []UndamagedMerges
<1>1. MergeInv => UndamagedMerges
  BY DEF MergeInv
<1> QED BY <1>1, MergeInvHolds, PTL
=============================================================================
