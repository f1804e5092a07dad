--------------------------- MODULE ExpansionProofs --------------------------
(***************************************************************************)
(* Proofs about Expansion.tla, for any division, any archives in archives  *)
(* and any limits.  What lies below an entry is written in many steps,     *)
(* before and after the entry's own record, so the invariant follows each  *)
(* record of the entry's tree: it stands over its artifact, or it is in    *)
(* hand, or the reconciliation that is still on the agenda retires it.     *)
(* Entries do not disturb each other, since their trees are apart.  A       *)
(* second invariant relates the chain each task carries to the containers  *)
(* that are open around it.                                                *)
(***************************************************************************)
EXTENDS Expansion, FiniteSetTheorems, SequenceTheorems, WellFoundedInduction, TLAPS

-----------------------------------------------------------------------------
(* The agenda *)

Tree(r) == {p \in Seq(Name) : p = r \/ Under(r, p)}
Below(r) == {p \in Seq(Name) : Under(r, p)}

\* The tasks of the entry r.
Task(r) ==
  [op : {"unit"}, path : Tree(r), content : Content, depth : Nat, chain : SUBSET Content]
  \cup [op : {"leg"}, path : Tree(r), content : {c \in Content : HasLeg(c)}]
  \cup [op : {"member"}, path : Tree(r), depth : Nat, chain : SUBSET Content,
        member : [name : Seq(Name) \ {<<>>}, content : Content \cup {Refused}]]
  \cup [op : {"close"}, path : Tree(r), content : Content, capped : BOOLEAN]
  \cup [op : {"retire"}, left : SUBSET Below(r)]
  \cup [op : {"reconcile"}]

\* The agenda of an entry whose namespace is claimed ends in its
\* reconciliation, and every member is followed by the close of its container.
\* Without a claim there is one task.
Formed(a, owned, r) ==
  /\ a \in Seq(Task(r))
  /\ \A i \in DOMAIN a :
       /\ a[i].op = "member" => i + 1 \in DOMAIN a /\ a[i + 1].op \in {"member", "close"}
       /\ a[i].op = "reconcile" <=> owned /\ i = Len(a)
       /\ a[i].op = "retire" => ~owned
       /\ a[i].op = "close" => owned
  /\ owned => a # <<>>
  /\ ~owned => Len(a) <= 1

\* The same task, or the close of the same container.
Same(s, t) == s = t \/ (/\ s.op = "close" /\ t.op = "close"
                        /\ s.path = t.path /\ s.content = t.content)

\* The record of a container at p is still to come.
Due(a, p) == \E i \in 1..Len(a) : a[i].op = "close" /\ a[i].path = p

AgendaInv ==
  /\ claim # None => Formed(agenda, TRUE, cur) /\ claim.prefix = cur
  /\ claim = None =>
       /\ Formed(agenda, FALSE, cur)
       /\ agenda # <<>> =>
            /\ Head(agenda).op \in {"unit", "leg"} => Head(agenda).path = cur
            /\ Head(agenda).op = "unit" => Head(agenda).content = source[cur] \/ cur \in moved

\* The entries come in walk order.
OrderInv ==
  /\ ~running => queue = {} /\ cur = None
  /\ cur = None => agenda = <<>> /\ held = None /\ claim = None
  /\ \A r \in visited : cur # None => Place(r) < Place(cur)
  /\ \A w \in queue : /\ cur # None => Place(cur) < Place(w)
                      /\ \A r \in visited : Place(r) < Place(w)
  /\ IsFiniteSet(DOMAIN terminal)

-----------------------------------------------------------------------------
(* Records over their artifacts *)

\* A live record stands over its artifact, unless it was damaged since; or it
\* is about to be replaced.
Whole(p) == Live(p) => Intact(p) \/ p \in moved
Holds(p) == held # None /\ held.path = p
Kept(p) == Whole(p) \/ Holds(p)

HeldInv ==
  held # None =>
    /\ held.path \in Tree(cur)
    /\ held.record.status \in Bearing =>
         \/ held.path \in moved
         \/ held.path \in DOMAIN mirror /\ mirror[held.path] = held.record.hash

\* What this expansion emitted, and what is left once it is reconciled.
EmittedInv == claim # None => \A q \in claim.emitted : Kept(q)

RetireInv ==
  agenda # <<>> /\ Head(agenda).op = "retire" =>
    \A q \in DOMAIN terminal : Under(cur, q) => Kept(q) \/ q \in Head(agenda).left

\* The record of the entry itself is due until its unit or its container has
\* been done.
RootInv ==
  cur # None => \/ Kept(cur)
                \/ agenda # <<>> /\ Head(agenda).op = "unit" /\ Head(agenda).path = cur
                \/ Due(agenda, cur)

\* What r holds, without the parts of other entries.
Own(r, p) == Under(r, p) /\ \A w \in Roots : Under(r, w) => p # w /\ ~Under(w, p)

\* With the record rec, the outcome of the entry r went through the checkpoint
\* of a subtree or a reconciliation.
Binding(r, rec) ==
  LET c == source[r]
  IN /\ r \notin moved /\ c # Absent /\ Kind[c] # "barred"
     /\ HasLeg(c) => ~EverOccupied(r)
     /\ rec.status = "borrowed" => HasLeg(c)
     /\ rec.status \in Bearing /\ HasChildren(rec.hash)

Unbound(r) == IF Holds(r) THEN ~Binding(r, held.record)
              ELSE r \in DOMAIN terminal => ~Binding(r, terminal[r])

CurInv == cur # None /\ agenda = <<>> =>
            Unbound(cur) \/ \A p \in DOMAIN terminal : Under(cur, p) => Kept(p)

VisitedInv ==
  \A r \in visited :
    /\ Whole(r)
    /\ r \in DOMAIN terminal /\ Binding(r, terminal[r]) =>
         \A p \in DOMAIN terminal : Own(r, p) => Whole(p)

IInv == /\ TypeOK /\ AgendaInv /\ OrderInv
        /\ HeldInv /\ EmittedInv /\ RetireInv /\ RootInv /\ CurInv /\ VisitedInv

-----------------------------------------------------------------------------
(* Paths *)

\* A path lies under another one if it begins with it and is longer.
LEMMA UnderIs ==
  ASSUME NEW p \in Seq(Name), NEW q \in Seq(Name)
  PROVE  /\ Under(p, q) <=> Len(p) < Len(q) /\ \A i \in 1..Len(p) : q[i] = p[i]
         /\ Len(p) \in Nat /\ Len(q) \in Nat
<1>1. /\ Len(p) \in Nat /\ Len(q) \in Nat /\ DOMAIN p = 1..Len(p) /\ DOMAIN q = 1..Len(q)
      /\ p \in [1..Len(p) -> Name] /\ q \in [1..Len(q) -> Name]
  BY LenProperties
<1>2. SubSeq(p, 1, Len(p)) = p
  BY <1>1
<1>3. ASSUME Len(p) <= Len(q)
      PROVE  SubSeq(q, 1, Len(p)) = [i \in 1..Len(p) |-> q[i]]
  BY <1>1, <1>3
<1>4. ASSUME Under(p, q) PROVE Len(p) < Len(q) /\ \A i \in 1..Len(p) : q[i] = p[i]
  <2>1. Len(p) <= Len(q) /\ p = [i \in 1..Len(p) |-> q[i]] /\ p # q
    BY <1>2, <1>3, <1>4 DEF Under, IsStrictPrefix, IsPrefix
  <2>2. Len(p) # Len(q)
    <3> SUFFICES ASSUME Len(p) = Len(q) PROVE FALSE
      OBVIOUS
    <3>1. \A i \in 1..Len(p) : p[i] = q[i]
      BY <2>1
    <3> QED BY <2>1, <3>1, SeqEqual
  <2>3. Len(p) < Len(q)
    <3>1. Len(p) \in Nat /\ Len(q) \in Nat
      BY <1>1
    <3>2. Len(p) <= Len(q)
      BY <2>1
    <3> QED BY <2>2, <3>1, <3>2
  <2>4. \A i \in 1..Len(p) : q[i] = p[i]
    BY <2>1
  <2> QED BY <2>3, <2>4
<1>5. ASSUME Len(p) < Len(q), \A i \in 1..Len(p) : q[i] = p[i] PROVE Under(p, q)
  <2>1. p = [i \in 1..Len(p) |-> q[i]]
    BY <1>1, <1>5
  <2> QED BY <1>1, <1>2, <1>3, <1>5, <2>1 DEF Under, IsStrictPrefix, IsPrefix
<1> QED BY <1>1, <1>4, <1>5

LEMMA UnderIsOrder ==
  ASSUME NEW p \in Seq(Name), NEW q \in Seq(Name), NEW r \in Seq(Name)
  PROVE  /\ ~Under(p, p)
         /\ Under(p, q) /\ Under(q, r) => Under(p, r)
         /\ Under(p, r) /\ Under(q, r) => p = q \/ Under(p, q) \/ Under(q, p)
<1>1. /\ Len(p) \in Nat /\ DOMAIN p = 1..Len(p) /\ p = [i \in 1..Len(p) |-> p[i]]
      /\ Len(q) \in Nat /\ DOMAIN q = 1..Len(q) /\ q = [i \in 1..Len(q) |-> q[i]]
  BY LenProperties
<1>2. ~Under(p, p)
  BY UnderIs
<1>3. Under(p, q) /\ Under(q, r) => Under(p, r)
  <2> SUFFICES ASSUME Under(p, q), Under(q, r) PROVE Under(p, r)
    OBVIOUS
  <2>1. Len(p) < Len(q) /\ \A i \in 1..Len(p) : q[i] = p[i]
    BY UnderIs
  <2>2. Len(q) < Len(r) /\ \A i \in 1..Len(q) : r[i] = q[i]
    BY UnderIs
  <2> QED BY <1>1, <2>1, <2>2, UnderIs
<1>4. Under(p, r) /\ Under(q, r) => p = q \/ Under(p, q) \/ Under(q, p)
  <2> SUFFICES ASSUME Under(p, r), Under(q, r) PROVE p = q \/ Under(p, q) \/ Under(q, p)
    OBVIOUS
  <2>1. /\ \A i \in 1..Len(p) : r[i] = p[i]
        /\ \A i \in 1..Len(q) : r[i] = q[i]
    BY UnderIs
  <2>2. CASE Len(p) < Len(q)
    BY <1>1, <2>1, <2>2, UnderIs
  <2>3. CASE Len(q) < Len(p)
    BY <1>1, <2>1, <2>3, UnderIs
  <2>4. CASE Len(p) = Len(q)
    <3>1. \A i \in 1..Len(p) : p[i] = q[i]
      BY <2>1, <2>4
    <3> QED BY <2>4, <3>1, SeqEqual
  <2>5. Len(p) \in Nat /\ Len(q) \in Nat
    BY <1>1
  <2>6. Len(p) < Len(q) \/ Len(q) < Len(p) \/ Len(p) = Len(q)
    BY <2>5
  <2> QED BY <2>2, <2>3, <2>4, <2>6
<1> QED BY <1>2, <1>3, <1>4

\* What is added to a path of a tree stays in the tree.
LEMMA Deeper ==
  ASSUME NEW r \in Seq(Name), NEW p \in Tree(r), NEW s \in Seq(Name) \ {<<>>}
  PROVE  p \o s \in Below(r) /\ Under(p, p \o s)
<1>1. p \in Seq(Name) /\ Len(p) \in Nat /\ Len(s) \in Nat /\ Len(s) > 0
  BY EmptySeq, LenProperties DEF Tree
<1>2. p \o s \in Seq(Name) /\ Len(p \o s) = Len(p) + Len(s) /\ \A i \in 1..Len(p) : (p \o s)[i] = p[i]
  BY <1>1, ConcatProperties
<1>3. Under(p, p \o s)
  <2> DEFINE t == p \o s
  <2>1. t \in Seq(Name) /\ Len(p) < Len(t) /\ \A i \in 1..Len(p) : t[i] = p[i]
    BY <1>1, <1>2
  <2> HIDE DEF t
  <2>2. Under(p, t)
    BY <1>1, <2>1, UnderIs
  <2> QED BY <2>2 DEF t
<1>4. Under(r, p \o s)
  <2>1. p = r \/ Under(r, p)
    BY DEF Tree
  <2> QED BY <1>1, <1>2, <1>3, <2>1, UnderIsOrder, Zenon
<1> QED BY <1>2, <1>3, <1>4 DEF Below

LEMMA DeeperByOne ==
  ASSUME NEW r \in Seq(Name), NEW p \in Tree(r), NEW n \in Name
  PROVE  Append(p, n) \in Below(r)
<1>1. p \in Seq(Name) /\ <<n>> \in Seq(Name) \ {<<>>} /\ Append(p, n) = p \o <<n>>
  BY DEF Tree
<1> QED BY <1>1, Deeper

LEMMA KeysArePaths ==
  ASSUME NEW p \in Seq(Name)
  PROVE  KeyOf(p) \in Seq(Name)
<1>1. Len(p) \in Nat /\ DOMAIN p = 1..Len(p) /\ \A i \in 1..Len(p) : p[i] \in Name
  BY LenProperties, ElementOfSeq
<1>2. KeyOf(p) \in [1..Len(p) -> Name]
  BY <1>1, ExpansionAssumption DEF KeyOf
<1> QED BY <1>1, <1>2, SeqDef

-----------------------------------------------------------------------------
(* The byte order of paths, and the first path of a finite set *)

Less == {pair \in Nat \X Nat : pair[1] < pair[2]}

\* A set of numbers that is not empty has a least one.
LEMMA LeastNumber ==
  ASSUME NEW S \in SUBSET Nat, S # {}
  PROVE  \E n \in S : \A m \in S : n <= m
<1>1. IsWellFoundedOn(Less, Nat)
  BY NatLessThanWellFounded, Zenon DEF OpToRel, Less
<1>2. PICK n \in S : \A m \in S : <<m, n>> \notin Less
  BY <1>1, WFMin
<1>3. ASSUME NEW m \in S PROVE n <= m
  <2>1. m \in Nat /\ n \in Nat
    OBVIOUS
  <2>2. m < n => <<m, n>> \in Less
    BY <2>1 DEF Less
  <2> QED BY <1>2, <2>1, <2>2
<1> QED BY <1>3

\* The place where the first of two paths has the lower name.
Differ(p, q, i) == /\ i \in 1..Len(p) /\ i \in 1..Len(q) /\ Rank[p[i]] < Rank[q[i]]
                   /\ \A j \in 1..Len(p) : j < i => p[j] = q[j]

LEMMA BeforeIs ==
  ASSUME NEW p \in Seq(Name), NEW q \in Seq(Name)
  PROVE  Before(p, q) <=> Under(p, q) \/ \E i \in Nat : Differ(p, q, i)
<1>1. Len(p) \in Nat /\ Len(q) \in Nat /\ DOMAIN p = 1..Len(p) /\ DOMAIN q = 1..Len(q)
  BY LenProperties
<1>2. ASSUME NEW i \in 1..Len(p), i \in 1..Len(q)
      PROVE  SubSeq(p, 1, i - 1) = SubSeq(q, 1, i - 1) <=> \A j \in 1..Len(p) : j < i => p[j] = q[j]
  <2>1. i \in Nat /\ i - 1 \in Nat /\ i - 1 <= Len(p) /\ i - 1 <= Len(q)
    BY <1>1, <1>2
  <2>2. /\ SubSeq(p, 1, i - 1) = [j \in 1..i - 1 |-> p[j]]
        /\ SubSeq(q, 1, i - 1) = [j \in 1..i - 1 |-> q[j]]
    BY <1>1, <2>1
  <2>3. \A j \in 1..Len(p) : j < i <=> j \in 1..i - 1
    BY <1>1, <2>1
  <2>4. 1..i - 1 \subseteq 1..Len(p)
    BY <1>1, <2>1
  <2>5. [j \in 1..i - 1 |-> p[j]] = [j \in 1..i - 1 |-> q[j]] <=> \A j \in 1..i - 1 : p[j] = q[j]
    OBVIOUS
  <2>6. (\A j \in 1..i - 1 : p[j] = q[j]) <=> \A j \in 1..Len(p) : j < i => p[j] = q[j]
    BY <2>3, <2>4
  <2> QED BY <2>2, <2>5, <2>6
<1>3. ASSUME NEW i \in DOMAIN p \cap DOMAIN q
      PROVE  /\ SubSeq(p, 1, i - 1) = SubSeq(q, 1, i - 1) /\ Rank[p[i]] < Rank[q[i]] <=> Differ(p, q, i)
             /\ i \in Nat
  <2>1. i \in 1..Len(p) /\ i \in 1..Len(q) /\ i \in Nat
    BY <1>1
  <2>2. SubSeq(p, 1, i - 1) = SubSeq(q, 1, i - 1) <=> \A j \in 1..Len(p) : j < i => p[j] = q[j]
    BY <1>2, <2>1
  <2> QED BY <2>1, <2>2 DEF Differ
<1>4. ASSUME NEW i \in Nat, Differ(p, q, i) PROVE i \in DOMAIN p \cap DOMAIN q
  BY <1>1, <1>4 DEF Differ
<1> QED BY <1>3, <1>4 DEF Before, Under

LEMMA BeforeIsStrict ==
  ASSUME NEW p \in Seq(Name), NEW q \in Seq(Name), NEW r \in Seq(Name)
  PROVE  /\ ~Before(p, p)
         /\ Before(p, q) /\ Before(q, r) => Before(p, r)
         /\ p # q => Before(p, q) \/ Before(q, p)
<1>1. ASSUME NEW s \in {p, q, r}
      PROVE  Len(s) \in Nat /\ \A i \in 1..Len(s) : s[i] \in Name /\ Rank[s[i]] \in Nat
  <2>1. Len(s) \in Nat /\ \A i \in 1..Len(s) : s[i] \in Name
    BY LenProperties, ElementOfSeq
  <2> QED BY <2>1, ExpansionAssumption
<1>2. ~Before(p, p)
  BY <1>1, UnderIsOrder, BeforeIs DEF Differ
<1>3. ASSUME Before(p, q), Before(q, r) PROVE Before(p, r)
  <2>1. CASE Under(p, q) /\ Under(q, r)
    BY <2>1, UnderIsOrder, BeforeIs
  <2>2. ASSUME Under(p, q), NEW j \in Nat, Differ(q, r, j) PROVE Before(p, r)
    <3>1. /\ Len(p) < Len(q) /\ \A i \in 1..Len(p) : q[i] = p[i]
      BY <2>2, UnderIs
    <3>2. CASE j <= Len(p)
      <4>1. Differ(p, r, j)
        BY <1>1, <2>2, <3>1, <3>2 DEF Differ
      <4> QED BY <4>1, BeforeIs
    <3>3. CASE Len(p) < j
      <4>1. Len(p) < Len(r) /\ \A i \in 1..Len(p) : r[i] = p[i]
        BY <1>1, <2>2, <3>1, <3>3 DEF Differ
      <4> QED BY <4>1, UnderIs, BeforeIs
    <3> QED BY <1>1, <3>2, <3>3
  <2>3. ASSUME NEW i \in Nat, Differ(p, q, i), Under(q, r) PROVE Before(p, r)
    <3>1. Len(q) < Len(r) /\ \A k \in 1..Len(q) : r[k] = q[k]
      BY <2>3, UnderIs
    <3>2. i \in 1..Len(q) /\ r[i] = q[i] /\ Len(p) \in Nat /\ Len(q) \in Nat /\ Len(r) \in Nat
      BY <1>1, <2>3, <3>1 DEF Differ
    <3>3. \A k \in 1..Len(p) : k < i => p[k] = r[k]
      <4> SUFFICES ASSUME NEW k \in 1..Len(p), k < i PROVE p[k] = r[k]
        OBVIOUS
      <4>1. p[k] = q[k]
        BY <2>3 DEF Differ
      <4>2. k \in 1..Len(q)
        BY <3>2
      <4> QED BY <3>1, <4>1, <4>2
    <3>4. Differ(p, r, i)
      BY <2>3, <3>1, <3>2, <3>3 DEF Differ
    <3> QED BY <3>4, BeforeIs
  <2>4. ASSUME NEW i \in Nat, Differ(p, q, i), NEW j \in Nat, Differ(q, r, j) PROVE Before(p, r)
    <3>1. CASE i < j
      <4>1. Differ(p, r, i)
        BY <1>1, <2>4, <3>1 DEF Differ
      <4> QED BY <4>1, BeforeIs
    <3>2. CASE j < i
      <4>1. Differ(p, r, j)
        BY <1>1, <2>4, <3>2 DEF Differ
      <4> QED BY <4>1, BeforeIs
    <3>3. CASE i = j
      <4>1. Differ(p, r, i)
        BY <1>1, <2>4, <3>3 DEF Differ
      <4> QED BY <4>1, BeforeIs
    <3> QED BY <3>1, <3>2, <3>3
  <2> QED BY <1>3, <2>1, <2>2, <2>3, <2>4, BeforeIs
<1>4. ASSUME p # q PROVE Before(p, q) \/ Before(q, p)
  <2> DEFINE S == {i \in 1..Len(p) : i \in 1..Len(q) /\ p[i] # q[i]}
  <2>1. CASE S = {}
    <3>1. \A i \in 1..Len(p) : i \in 1..Len(q) => p[i] = q[i]
      BY <2>1
    <3>2. Len(p) \in Nat /\ Len(q) \in Nat
      BY <1>1
    <3>3. Len(p) # Len(q)
      BY <1>4, <3>1, SeqEqual
    <3>4. CASE Len(p) < Len(q)
      BY <3>1, <3>2, <3>4, UnderIs, BeforeIs
    <3>5. CASE Len(q) < Len(p)
      BY <3>1, <3>2, <3>5, UnderIs, BeforeIs
    <3> QED BY <3>2, <3>3, <3>4, <3>5
  <2>2. CASE S # {}
    <3>1. S \in SUBSET Nat
      BY <1>1
    <3>2. PICK i \in S : \A j \in S : i <= j
      BY <2>2, <3>1, LeastNumber
    <3>3. /\ i \in Nat /\ i \in 1..Len(p) /\ i \in 1..Len(q) /\ p[i] # q[i]
          /\ \A j \in 1..Len(p) : j < i => p[j] = q[j]
          /\ \A j \in 1..Len(q) : j < i => q[j] = p[j]
      BY <1>1, <3>1, <3>2
    <3>4. Rank[p[i]] \in Nat /\ Rank[q[i]] \in Nat /\ Rank[p[i]] # Rank[q[i]]
      BY <1>1, <3>3, ExpansionAssumption DEF IsInjective
    <3>5. Differ(p, q, i) \/ Differ(q, p, i)
      BY <3>3, <3>4 DEF Differ
    <3> QED BY <3>3, <3>5, BeforeIs
  <2> QED BY <2>1, <2>2
<1> QED BY <1>2, <1>3, <1>4

\* A finite set of paths that is not empty has a first one.
LEMMA OneIsFirst ==
  ASSUME NEW S \in SUBSET Seq(Name), IsFiniteSet(S), S # {}
  PROVE  \E p \in S : \A q \in S \ {p} : Before(p, q)
<1> DEFINE Earlier(p) == {q \in S : Before(q, p)}
           Counts == {Cardinality(Earlier(p)) : p \in S}
<1>1. \A p \in S : IsFiniteSet(Earlier(p)) /\ Cardinality(Earlier(p)) \in Nat
  BY FS_Subset, FS_CardinalityType
<1>2. Counts \in SUBSET Nat /\ Counts # {}
  BY <1>1
<1>3. PICK c \in Counts : \A d \in Counts : c <= d
  BY <1>2, LeastNumber
<1>4. PICK p \in S : c = Cardinality(Earlier(p))
  OBVIOUS
<1>5. ASSUME NEW q \in S, Before(q, p) PROVE FALSE
  <2>1. /\ Earlier(q) \subseteq Earlier(p) /\ q \in Earlier(p) /\ q \notin Earlier(q)
    BY <1>5, BeforeIsStrict
  <2>2. Cardinality(Earlier(q)) < Cardinality(Earlier(p))
    <3> DEFINE A == Earlier(q)
               B == Earlier(p)
    <3>1. IsFiniteSet(A) /\ IsFiniteSet(B) /\ A \cup {q} \subseteq B /\ q \notin A
      BY <1>1, <2>1
    <3> HIDE DEF A, B
    <3>2. Cardinality(A \cup {q}) = Cardinality(A) + 1 /\ Cardinality(A \cup {q}) <= Cardinality(B)
      BY <3>1, FS_AddElement, FS_Subset
    <3>3. Cardinality(A) \in Nat /\ Cardinality(B) \in Nat
      BY <3>1, FS_CardinalityType
    <3>4. Cardinality(A) < Cardinality(B)
      BY <3>2, <3>3
    <3> QED BY <3>4 DEF A, B
  <2>3. c <= Cardinality(Earlier(q))
    BY <1>3
  <2>4. Cardinality(Earlier(q)) \in Nat /\ c \in Nat
    BY <1>1, <1>4
  <2> HIDE DEF Earlier, Counts
  <2> QED BY <1>4, <2>2, <2>3, <2>4
<1>6. \A q \in S \ {p} : Before(p, q)
  BY <1>5, BeforeIsStrict
<1> QED BY <1>6

\* So the dedup index a run starts with names a path or nothing.
LEMMA SeededIs ==
  ASSUME DOMAIN terminal \subseteq Seq(Name), IsFiniteSet(DOMAIN terminal)
  PROVE  Seeded \in [Content -> Seq(Name) \cup {None}]
<1>1. ASSUME NEW c \in Content, Seeds(c) # {}
      PROVE  (CHOOSE p \in Seeds(c) : \A q \in Seeds(c) \ {p} : Before(p, q)) \in Seq(Name)
  <2>1. Seeds(c) \in SUBSET Seq(Name) /\ IsFiniteSet(Seeds(c))
    BY FS_Subset DEF Seeds
  <2>2. \E p \in Seeds(c) : \A q \in Seeds(c) \ {p} : Before(p, q)
    BY <1>1, <2>1, OneIsFirst
  <2> QED BY <2>1, <2>2
<1> QED BY <1>1 DEF Seeded

-----------------------------------------------------------------------------
(* Agendas *)

\* What each kind of task carries.
LEMMA TaskIs ==
  ASSUME NEW r, NEW t \in Task(r)
  PROVE  /\ t.op \in {"unit", "leg", "member", "close", "retire", "reconcile"}
         /\ t.op = "unit" => /\ t.path \in Tree(r) /\ t.content \in Content
                             /\ t.depth \in Nat /\ t.chain \in SUBSET Content
         /\ t.op = "leg" => t.path \in Tree(r) /\ t.content \in Content /\ HasLeg(t.content)
         /\ t.op = "member" => /\ t.path \in Tree(r) /\ t.depth \in Nat /\ t.chain \in SUBSET Content
                               /\ t.member.name \in Seq(Name) \ {<<>>}
                               /\ t.member.content \in Content \cup {Refused}
         /\ t.op = "close" => /\ t.path \in Tree(r) /\ t.content \in Content /\ t.capped \in BOOLEAN
                              /\ t = [op |-> "close", path |-> t.path, content |-> t.content,
                                      capped |-> t.capped]
         /\ t.op = "retire" => t.left \in SUBSET Below(r)
BY DEF Task

LEMMA FirstOf ==
  ASSUME NEW r, NEW owned \in BOOLEAN, NEW a, Formed(a, owned, r), a # <<>>
  PROVE  /\ Head(a) \in Task(r) /\ Head(a) = a[1] /\ 1 \in DOMAIN a
         /\ Len(a) \in Nat \ {0} /\ DOMAIN a = 1..Len(a)
         /\ Tail(a) \in Seq(Task(r)) /\ Len(Tail(a)) = Len(a) - 1
         /\ \A i \in 1..Len(a) - 1 : Tail(a)[i] = a[i + 1]
<1>1. a \in Seq(Task(r))
  BY DEF Formed
<1>2. Len(a) \in Nat \ {0} /\ DOMAIN a = 1..Len(a)
  BY <1>1, EmptySeq, LenProperties
<1>3. 1 \in 1..Len(a)
  BY <1>2
<1>4. Head(a) = a[1] /\ Head(a) \in Task(r)
  BY <1>1, <1>2, <1>3, ElementOfSeq
<1>5. /\ Tail(a) \in Seq(Task(r)) /\ Len(Tail(a)) = Len(a) - 1
      /\ \A i \in 1..Len(a) - 1 : Tail(a)[i] = a[i + 1]
  BY <1>1, <1>2
<1> QED BY <1>2, <1>3, <1>4, <1>5

\* Without a claim the one task is the last one.
LEMMA AloneIs ==
  ASSUME NEW r, NEW a, Formed(a, FALSE, r), a # <<>>
  PROVE  Tail(a) = <<>> /\ Len(a) = 1 /\ Head(a).op \in {"unit", "leg", "retire"}
<1>1. /\ Head(a) \in Task(r) /\ Head(a) = a[1] /\ 1 \in DOMAIN a /\ DOMAIN a = 1..Len(a)
      /\ Len(a) \in Nat \ {0} /\ Tail(a) \in Seq(Task(r)) /\ Len(Tail(a)) = Len(a) - 1
  BY FirstOf
<1>2. Len(a) = 1
  BY <1>1 DEF Formed
<1>3. Tail(a) = <<>>
  <2>1. Len(Tail(a)) = 0
    BY <1>1, <1>2
  <2>2. \A s \in Seq(Task(r)) : s # <<>> => Len(s) # 0
    BY EmptySeq
  <2> QED BY <1>1, <2>1, <2>2, Zenon
<1>4. Head(a).op \notin {"member", "close", "reconcile"}
  <2>1. 2 \notin DOMAIN a
    BY <1>1, <1>2
  <2> QED BY <1>1, <2>1 DEF Formed
<1> QED BY <1>1, <1>2, <1>3, <1>4, TaskIs

LEMMA FormedAlone ==
  ASSUME NEW r
  PROVE  /\ Formed(<<>>, FALSE, r)
         /\ \A t \in Task(r) : t.op \in {"unit", "leg", "retire"} => Formed(<<t>>, FALSE, r)
         /\ Formed(<<[op |-> "reconcile"]>>, TRUE, r)
<1>1. Formed(<<>>, FALSE, r)
  BY EmptySeq DEF Formed
<1>2. ASSUME NEW t \in Task(r), NEW owned \in BOOLEAN,
             IF owned THEN t.op = "reconcile" ELSE t.op \in {"unit", "leg", "retire"}
      PROVE  Formed(<<t>>, owned, r)
  <2>1. <<t>> \in Seq(Task(r)) /\ Len(<<t>>) = 1 /\ DOMAIN <<t>> = {1} /\ <<t>>[1] = t
    OBVIOUS
  <2> QED BY <1>2, <2>1 DEF Formed
<1>3. [op |-> "reconcile"] \in Task(r)
  BY DEF Task
<1> QED BY <1>1, <1>2, <1>3

LEMMA Popped ==
  ASSUME NEW r, NEW a, Formed(a, TRUE, r), Head(a).op # "reconcile"
  PROVE  Formed(Tail(a), TRUE, r)
<1> DEFINE b == Tail(a)
<1>1. /\ Head(a) = a[1] /\ DOMAIN a = 1..Len(a) /\ Len(a) \in Nat \ {0}
      /\ b \in Seq(Task(r)) /\ Len(b) = Len(a) - 1 /\ \A i \in 1..Len(a) - 1 : b[i] = a[i + 1]
  BY FirstOf DEF Formed
<1>2. Len(a) # 1
  BY <1>1 DEF Formed
<1>3. DOMAIN b = 1..Len(a) - 1
  BY <1>1, LenProperties
<1>4. b # <<>>
  <2>1. Len(b) # Len(<<>>)
    BY <1>1, <1>2, EmptySeq
  <2> QED BY <2>1
<1> HIDE DEF b
<1>5. ASSUME NEW i \in DOMAIN b
      PROVE  /\ b[i].op = "member" => i + 1 \in DOMAIN b /\ b[i + 1].op \in {"member", "close"}
             /\ b[i].op = "reconcile" <=> i = Len(b)
             /\ b[i].op # "retire"
  <2>1. i \in Nat /\ i + 1 \in DOMAIN a /\ b[i] = a[i + 1] /\ (i = Len(b) <=> i + 1 = Len(a))
    BY <1>1, <1>3
  <2>2. /\ b[i].op = "member" => i + 2 \in DOMAIN a /\ a[i + 2].op \in {"member", "close"}
        /\ b[i].op = "reconcile" <=> i + 1 = Len(a)
        /\ b[i].op # "retire"
    <3>1. (i + 1) + 1 = i + 2
      BY <2>1
    <3> QED BY <2>1, <3>1 DEF Formed
  <2>3. i + 2 \in DOMAIN a => i + 1 \in DOMAIN b /\ b[i + 1] = a[i + 2]
    BY <1>1, <1>3, <2>1
  <2> QED BY <2>1, <2>2, <2>3
<1>6. Formed(b, TRUE, r)
  BY <1>1, <1>4, <1>5 DEF Formed
<1> QED BY <1>6 DEF b

\* Tasks that may come before others: all but the last are members, and that
\* one is a unit, a leg or a close.
Block(s, r) ==
  /\ s \in Seq(Task(r)) /\ s # <<>>
  /\ \A i \in 1..Len(s) - 1 : s[i].op = "member" /\ s[i + 1].op \in {"member", "close"}
  /\ s[Len(s)].op \in {"unit", "leg", "close"}

LEMMA Pushed ==
  ASSUME NEW r, NEW a, Formed(a, TRUE, r), NEW s, Block(s, r)
  PROVE  /\ Formed(s \o a, TRUE, r)
         /\ \A i \in 1..Len(s) : i \in DOMAIN (s \o a) /\ (s \o a)[i] = s[i]
         /\ \A i \in 1..Len(a) : Len(s) + i \in DOMAIN (s \o a) /\ (s \o a)[Len(s) + i] = a[i]
<1> DEFINE b == s \o a
<1>1. /\ a \in Seq(Task(r)) /\ a # <<>> /\ DOMAIN a = 1..Len(a) /\ Len(a) \in Nat \ {0}
      /\ s \in Seq(Task(r)) /\ Len(s) \in Nat \ {0}
  BY EmptySeq, LenProperties DEF Formed, Block
<1>2. /\ b \in Seq(Task(r)) /\ Len(b) = Len(s) + Len(a) /\ DOMAIN b = 1..Len(s) + Len(a)
      /\ \A i \in 1..Len(s) : b[i] = s[i]
      /\ \A i \in 1..Len(a) : b[Len(s) + i] = a[i]
  <2>1. b \in Seq(Task(r)) /\ Len(b) = Len(s) + Len(a)
    BY <1>1, ConcatProperties
  <2>2. \A i \in 1..Len(s) + Len(a) : b[i] = IF i <= Len(s) THEN s[i] ELSE a[i - Len(s)]
    BY <1>1, ConcatProperties
  <2>3. DOMAIN b = 1..Len(s) + Len(a)
    BY <2>1, LenProperties
  <2> HIDE DEF b
  <2>4. ASSUME NEW i \in 1..Len(s) PROVE b[i] = s[i]
    <3>1. i \in 1..Len(s) + Len(a) /\ i <= Len(s)
      BY <1>1
    <3> QED BY <2>2, <3>1
  <2>5. ASSUME NEW i \in 1..Len(a) PROVE b[Len(s) + i] = a[i]
    <3>1. Len(s) + i \in 1..Len(s) + Len(a) /\ ~(Len(s) + i <= Len(s)) /\ (Len(s) + i) - Len(s) = i
      BY <1>1
    <3> QED BY <2>2, <3>1
  <2> QED BY <2>1, <2>3, <2>4, <2>5
<1> HIDE DEF b
<1>3. ASSUME NEW i \in DOMAIN b
      PROVE  /\ b[i].op = "member" => i + 1 \in DOMAIN b /\ b[i + 1].op \in {"member", "close"}
             /\ b[i].op = "reconcile" <=> i = Len(b)
             /\ b[i].op # "retire"
  <2>1. CASE i \in 1..Len(s) - 1
    <3>1. i \in 1..Len(s) /\ i + 1 \in 1..Len(s) /\ i + 1 \in DOMAIN b /\ i # Len(b)
      BY <1>1, <1>2, <2>1
    <3> QED BY <1>2, <2>1, <3>1 DEF Block
  <2>2. CASE i = Len(s)
    <3>1. i \in 1..Len(s) /\ i # Len(b)
      BY <1>1, <1>2, <2>2
    <3>2. b[i] = s[Len(s)]
      BY <1>2, <2>2, <3>1
    <3> QED BY <3>1, <3>2 DEF Block
  <2>3. ASSUME NEW k \in 1..Len(a), i = Len(s) + k
        PROVE  /\ b[i].op = "member" => i + 1 \in DOMAIN b /\ b[i + 1].op \in {"member", "close"}
               /\ b[i].op = "reconcile" <=> i = Len(b)
               /\ b[i].op # "retire"
    <3>1. b[i] = a[k] /\ k \in DOMAIN a
      BY <1>1, <1>2, <2>3
    <3>2. i = Len(b) <=> k = Len(a)
      <4> DEFINE x == Len(s)
                 y == Len(a)
                 z == Len(b)
      <4>1. k \in Nat /\ x \in Nat /\ y \in Nat /\ z = x + y /\ i = x + k
        BY <1>1, <1>2, <2>3
      <4> HIDE DEF x, y, z
      <4>2. i = z <=> k = y
        BY <4>1
      <4> QED BY <4>2 DEF x, y, z
    <3>3. k + 1 \in DOMAIN a => i + 1 \in DOMAIN b /\ b[i + 1] = a[k + 1]
      <4>1. i + 1 = Len(s) + (k + 1)
        BY <1>1, <2>3
      <4> QED BY <1>1, <1>2, <4>1
    <3> QED BY <3>1, <3>2, <3>3 DEF Formed
  <2>4. i \in 1..Len(s) - 1 \/ i = Len(s) \/ \E k \in 1..Len(a) : i = Len(s) + k
    <3>1. i \in Nat /\ i <= Len(s) + Len(a) /\ 1 <= i
      BY <1>1, <1>2
    <3>2. CASE i > Len(s)
      <4>1. i - Len(s) \in 1..Len(a) /\ i = Len(s) + (i - Len(s))
        BY <1>1, <3>1, <3>2
      <4> QED BY <4>1
    <3> QED BY <1>1, <3>1, <3>2
  <2> QED BY <2>1, <2>2, <2>3, <2>4
<1>4. b # <<>>
  <2>1. Len(b) # 0
    BY <1>1, <1>2
  <2> QED BY <2>1, EmptySeq
<1>5. Formed(b, TRUE, r)
  BY <1>2, <1>3, <1>4 DEF Formed
<1>6. \A i \in 1..Len(s) : i \in DOMAIN b /\ b[i] = s[i]
  BY <1>1, <1>2
<1>7. \A i \in 1..Len(a) : Len(s) + i \in DOMAIN b /\ b[Len(s) + i] = a[i]
  BY <1>1, <1>2
<1> QED BY <1>5, <1>6, <1>7 DEF b

\* The tasks of a container: one for each member, and its close.
LEMMA TasksAre ==
  ASSUME NEW r \in Seq(Name), NEW u \in Task(r), u.op = "unit"
  PROVE  /\ Tasks(u) \in Seq(Task(r))
         /\ Len(Tasks(u)) = Len(Members[u.content]) + 1 /\ Len(Members[u.content]) \in Nat
         /\ \A i \in 1..Len(Members[u.content]) :
              /\ Tasks(u)[i].op = "member" /\ Tasks(u)[i].path = u.path
              /\ Tasks(u)[i].depth = u.depth + 1
              /\ Tasks(u)[i].chain = u.chain \cup {u.content}
              /\ Tasks(u)[i].member = Members[u.content][i]
         /\ LET t == Tasks(u)[Len(Members[u.content]) + 1]
            IN t.op = "close" /\ t.path = u.path /\ t.content = u.content
<1> DEFINE ms == Members[u.content]
           close == [op |-> "close", path |-> u.path, content |-> u.content, capped |-> FALSE]
           f == [i \in DOMAIN ms |->
                   [op |-> "member", path |-> u.path, member |-> ms[i],
                    depth |-> u.depth + 1, chain |-> u.chain \cup {u.content}]]
           s == Tasks(u)
<1>1. /\ u.path \in Tree(r) /\ u.content \in Content /\ u.depth \in Nat /\ u.chain \in SUBSET Content
  BY TaskIs
<1>2. /\ ms \in Seq([name : Seq(Name) \ {<<>>}, content : Content \cup {Refused}])
      /\ Len(ms) \in Nat /\ DOMAIN ms = 1..Len(ms)
  <2>1. ms \in Seq([name : Seq(Name) \ {<<>>}, content : Content \cup {Refused}])
    BY <1>1, ExpansionAssumption
  <2> HIDE DEF ms
  <2> QED BY <2>1, LenProperties
<1>3. close \in Task(r)
  BY <1>1 DEF Task
<1>4. \A i \in DOMAIN ms : f[i] \in Task(r) /\ f[i].op = "member"
  <2> SUFFICES ASSUME NEW i \in DOMAIN ms PROVE f[i] \in Task(r) /\ f[i].op = "member"
    OBVIOUS
  <2>1. ms[i] \in [name : Seq(Name) \ {<<>>}, content : Content \cup {Refused}]
    <3> HIDE DEF ms
    <3> QED BY <1>2, ElementOfSeq
  <2> HIDE DEF ms
  <2>2. u.depth + 1 \in Nat /\ u.chain \cup {u.content} \in SUBSET Content
    BY <1>1
  <2> QED BY <1>1, <2>1, <2>2 DEF Task
<1>5. s = f \o <<close>>
  BY DEF Tasks
<1> HIDE DEF ms, close, f, s
<1>6. f \in Seq(Task(r)) /\ Len(f) = Len(ms)
  <2>1. f \in [1..Len(ms) -> Task(r)]
    BY <1>2, <1>4 DEF f
  <2>2. f \in Seq(Task(r))
    BY <1>2, <2>1, SeqDef
  <2>3. DOMAIN f = 1..Len(ms)
    BY <1>2 DEF f
  <2> QED BY <1>2, <2>2, <2>3, LenProperties
<1>7. /\ s \in Seq(Task(r)) /\ Len(s) = Len(ms) + 1
      /\ \A i \in 1..Len(ms) : s[i] = f[i]
      /\ s[Len(ms) + 1] = close
  <2>1. <<close>> \in Seq(Task(r)) /\ Len(<<close>>) = 1 /\ <<close>>[1] = close
    BY <1>3
  <2>2. /\ s \in Seq(Task(r)) /\ Len(s) = Len(f) + Len(<<close>>)
        /\ \A i \in 1..Len(f) + Len(<<close>>) :
             s[i] = IF i <= Len(f) THEN f[i] ELSE <<close>>[i - Len(f)]
    BY <1>5, <1>6, <2>1, ConcatProperties
  <2>3. s \in Seq(Task(r)) /\ Len(s) = Len(ms) + 1
    BY <1>6, <2>1, <2>2
  <2>4. ASSUME NEW i \in 1..Len(ms) PROVE s[i] = f[i]
    <3>1. i \in 1..Len(f) + Len(<<close>>) /\ i <= Len(f)
      BY <1>2, <1>6, <2>1
    <3> QED BY <2>2, <3>1
  <2>5. s[Len(ms) + 1] = close
    <3>1. /\ Len(ms) + 1 \in 1..Len(f) + Len(<<close>>) /\ ~(Len(ms) + 1 <= Len(f))
          /\ (Len(ms) + 1) - Len(f) = 1
      BY <1>2, <1>6, <2>1
    <3> QED BY <2>1, <2>2, <3>1
  <2> QED BY <2>3, <2>4, <2>5
<1>8. \A i \in 1..Len(ms) : /\ f[i].op = "member" /\ f[i].path = u.path /\ f[i].depth = u.depth + 1
                           /\ f[i].chain = u.chain \cup {u.content} /\ f[i].member = ms[i]
  BY <1>2 DEF f
<1>9. close.op = "close" /\ close.path = u.path /\ close.content = u.content
  BY DEF close
<1>10. \A i \in 1..Len(ms) : /\ s[i].op = "member" /\ s[i].path = u.path /\ s[i].depth = u.depth + 1
                            /\ s[i].chain = u.chain \cup {u.content} /\ s[i].member = ms[i]
  BY <1>7, <1>8
<1> QED BY <1>2, <1>7, <1>9, <1>10 DEF ms, s

\* What Open puts before the rest of the agenda.
LEMMA TasksPushed ==
  ASSUME NEW r \in Seq(Name), NEW a, Formed(a, TRUE, r),
         NEW u \in Task(r), u.op = "unit"
  PROVE  /\ Formed(Tasks(u) \o a, TRUE, r)
         /\ Tasks(u) \o a # <<>>
         /\ Due(Tasks(u) \o a, u.path)
         /\ \A p : Due(a, p) => Due(Tasks(u) \o a, p)
<1> DEFINE ms == Members[u.content]
           s == Tasks(u)
<1>1. /\ s \in Seq(Task(r)) /\ Len(s) = Len(ms) + 1 /\ Len(ms) \in Nat
      /\ \A i \in 1..Len(ms) : s[i].op = "member"
      /\ s[Len(ms) + 1].op = "close" /\ s[Len(ms) + 1].path = u.path
  BY TasksAre
<1> HIDE DEF ms, s
<1>2. \A i \in 1..Len(s) - 1 : s[i].op = "member"
  <2>1. Len(s) - 1 = Len(ms)
    BY <1>1
  <2> QED BY <1>1, <2>1
<1>3. s[Len(s)].op = "close" /\ s[Len(s)].path = u.path
  BY <1>1
<1>4. \A i \in 1..Len(s) - 1 : s[i + 1].op \in {"member", "close"}
  <2> SUFFICES ASSUME NEW i \in 1..Len(s) - 1 PROVE s[i + 1].op \in {"member", "close"}
    OBVIOUS
  <2>1. i + 1 \in 1..Len(s) - 1 \/ i + 1 = Len(s)
    BY <1>1
  <2> QED BY <1>2, <1>3, <2>1
<1>5. s # <<>> /\ Len(s) \in 1..Len(s)
  <2>1. Len(s) # Len(<<>>) /\ Len(s) \in 1..Len(s)
    BY <1>1, EmptySeq
  <2> QED BY <2>1
<1>6. Block(s, r)
  BY <1>1, <1>2, <1>3, <1>4, <1>5 DEF Block
<1>7. Formed(s \o a, TRUE, r)
  BY <1>6, Pushed
<1>8. \A i \in 1..Len(s) : i \in DOMAIN (s \o a) /\ (s \o a)[i] = s[i]
  BY <1>6, Pushed
<1>9. \A i \in 1..Len(a) : Len(s) + i \in DOMAIN (s \o a) /\ (s \o a)[Len(s) + i] = a[i]
  BY <1>6, Pushed
<1>10. s \o a # <<>> /\ DOMAIN (s \o a) = 1..Len(s \o a)
  <2> DEFINE b == s \o a
  <2> HIDE DEF b
  <2>1. Formed(b, TRUE, r)
    BY <1>7 DEF b
  <2>2. b # <<>>
    BY <2>1 DEF Formed
  <2>3. DOMAIN b = 1..Len(b)
    BY <2>1, <2>2, FirstOf
  <2> QED BY <2>2, <2>3 DEF b
<1>11. Due(s \o a, u.path)
  BY <1>3, <1>5, <1>8, <1>10 DEF Due
<1>12. \A p : Due(a, p) => Due(s \o a, p)
  BY <1>9, <1>10 DEF Due
<1> QED BY <1>7, <1>10, <1>11, <1>12 DEF s

\* One task before the rest.
LEMMA OnePushed ==
  ASSUME NEW r, NEW a, Formed(a, TRUE, r), NEW t \in Task(r), t.op \in {"unit", "leg"}
  PROVE  /\ Formed(<<t>> \o a, TRUE, r) /\ Head(<<t>> \o a) = t /\ <<t>> \o a # <<>>
         /\ \A p : Due(a, p) => Due(<<t>> \o a, p)
<1> DEFINE s == <<t>>
<1>1. s \in Seq(Task(r)) /\ Len(s) = 1 /\ s[1] = t /\ s # <<>>
  OBVIOUS
<1> HIDE DEF s
<1>2. Block(s, r)
  <2>1. 1..Len(s) - 1 = {}
    BY <1>1
  <2> QED BY <1>1, <2>1 DEF Block
<1>3. Formed(s \o a, TRUE, r)
  BY <1>2, Pushed
<1>4. \A i \in 1..Len(s) : i \in DOMAIN (s \o a) /\ (s \o a)[i] = s[i]
  BY <1>2, Pushed
<1>5. \A i \in 1..Len(a) : Len(s) + i \in DOMAIN (s \o a) /\ (s \o a)[Len(s) + i] = a[i]
  BY <1>2, Pushed
<1>6. 1 \in 1..Len(s)
  BY <1>1
<1>7. s \o a # <<>> /\ Head(s \o a) = (s \o a)[1] /\ DOMAIN (s \o a) = 1..Len(s \o a)
  BY <1>3, FirstOf DEF Formed
<1>8. \A p : Due(a, p) => Due(s \o a, p)
  BY <1>5, <1>7 DEF Due
<1> QED BY <1>1, <1>3, <1>4, <1>6, <1>7, <1>8 DEF s

\* The container of a member at the head of the agenda is closed at once: the
\* closes that were due still are.
LEMMA CappedIs ==
  ASSUME NEW r, Formed(agenda, TRUE, r), Head(agenda).op = "member"
  PROVE  /\ Formed(Capped, TRUE, r)
         /\ Capped # <<>> /\ Head(Capped).op = "close" /\ Head(Capped).capped
         /\ \A p : Due(agenda, p) => Due(Capped, p)
         /\ \E m \in 0..Len(agenda) :
              /\ Len(Capped) = Len(agenda) - m
              /\ \A k \in 1..Len(Capped) : Same(agenda[m + k], Capped[k])
              /\ \A k \in 1..Len(Capped) : Capped[k] = agenda[m + k] \/ Capped[k].capped
<1> DEFINE I == {k \in 1..Len(agenda) : IsClose(agenda[k])}
           i == SelectInSeq(agenda, IsClose)
           rest == SubSeq(agenda, i + 1, Len(agenda))
           t == [agenda[i] EXCEPT !.capped = TRUE]
<1>1. /\ agenda \in Seq(Task(r)) /\ agenda # <<>>
      /\ DOMAIN agenda = 1..Len(agenda) /\ Len(agenda) \in Nat \ {0}
      /\ Head(agenda) = agenda[1]
  BY FirstOf DEF Formed
<1>2. I \in SUBSET Nat /\ I # {}
  <2>1. I \in SUBSET Nat
    BY <1>1
  <2>2. SUFFICES ASSUME \A k \in 1..Len(agenda) : agenda[k].op # "close" PROVE FALSE
    BY DEF IsClose
  <2> DEFINE Others == {k \in 1..Len(agenda) : agenda[k].op # "member"}
  <2>3. Others # {}
    <3>1. Len(agenda) \in Others
      <4>1. Len(agenda) \in DOMAIN agenda /\ agenda[Len(agenda)].op = "reconcile"
        BY <1>1 DEF Formed
      <4> QED BY <1>1, <4>1
    <3> QED BY <3>1
  <2>4. PICK k \in Others : \A j \in Others : k <= j
    <3>1. Others \in SUBSET Nat
      BY <1>1
    <3> QED BY <2>3, <3>1, LeastNumber
  <2>5. k # 1 /\ k \in 1..Len(agenda) /\ k \in Nat /\ k - 1 \in 1..Len(agenda) /\ (k - 1) + 1 = k
    BY <1>1
  <2>6. agenda[k - 1].op = "member"
    BY <1>1, <2>4, <2>5
  <2>7. agenda[k].op \in {"member", "close"}
    BY <1>1, <2>5, <2>6 DEF Formed
  <2> QED BY <2>2, <2>5, <2>7
<1>3. /\ i \in 1..Len(agenda) /\ agenda[i].op = "close"
      /\ \A k \in 1..Len(agenda) : agenda[k].op = "close" => i <= k
  <2>1. \E x \in I : \A y \in I : x <= y
    BY <1>2, LeastNumber
  <2>2. i = Min(I)
    BY <1>2 DEF SelectInSeq
  <2>3. Min(I) \in I /\ \A y \in I : Min(I) <= y
    BY <2>1 DEF Min
  <2> QED BY <2>2, <2>3 DEF IsClose
<1> HIDE DEF I, i
<1>4. /\ t \in Task(r) /\ t.op = "close" /\ t.capped
      /\ t.path = agenda[i].path /\ t.content = agenda[i].content
  <2> DEFINE c == agenda[i]
  <2>1. c \in Task(r)
    BY <1>1, <1>3, ElementOfSeq
  <2>2. /\ c.path \in Tree(r) /\ c.content \in Content
        /\ c = [op |-> "close", path |-> c.path, content |-> c.content, capped |-> c.capped]
    BY <1>3, <2>1, TaskIs
  <2>3. t = [c EXCEPT !.capped = TRUE]
    OBVIOUS
  <2> HIDE DEF c, t
  <2>4. DOMAIN t = {"op", "path", "content", "capped"} /\ t.op = "close" /\ t.path = c.path
        /\ t.content = c.content /\ t.capped = TRUE
    BY <2>2, <2>3
  <2>5. t = [op |-> "close", path |-> c.path, content |-> c.content, capped |-> TRUE]
    BY <2>2, <2>3, <2>4
  <2> QED BY <2>2, <2>5 DEF Task, c
<1>5. /\ rest \in Seq(Task(r)) /\ Len(rest) = Len(agenda) - i /\ DOMAIN rest = 1..Len(agenda) - i
      /\ \A k \in 1..Len(agenda) - i : rest[k] = agenda[i + k]
  <2> DEFINE n == Len(agenda)
  <2>1. n \in Nat /\ i \in Nat /\ i + 1 \in 1..n+1 /\ n \in (i + 1) - 1..n /\ i <= n
    BY <1>1, <1>3
  <2>2. /\ rest \in Seq(Task(r)) /\ Len(rest) = IF i + 1 <= n THEN n - (i + 1) + 1 ELSE 0
        /\ \A k \in 1..n - (i + 1) + 1 : rest[k] = agenda[(i + 1) + k - 1]
    BY <1>1, <2>1, SubSeqProperties
  <2>3. n - (i + 1) + 1 = n - i /\ (i + 1 <= n \/ n - i = 0)
    BY <2>1
  <2>4. DOMAIN rest = 1..Len(rest)
    BY <2>2, LenProperties
  <2> HIDE DEF rest, n
  <2>5. Len(rest) = n - i
    BY <2>1, <2>2, <2>3
  <2>6. ASSUME NEW k \in 1..n - i PROVE rest[k] = agenda[i + k]
    <3>1. k \in 1..n - (i + 1) + 1 /\ (i + 1) + k - 1 = i + k
      BY <2>1, <2>3
    <3> QED BY <2>2, <3>1
  <2> QED BY <2>2, <2>4, <2>5, <2>6 DEF n
<1>6. i # Len(agenda)
  <2>1. Len(agenda) \in DOMAIN agenda
    BY <1>1
  <2>2. agenda[Len(agenda)].op = "reconcile"
    BY <2>1 DEF Formed
  <2> QED BY <1>3, <2>2
<1>7. Capped = <<t>> \o rest
  BY DEF Capped, i
<1> HIDE DEF t, rest
<1>8. Formed(rest, TRUE, r)
  <2>1. rest # <<>>
    <3>1. Len(rest) = Len(agenda) - i /\ i \in Nat /\ Len(agenda) \in Nat
      BY <1>1, <1>3, <1>5
    <3>2. Len(rest) # 0
      BY <1>6, <3>1
    <3> QED BY <3>2, EmptySeq
  <2>2. ASSUME NEW k \in DOMAIN rest
        PROVE  /\ rest[k].op = "member" => k + 1 \in DOMAIN rest /\ rest[k + 1].op \in {"member", "close"}
               /\ rest[k].op = "reconcile" <=> k = Len(rest)
               /\ rest[k].op # "retire"
    <3>1. /\ k \in Nat /\ i + k \in DOMAIN agenda /\ rest[k] = agenda[i + k]
          /\ k = Len(rest) <=> i + k = Len(agenda)
      BY <1>1, <1>3, <1>5
    <3>2. i + k + 1 \in DOMAIN agenda => k + 1 \in DOMAIN rest /\ rest[k + 1] = agenda[i + k + 1]
      BY <1>1, <1>3, <1>5, <3>1
    <3> QED BY <3>1, <3>2 DEF Formed
  <2> QED BY <1>5, <2>1, <2>2 DEF Formed
<1> DEFINE s == <<t>>
<1>9. s \in Seq(Task(r)) /\ Len(s) = 1 /\ s[1] = t /\ s # <<>>
  BY <1>4
<1> HIDE DEF s
<1>10. Block(s, r) /\ 1 \in 1..Len(s)
  <2>1. 1..Len(s) - 1 = {} /\ 1 \in 1..Len(s)
    BY <1>9
  <2> QED BY <1>4, <1>9, <2>1 DEF Block
<1>11. /\ Formed(s \o rest, TRUE, r)
       /\ \A k \in 1..Len(s) : k \in DOMAIN (s \o rest) /\ (s \o rest)[k] = s[k]
       /\ \A k \in 1..Len(rest) : Len(s) + k \in DOMAIN (s \o rest) /\ (s \o rest)[Len(s) + k] = rest[k]
  <2>1. Formed(s \o rest, TRUE, r)
    BY <1>8, <1>10, Pushed
  <2>2. \A k \in 1..Len(s) : k \in DOMAIN (s \o rest) /\ (s \o rest)[k] = s[k]
    BY <1>8, <1>10, Pushed
  <2>3. \A k \in 1..Len(rest) : Len(s) + k \in DOMAIN (s \o rest) /\ (s \o rest)[Len(s) + k] = rest[k]
    BY <1>8, <1>10, Pushed
  <2> QED BY <2>1, <2>2, <2>3
<1>12. Formed(Capped, TRUE, r) /\ 1 \in DOMAIN Capped /\ Capped[1] = t
  BY <1>7, <1>9, <1>10, <1>11 DEF s
<1>13. Capped # <<>> /\ Head(Capped) = Capped[1]
  BY <1>12, FirstOf DEF Formed
<1>14. ASSUME NEW k \in DOMAIN agenda, agenda[k].op = "close"
       PROVE  \E j \in DOMAIN Capped : Capped[j].op = "close" /\ Capped[j].path = agenda[k].path
  <2>1. CASE k = i
    BY <1>4, <1>12, <2>1
  <2>2. CASE k # i
    <3>1. k - i \in 1..Len(rest) /\ rest[k - i] = agenda[k]
      BY <1>1, <1>3, <1>5, <1>14, <2>2
    <3>2. Len(s) + (k - i) \in DOMAIN Capped /\ Capped[Len(s) + (k - i)] = rest[k - i]
      BY <1>7, <1>11, <3>1 DEF s
    <3> QED BY <1>14, <3>1, <3>2
  <2> QED BY <2>1, <2>2
<1>15. DOMAIN Capped = 1..Len(Capped)
  BY <1>12, <1>13, FirstOf
<1>16. \A p : Due(agenda, p) => Due(Capped, p)
  BY <1>1, <1>14, <1>15 DEF Due
<1>17. /\ i - 1 \in 0..Len(agenda)
       /\ Len(Capped) = Len(agenda) - (i - 1)
       /\ \A k \in 1..Len(Capped) : Same(agenda[(i - 1) + k], Capped[k])
       /\ \A k \in 1..Len(Capped) : Capped[k] = agenda[(i - 1) + k] \/ Capped[k].capped
  <2>1. Len(Capped) = Len(agenda) - (i - 1)
    <3>1. Len(s \o rest) = Len(s) + Len(rest)
      BY <1>5, <1>9, ConcatProperties
    <3>2. i \in Nat /\ Len(agenda) \in Nat /\ 1 + (Len(agenda) - i) = Len(agenda) - (i - 1)
      BY <1>1, <1>3
    <3> QED BY <1>5, <1>7, <1>9, <3>1, <3>2 DEF s
  <2>2. ASSUME NEW k \in 1..Len(Capped)
        PROVE  /\ Same(agenda[(i - 1) + k], Capped[k])
               /\ Capped[k] = agenda[(i - 1) + k] \/ Capped[k].capped
    <3>1. i \in Nat /\ Len(agenda) \in Nat /\ k \in Nat
      BY <1>1, <1>3
    <3>2. CASE k = 1
      <4>1. (i - 1) + k = i
        BY <3>1, <3>2
      <4> QED BY <1>3, <1>4, <1>12, <3>2, <4>1 DEF Same
    <3>3. CASE k # 1
      <4>1. k - 1 \in 1..Len(rest) /\ Len(s) + (k - 1) = k /\ i + (k - 1) = (i - 1) + k
        BY <1>5, <1>9, <2>1, <3>1, <3>3
      <4>2. Capped[k] = rest[k - 1] /\ rest[k - 1] = agenda[(i - 1) + k]
        BY <1>5, <1>7, <1>11, <4>1 DEF s
      <4> QED BY <4>2 DEF Same
    <3> QED BY <3>2, <3>3
  <2>3. i - 1 \in 0..Len(agenda)
    BY <1>1, <1>3
  <2> QED BY <2>1, <2>2, <2>3
<1> QED BY <1>4, <1>12, <1>13, <1>16, <1>17

\* Unless the first task closes it, a container that is due stays due, and
\* without a claim none is.
LEMMA DueStays ==
  ASSUME NEW r, NEW owned \in BOOLEAN, NEW a, Formed(a, owned, r), NEW p, Due(a, p)
  PROVE  /\ owned /\ a # <<>>
         /\ (Head(a).op = "close" /\ Head(a).path = p) \/ Due(Tail(a), p)
<1>1. PICK i \in 1..Len(a) : a[i].op = "close" /\ a[i].path = p
  BY DEF Due
<1>2. a # <<>> /\ DOMAIN a = 1..Len(a)
  <2>1. a \in Seq(Task(r))
    BY DEF Formed
  <2>2. DOMAIN a = 1..Len(a) /\ Len(<<>>) = 0
    BY <2>1, LenProperties
  <2> QED BY <1>1, <2>2
<1>3. owned
  BY <1>1, <1>2 DEF Formed
<1>4. /\ Head(a) = a[1] /\ Len(a) \in Nat \ {0} /\ Len(Tail(a)) = Len(a) - 1
      /\ \A k \in 1..Len(a) - 1 : Tail(a)[k] = a[k + 1]
  BY <1>2, FirstOf
<1>5. CASE i = 1
  BY <1>1, <1>2, <1>3, <1>4, <1>5
<1>6. CASE i # 1
  <2>1. i - 1 \in 1..Len(a) - 1 /\ (i - 1) + 1 = i
    BY <1>4, <1>6
  <2>2. Tail(a)[i - 1] = a[i]
    BY <1>4, <2>1
  <2>3. Due(Tail(a), p)
    BY <1>1, <1>4, <2>1, <2>2 DEF Due
  <2> QED BY <1>2, <1>3, <2>3
<1> QED BY <1>5, <1>6

-----------------------------------------------------------------------------
(* The order of the walk *)

LEMMA PlaceIs ==
  ASSUME NEW r \in Roots
  PROVE  /\ Place(r) \in Nat /\ r \in Seq(Name)
         /\ \A s \in Roots : /\ Under(r, s) => Place(r) < Place(s)
                             /\ Place(r) = Place(s) => r = s
<1>1. /\ Walk \in Seq(Seq(Name) \ {<<>>}) /\ DOMAIN Walk = 1..Len(Walk) /\ Len(Walk) \in Nat
  BY ExpansionAssumption, LenProperties
<1>2. ASSUME NEW s \in Roots
      PROVE  Place(s) \in DOMAIN Walk /\ Walk[Place(s)] = s /\ Place(s) \in Nat /\ s \in Seq(Name)
  <2>1. \E i \in DOMAIN Walk : Walk[i] = s
    BY DEF Roots
  <2>2. Place(s) \in DOMAIN Walk /\ Walk[Place(s)] = s
    BY <2>1 DEF Place
  <2>3. s \in Seq(Name)
    BY <1>1, <2>2, ElementOfSeq
  <2> QED BY <1>1, <2>2, <2>3
<1>3. ASSUME NEW s \in Roots
      PROVE  /\ Under(r, s) => Place(r) < Place(s)
             /\ Place(r) = Place(s) => r = s
  <2>1. /\ Place(r) \in DOMAIN Walk /\ Walk[Place(r)] = r
        /\ Place(s) \in DOMAIN Walk /\ Walk[Place(s)] = s
    BY <1>2
  <2>2. \A i, j \in DOMAIN Walk : IsStrictPrefix(Walk[i], Walk[j]) => i < j
    BY ExpansionAssumption
  <2>3. Under(r, s) => Place(r) < Place(s)
    <3>1. IsStrictPrefix(Walk[Place(r)], Walk[Place(s)]) => Place(r) < Place(s)
      BY <2>1, <2>2
    <3> QED BY <2>1, <3>1 DEF Under
  <2> QED BY <2>1, <2>3
<1> QED BY <1>2, <1>3

\* The tree of a later entry is apart from an earlier one and from what that
\* one owns.
LEMMA Apart ==
  ASSUME NEW r \in Roots, NEW c \in Roots, Place(r) < Place(c)
  PROVE  /\ r \notin Tree(c)
         /\ \A p \in Seq(Name) : Own(r, p) => p \notin Tree(c)
<1>1. /\ r \in Seq(Name) /\ c \in Seq(Name) /\ Place(r) \in Nat /\ Place(c) \in Nat
      /\ r # c /\ ~Under(c, r)
  <2>1. r \in Seq(Name) /\ c \in Seq(Name) /\ Place(r) \in Nat /\ Place(c) \in Nat
    BY PlaceIs
  <2>2. Under(c, r) => Place(c) < Place(r)
    BY PlaceIs
  <2> QED BY <2>1, <2>2
<1>2. r \notin Tree(c)
  BY <1>1 DEF Tree
<1>3. ASSUME NEW p \in Seq(Name), Own(r, p), p \in Tree(c) PROVE FALSE
  <2>1. Under(r, p) /\ (Under(r, c) => p # c /\ ~Under(c, p)) /\ (p = c \/ Under(c, p))
    BY <1>3 DEF Own, Tree
  <2>2. CASE p = c
    BY <2>1, <2>2
  <2>3. CASE Under(c, p)
    <3>1. r = c \/ Under(r, c) \/ Under(c, r)
      BY <1>1, <2>1, <2>3, UnderIsOrder
    <3> QED BY <1>1, <2>1, <2>3, <3>1
  <2> QED BY <2>1, <2>2, <2>3
<1> QED BY <1>2, <1>3

-----------------------------------------------------------------------------
(* Emitting *)

\* A record in hand, whose artifact is in place if it is live, and no other
\* artifact touched.
Emits ==
  /\ held' \in Held /\ held'.path \in Tree(cur)
  /\ held'.record.status \in Bearing =>
       held'.path \in DOMAIN mirror' /\ mirror'[held'.path] = held'.record.hash
  /\ \A q : q # held'.path => /\ q \in DOMAIN mirror' <=> q \in DOMAIN mirror
                              /\ q \in DOMAIN mirror => mirror'[q] = mirror[q]
  /\ \A q \in DOMAIN mirror' : q \in Seq(Name) /\ mirror'[q] \in Content

Rested == \A q \in DOMAIN mirror : q \in Seq(Name) /\ mirror[q] \in Content

LEMMA Writing ==
  ASSUME Rested, NEW p \in Tree(cur), NEW s \in Status, NEW c \in Content, Write(p, s, c)
  PROVE  Emits /\ held'.path = p /\ held'.record = [status |-> s, hash |-> c]
<1>1. p \in Seq(Name)
  BY DEF Tree
<1>2. held'.path = p /\ held'.record = [status |-> s, hash |-> c] /\ held' \in Held
  BY <1>1 DEF Write, Held, Record
<1>3. mirror' = With(mirror, p, c)
  BY DEF Write
<1>4. /\ DOMAIN mirror' = DOMAIN mirror \cup {p} /\ mirror'[p] = c
      /\ \A q \in DOMAIN mirror : q # p => mirror'[q] = mirror[q]
  BY <1>3 DEF With
<1> QED BY <1>1, <1>2, <1>4 DEF Emits, Rested

LEMMA Refusing ==
  ASSUME Rested, NEW p \in Tree(cur), NEW s \in Status \ Bearing, NEW h \in Content \cup {None},
         Refuse(p, s, h)
  PROVE  Emits /\ held'.path = p /\ held'.record = [status |-> s, hash |-> h]
<1>1. p \in Seq(Name)
  BY DEF Tree
<1>2. held'.path = p /\ held'.record = [status |-> s, hash |-> h] /\ held' \in Held
  BY <1>1 DEF Refuse, Held, Record
<1>3. /\ DOMAIN mirror' = DOMAIN mirror \ {p}
      /\ \A q \in DOMAIN mirror : q # p => mirror'[q] = mirror[q]
  BY DEF Refuse, Restrict
<1> QED BY <1>1, <1>2, <1>3 DEF Emits, Rested

\* What the work on an entry does to the rest of the state.
Works ==
  /\ running /\ held = None /\ cur \in Roots
  /\ UNCHANGED <<source, terminal, running, queue, walked, cur, visited, moved, killed>>
  /\ Emits \/ UNCHANGED <<mirror, held>>

\* With fewer records and the same files, no fewer outcomes are binding.
LEMMA BindingShrinks ==
  ASSUME NEW r, NEW rec, Binding(r, rec)',
         r \notin moved' => r \notin moved /\ source'[r] = source[r],
         walked' = walked, DOMAIN terminal \subseteq DOMAIN terminal'
  PROVE  Binding(r, rec)
BY DEF Binding, EverOccupied, HasLeg, HasChildren

LEMMA Emission ==
  ASSUME IInv, Works
  PROVE  /\ \A q : Kept(q) => Kept(q)'
         /\ \A q : Emits /\ q = held'.path => Kept(q)'
         /\ held' \in Held \cup {None} /\ Rested'
         /\ HeldInv' /\ VisitedInv'
<1>1. TypeOK /\ OrderInv /\ VisitedInv /\ held = None /\ cur \in Roots
  BY DEF IInv, Works
<1>2. None \notin Held
  BY ExpansionAssumption
<1>3. /\ UNCHANGED <<source, terminal, walked, cur, visited, moved>>
      /\ Emits \/ UNCHANGED <<mirror, held>>
  BY DEF Works
<1>4. ASSUME NEW q, Whole(q), Emits => q # held'.path
      PROVE  Whole(q)'
  BY <1>3, <1>4 DEF Whole, Live, Intact, Emits
<1>5. ASSUME NEW q, Emits, q = held'.path PROVE Kept(q)'
  BY <1>2, <1>5 DEF Kept, Holds, Emits
<1>6. ASSUME NEW q, Kept(q) PROVE Kept(q)'
  <2>1. Whole(q)
    BY <1>1, <1>6 DEF Kept, Holds
  <2>2. CASE Emits /\ q = held'.path
    BY <1>5, <2>2
  <2>3. CASE ~(Emits /\ q = held'.path)
    BY <1>4, <2>1, <2>3 DEF Kept
  <2> QED BY <2>2, <2>3
<1>7. held' \in Held \cup {None} /\ Rested'
  BY <1>1, <1>3 DEF Emits, Rested, TypeOK
<1>8. HeldInv'
  <2>1. CASE Emits
    BY <1>3, <2>1 DEF HeldInv, Emits
  <2>2. CASE UNCHANGED <<mirror, held>>
    BY <1>1, <2>2 DEF HeldInv
  <2> QED BY <1>3, <2>1, <2>2
<1>9. VisitedInv'
  <2> SUFFICES ASSUME NEW r \in visited
               PROVE  /\ Whole(r)'
                      /\ (r \in DOMAIN terminal /\ Binding(r, terminal[r]))' =>
                           \A p \in DOMAIN terminal : Own(r, p) => Whole(p)'
    BY <1>3 DEF VisitedInv, Own
  <2>1. r \in Roots /\ Place(r) < Place(cur)
    <3>1. cur # None
      BY <1>1, PlaceIs, ExpansionAssumption
    <3> QED BY <1>1, <3>1 DEF TypeOK, OrderInv
  <2>2. r \notin Tree(cur) /\ \A p \in Seq(Name) : Own(r, p) => p \notin Tree(cur)
    BY <1>1, <2>1, Apart
  <2>3. Whole(r)'
    <3>1. Whole(r)
      BY <1>1 DEF VisitedInv
    <3> QED BY <1>4, <2>2, <3>1 DEF Emits
  <2>4. ASSUME (r \in DOMAIN terminal /\ Binding(r, terminal[r]))',
               NEW p \in DOMAIN terminal, Own(r, p)
        PROVE  Whole(p)'
    <3>1. r \in DOMAIN terminal /\ Binding(r, terminal[r])
      <4>1. r \in DOMAIN terminal /\ Binding(r, terminal[r])'
        BY <1>3, <2>4
      <4>2. terminal'[r] = terminal[r]
        BY <1>3
      <4> QED BY <1>3, <4>1, <4>2, BindingShrinks DEF Binding, EverOccupied, HasLeg, HasChildren
    <3>2. Whole(p)
      BY <1>1, <2>4, <3>1 DEF VisitedInv
    <3>3. p \notin Tree(cur)
      BY <1>1, <2>2, <2>4 DEF TypeOK
    <3> QED BY <1>4, <3>2, <3>3 DEF Emits
  <2> QED BY <2>3, <2>4
<1> QED BY <1>5, <1>6, <1>7, <1>8, <1>9

\* What an action on a task leaves: its books, its agenda and its records.
Books ==
  /\ dedup' \in [Content -> Seq(Name) \cup {None}]
  /\ claim' \in Claim \cup {None}
  /\ expanded' \in Nat /\ used' \in 0..MaxDisturbances

Plans ==
  /\ claim' # None => Formed(agenda', TRUE, cur) /\ claim'.prefix = cur
  /\ claim' = None =>
       /\ Formed(agenda', FALSE, cur)
       /\ agenda' # <<>> => \/ Head(agenda').op = "retire"
                            \/ Head(agenda').op = "leg" /\ Head(agenda').path = cur

Covers ==
  /\ claim' # None => \A q \in claim'.emitted : Kept(q)
  /\ agenda' # <<>> /\ Head(agenda').op = "retire" =>
       \A q \in DOMAIN terminal : Under(cur, q) => Kept(q)' \/ q \in Head(agenda').left
  /\ Kept(cur)' \/ Due(agenda', cur)
  /\ agenda' = <<>> => Unbound(cur)' \/ \A p \in DOMAIN terminal : Under(cur, p) => Kept(p)'

LEMMA Worked ==
  ASSUME IInv, Works, Books, Plans, Covers
  PROVE  IInv'
<1>1. TypeOK /\ AgendaInv /\ OrderInv /\ cur \in Roots /\ cur # None
  BY PlaceIs, ExpansionAssumption DEF IInv, Works
<1>2. UNCHANGED <<source, terminal, running, queue, walked, cur, visited, moved, killed>> /\ running
  BY DEF Works
<1>3. /\ \A q : Kept(q) => Kept(q)'
      /\ held' \in Held \cup {None} /\ Rested' /\ HeldInv' /\ VisitedInv'
  BY Emission
<1>4. AgendaInv'
  BY <1>2 DEF AgendaInv, Plans
<1>5. TypeOK'
  <2>1. agenda' \in Seq(Task(cur))
    BY DEF Plans, Formed
  <2>2. \A i \in DOMAIN agenda' :
          agenda'[i].op \in {"unit", "leg", "member", "close", "reconcile", "retire"}
    <3> SUFFICES ASSUME NEW i \in DOMAIN agenda'
                 PROVE  agenda'[i].op \in {"unit", "leg", "member", "close", "reconcile", "retire"}
      OBVIOUS
    <3>1. agenda'[i] \in Task(cur)
      BY <2>1, ElementOfSeq, LenProperties
    <3> QED BY <3>1, TaskIs
  <2>3. \A p \in DOMAIN mirror' : p \in Seq(Name) /\ mirror'[p] \in Content
    BY <1>3 DEF Rested
  <2> QED BY <1>1, <1>2, <1>3, <2>2, <2>3 DEF TypeOK, Books
<1>6. OrderInv'
  BY <1>1, <1>2 DEF OrderInv
<1>7. EmittedInv'
  BY <1>3 DEF EmittedInv, Covers
<1>8. RetireInv' /\ RootInv' /\ CurInv'
  BY <1>2 DEF RetireInv, RootInv, CurInv, Covers
<1> QED BY <1>3, <1>4, <1>5, <1>6, <1>7, <1>8 DEF IInv

-----------------------------------------------------------------------------
(* The tasks *)

\* A claimed namespace is reconciled before anything is retired.
LEMMA OwnedIs ==
  ASSUME NEW r, NEW a, Formed(a, TRUE, r)
  PROVE  a # <<>> /\ Head(a).op # "retire"
<1>1. a # <<>>
  BY DEF Formed
<1>2. Head(a) = a[1] /\ 1 \in DOMAIN a
  BY <1>1, FirstOf
<1> QED BY <1>1, <1>2 DEF Formed

AtTask == running /\ held = None /\ agenda # <<>>

LEMMA TaskAt ==
  ASSUME IInv, AtTask
  PROVE  /\ cur \in Roots /\ cur \in Seq(Name) /\ cur \in Tree(cur) /\ Rested
         /\ Head(agenda) \in Task(cur)
         /\ claim # None => /\ claim \in Claim /\ claim.prefix = cur /\ Formed(agenda, TRUE, cur)
                            /\ Head(agenda).op # "reconcile" =>
                                 Formed(Rest, TRUE, cur) /\ Rest # <<>> /\ Head(Rest).op # "retire"
                            /\ \A q \in claim.emitted : Kept(q)
         /\ claim = None => /\ Rest = <<>> /\ Head(agenda).op \in {"unit", "leg", "retire"}
                            /\ Head(agenda).op \in {"unit", "leg"} => Head(agenda).path = cur
         /\ \A q \in DOMAIN terminal : q \in Seq(Name) /\ terminal[q] \in Record
<1>1. TypeOK /\ AgendaInv /\ OrderInv /\ EmittedInv /\ agenda # <<>>
  BY DEF IInv, AtTask
<1>2. cur \in Roots
  BY <1>1 DEF TypeOK, OrderInv
<1>3. cur \in Seq(Name) /\ cur \in Tree(cur)
  BY <1>2, PlaceIs DEF Tree
<1>4. CASE claim # None
  <2>1. Formed(agenda, TRUE, cur) /\ claim.prefix = cur
    BY <1>1, <1>4 DEF AgendaInv
  <2>2. Head(agenda) \in Task(cur)
    BY <1>1, <2>1, FirstOf
  <2>3. Head(agenda).op # "reconcile" => Formed(Rest, TRUE, cur)
    BY <2>1, Popped DEF Rest
  <2>4. Head(agenda).op # "reconcile" => Rest # <<>> /\ Head(Rest).op # "retire"
    BY <2>3, OwnedIs
  <2> QED BY <1>1, <1>2, <1>3, <1>4, <2>1, <2>2, <2>3, <2>4 DEF TypeOK, Rested, EmittedInv
<1>5. CASE claim = None
  <2>1. Formed(agenda, FALSE, cur)
    BY <1>1, <1>5 DEF AgendaInv
  <2>2. Head(agenda) \in Task(cur)
    BY <1>1, <2>1, FirstOf
  <2>3. Rest = <<>> /\ Head(agenda).op \in {"unit", "leg", "retire"}
    BY <1>1, <2>1, AloneIs DEF Rest
  <2> QED BY <1>1, <1>2, <1>3, <1>5, <2>2, <2>3 DEF TypeOK, Rested, AgendaInv
<1> QED BY <1>4, <1>5

\* What is due for the entry's own record.
LEMMA RootStays ==
  ASSUME IInv, AtTask
  PROVE  \/ Kept(cur)
         \/ Head(agenda).op = "unit" /\ Head(agenda).path = cur
         \/ Head(agenda).op = "close" /\ Head(agenda).path = cur
         \/ claim # None /\ Due(Rest, cur)
<1>1. cur # None /\ RootInv /\ AgendaInv /\ agenda # <<>>
  BY DEF IInv, AtTask, OrderInv
<1>2. CASE Due(agenda, cur)
  <2>1. CASE claim # None
    <3>1. Formed(agenda, TRUE, cur)
      BY <1>1, <2>1 DEF AgendaInv
    <3> QED BY <1>2, <2>1, <3>1, DueStays DEF Rest
  <2>2. CASE claim = None
    <3>1. Formed(agenda, FALSE, cur)
      BY <1>1, <2>2 DEF AgendaInv
    <3> QED BY <1>2, <3>1, DueStays
  <2> QED BY <2>1, <2>2
<1> QED BY <1>1, <1>2 DEF RootInv

\* A task that is done with leaves the rest of the agenda.
LEMMA Done ==
  ASSUME IInv, AtTask, Works, Books, agenda' = Rest, Head(agenda).op # "reconcile",
         claim # None <=> claim' # None,
         claim' # None => claim'.prefix = claim.prefix /\ \A q \in claim'.emitted : Kept(q),
         Kept(cur)' \/ (claim # None /\ Due(Rest, cur)),
         claim = None => Unbound(cur)' \/ \A p \in DOMAIN terminal : Under(cur, p) => Kept(p)'
  PROVE  IInv'
<1>1. claim # None => /\ claim.prefix = cur
                      /\ Formed(Rest, TRUE, cur) /\ Rest # <<>> /\ Head(Rest).op # "retire"
  BY TaskAt
<1>2. claim = None => Rest = <<>>
  BY TaskAt
<1>3. Formed(<<>>, FALSE, cur)
  BY FormedAlone
<1>4. Plans
  <2>1. claim' # None => Formed(agenda', TRUE, cur) /\ claim'.prefix = cur
    BY <1>1
  <2>2. claim' = None => Formed(agenda', FALSE, cur) /\ agenda' = <<>>
    BY <1>2, <1>3
  <2> QED BY <2>1, <2>2 DEF Plans
<1>5. Covers
  BY <1>1, <1>2 DEF Covers
<1> QED BY <1>4, <1>5, Worked

LEMMA UnboundNow ==
  ASSUME Emits, held'.path = cur, cur' = cur,
         held'.record.status \notin Bearing \/ ~HasChildren(held'.record.hash)
  PROVE  Unbound(cur)'
<1>1. Holds(cur)'
  BY ExpansionAssumption DEF Emits, Holds
<1>2. ~Binding(cur, held.record)'
  BY DEF Binding, HasChildren, HasLeg
<1> QED BY <1>1, <1>2 DEF Unbound

LEMMA SkipKeeps ==
  ASSUME IInv, Skip
  PROVE  IInv'
<1> DEFINE u == Head(agenda)
           kept == {q \in DOMAIN terminal : Under(u.path, q)}
           keys == IF HasLeg(u.content) THEN {KeyOf(q) : q \in kept} ELSE {}
<1>1. AtTask /\ u.op = "unit"
  BY DEF Skip, Doing, AtTask
<1>2. /\ Skippable(u.path, u.content)
      /\ held' = [path |-> u.path, record |-> terminal[u.path]]
      /\ claim' = IF claim = None \/ ~HasChildren(u.content) THEN claim
                  ELSE [claim EXCEPT !.emitted = @ \cup kept, !.claimed = @ \cup keys]
      /\ agenda' = Rest
      /\ UNCHANGED <<disk, run, dedup, expanded, book>>
  BY DEF Skip
<1>3. u.path \in Tree(cur) /\ u.content \in Content
  BY <1>1, TaskAt, TaskIs
<1>4. /\ u.path \in DOMAIN terminal /\ terminal[u.path].hash = u.content
      /\ terminal[u.path] \in Record /\ terminal[u.path].status \in Bearing
      /\ u.path \in DOMAIN mirror /\ mirror[u.path] = u.content /\ u.path \in Seq(Name)
  BY <1>1, <1>2, TaskAt DEF Skippable, Live, Intact
<1>5. Emits /\ held'.path = u.path /\ held'.record = terminal[u.path]
  <2>1. held' \in Held /\ held'.path = u.path /\ held'.record = terminal[u.path]
    BY <1>2, <1>4 DEF Held
  <2>2. mirror' = mirror
    BY <1>2 DEF disk
  <2> QED BY <1>1, <1>3, <1>4, <2>1, <2>2, TaskAt DEF Emits, Rested
<1> HIDE DEF u, kept, keys
<1>6. Works
  BY <1>1, <1>2, <1>5, TaskAt DEF Works, AtTask, disk, run, book
<1>7. ASSUME HasChildren(u.content), NEW q \in DOMAIN terminal, Under(u.path, q)
      PROVE  Kept(q)
  BY <1>2, <1>7 DEF Skippable, DescendantsIntact, Kept, Whole
<1>8. Books /\ (claim # None => claim' \in Claim)
  <2>1. claim' \in Claim \cup {None} /\ (claim # None => claim' \in Claim)
    <3>1. CASE claim = None \/ ~HasChildren(u.content)
      BY <1>2, <3>1 DEF IInv, TypeOK
    <3>2. CASE ~(claim = None \/ ~HasChildren(u.content))
      <4>1. claim \in Claim
        BY <3>2 DEF IInv, TypeOK
      <4>2. kept \subseteq Seq(Name)
        BY <1>1, TaskAt DEF kept
      <4>3. keys \subseteq Seq(Name)
        BY <4>2, KeysArePaths DEF keys
      <4> QED BY <1>2, <3>2, <4>1, <4>2, <4>3 DEF Claim
    <3> QED BY <3>1, <3>2
  <2> QED BY <1>2, <2>1 DEF Books, IInv, TypeOK, book
<1>9. /\ claim # None <=> claim' # None
      /\ claim' # None => claim'.prefix = claim.prefix /\ \A q \in claim'.emitted : Kept(q)
  <2>1. CASE claim = None \/ ~HasChildren(u.content)
    BY <1>1, <1>2, <2>1, TaskAt
  <2>2. CASE ~(claim = None \/ ~HasChildren(u.content))
    <3>1. claim \in Claim /\ \A q \in claim.emitted : Kept(q)
      BY <1>1, <2>2, TaskAt
    <3>2. claim'.prefix = claim.prefix /\ claim'.emitted = claim.emitted \cup kept
      BY <1>2, <2>2, <3>1 DEF Claim
    <3>3. \A q \in kept : Kept(q)
      BY <1>7, <2>2 DEF kept
    <3>4. claim' # None
      BY <1>8, <2>2, ExpansionAssumption
    <3> QED BY <2>2, <3>1, <3>2, <3>3, <3>4
  <2> QED BY <2>1, <2>2
<1>10. Kept(cur)' \/ (claim # None /\ Due(Rest, cur))
  <2>1. \A q : Kept(q) => Kept(q)'
    BY <1>6, Emission
  <2>2. u.path = cur => Kept(cur)'
    BY <1>5, <1>6, Emission DEF Works
  <2> QED BY <1>1, <1>6, <2>1, <2>2, RootStays DEF Works, u
<1>11. ASSUME claim = None
       PROVE  Unbound(cur)' \/ \A p \in DOMAIN terminal : Under(cur, p) => Kept(p)'
  <2>1. u.path = cur
    BY <1>1, <1>11, TaskAt DEF u
  <2>2. CASE HasChildren(u.content)
    BY <1>6, <1>7, <2>1, <2>2, Emission
  <2>3. CASE ~HasChildren(u.content)
    BY <1>4, <1>5, <1>6, <2>1, <2>3, UnboundNow DEF Works
  <2> QED BY <2>2, <2>3
<1>12. agenda' = Rest /\ Head(agenda).op # "reconcile"
  BY <1>1, <1>2 DEF u
<1> QED BY <1>1, <1>6, <1>8, <1>9, <1>10, <1>11, <1>12, Done

LEMMA NewClaimIs ==
  ASSUME NEW p \in Seq(Name)
  PROVE  /\ NewClaim(p) \in Claim /\ NewClaim(p) # None
         /\ NewClaim(p).prefix = p /\ NewClaim(p).emitted = {}
<1>1. 0 \in 0..Len(CollisionName)
  BY ExpansionAssumption, LenProperties
<1>2. NewClaim(p) \in Claim
  BY <1>1 DEF NewClaim, Claim
<1> QED BY <1>2, ExpansionAssumption DEF NewClaim

\* A task that claims the entry's namespace leaves its reconciliation.
LEMMA Claiming ==
  ASSUME IInv, AtTask, Works, Books, claim = None, claim' = NewClaim(cur),
         agenda' = <<[op |-> "reconcile"]>> \o Rest, Kept(cur)'
  PROVE  IInv'
<1>1. Rest = <<>> /\ cur \in Seq(Name)
  BY TaskAt
<1>2. agenda' = <<[op |-> "reconcile"]>>
  BY <1>1
<1>3. Formed(<<[op |-> "reconcile"]>>, TRUE, cur)
  BY FormedAlone
<1>4. claim' # None /\ claim'.prefix = cur /\ claim'.emitted = {}
  BY <1>1, NewClaimIs
<1>5. agenda' # <<>> /\ Head(agenda').op # "retire"
  BY <1>2
<1>6. Plans
  BY <1>2, <1>3, <1>4 DEF Plans
<1>7. Covers
  BY <1>4, <1>5 DEF Covers
<1> QED BY <1>6, <1>7, Worked

\* One more task under the claim in force.
LEMMA Dispatching ==
  ASSUME IInv, AtTask, Works, Books, claim # None, Head(agenda).op # "reconcile",
         NEW t \in Task(cur), t.op \in {"unit", "leg"}, agenda' = <<t>> \o Rest,
         claim' # None, claim'.prefix = claim.prefix, claim'.emitted = claim.emitted,
         Kept(cur)' \/ Due(Rest, cur)
  PROVE  IInv'
<1>1. Formed(Rest, TRUE, cur) /\ claim.prefix = cur /\ \A q \in claim.emitted : Kept(q)
  BY TaskAt
<1>2. Formed(agenda', TRUE, cur) /\ Head(agenda') = t /\ agenda' # <<>>
  BY <1>1, OnePushed
<1>3. Due(Rest, cur) => Due(agenda', cur)
  BY <1>1, OnePushed
<1>4. Plans
  BY <1>1, <1>2 DEF Plans
<1>5. Covers
  BY <1>1, <1>2, <1>3 DEF Covers
<1> QED BY <1>4, <1>5, Worked

LEMMA Converting ==
  ASSUME IInv, NEW u, u.path \in Tree(cur), u.content \in Content, Rested, Convert(u)
  PROVE  /\ Emits /\ held'.path = u.path /\ held'.record.hash = u.content
         /\ ~Loaded(u) => held'.record.status = "failed"
         /\ dedup' \in [Content -> Seq(Name) \cup {None}]
<1>1. dedup \in [Content -> Seq(Name) \cup {None}] /\ u.path \in Seq(Name)
  BY DEF IInv, TypeOK, Tree
<1>2. CASE Loaded(u) /\ u.content \in Converts
  <2>1. Write(u.path, "text", u.content) /\ dedup' = [dedup EXCEPT ![u.content] = u.path]
    BY <1>2 DEF Convert
  <2>2. "text" \in Status
    BY DEF Status, Bearing
  <2>3. Emits /\ held'.path = u.path /\ held'.record = [status |-> "text", hash |-> u.content]
    BY <2>1, <2>2, Writing
  <2> QED BY <1>1, <1>2, <2>1, <2>3
<1>3. CASE ~(Loaded(u) /\ u.content \in Converts)
  <2>1. Refuse(u.path, "failed", u.content) /\ dedup' = dedup
    BY <1>3 DEF Convert, Fails
  <2>2. Emits /\ held'.path = u.path /\ held'.record = [status |-> "failed", hash |-> u.content]
    BY <2>1, Refusing DEF Status, Bearing
  <2> QED BY <1>1, <2>1, <2>2
<1> QED BY <1>2, <1>3

\* The record of a unit is in hand once it has been emitted.
LEMMA UnitIs ==
  ASSUME IInv, AtTask, Head(agenda).op = "unit"
  PROVE  /\ Head(agenda).path \in Tree(cur) /\ Head(agenda).content \in Content
         /\ Head(agenda).depth \in Nat /\ Head(agenda).chain \in SUBSET Content
         /\ claim = None => Head(agenda).path = cur
         /\ Works /\ Emits /\ held'.path = Head(agenda).path =>
              Kept(cur)' \/ (claim # None /\ Due(Rest, cur))
<1>1. /\ Head(agenda).path \in Tree(cur) /\ Head(agenda).content \in Content
      /\ Head(agenda).depth \in Nat /\ Head(agenda).chain \in SUBSET Content
  BY TaskAt, TaskIs
<1>2. claim = None => Head(agenda).path = cur
  BY TaskAt
<1>3. ASSUME Works, Emits, held'.path = Head(agenda).path
      PROVE  Kept(cur)' \/ (claim # None /\ Due(Rest, cur))
  <2>1. \A q : Kept(q) => Kept(q)'
    BY <1>3, Emission
  <2>2. \A q : q = held'.path => Kept(q)'
    BY <1>3, Emission
  <2>3. cur' = cur
    BY <1>3 DEF Works
  <2> QED BY <1>3, <2>1, <2>2, <2>3, RootStays
<1> QED BY <1>1, <1>2, <1>3

LEMMA GuardFailsKeeps ==
  ASSUME IInv, GuardFails
  PROVE  IInv'
<1> DEFINE u == Head(agenda)
<1>1. AtTask /\ u.op = "unit"
  BY DEF GuardFails, Doing, AtTask
<1>2. /\ Refuse(u.path, "failed", u.content) /\ agenda' = Rest
      /\ UNCHANGED <<source, terminal, run, dedup, claim, expanded, book>>
  BY DEF GuardFails, Fails
<1>3. u.path \in Tree(cur) /\ u.content \in Content /\ (claim = None => u.path = cur)
  BY <1>1, UnitIs
<1>4. Emits /\ held'.path = u.path /\ held'.record = [status |-> "failed", hash |-> u.content]
  BY <1>1, <1>2, <1>3, TaskAt, Refusing DEF Status, Bearing
<1>5. Works /\ Books
  BY <1>1, <1>2, <1>4, TaskAt DEF Works, Books, AtTask, run, book, IInv, TypeOK
<1>6. Kept(cur)' \/ (claim # None /\ Due(Rest, cur))
  BY <1>1, <1>4, <1>5, UnitIs
<1>7. claim = None => Unbound(cur)'
  BY <1>3, <1>4, <1>5, UnboundNow DEF Works, Bearing
<1> QED BY <1>1, <1>2, <1>5, <1>6, <1>7, TaskAt, Done

LEMMA BorrowKeeps ==
  ASSUME IInv, Borrow
  PROVE  IInv'
<1> DEFINE u == Head(agenda)
<1>1. AtTask /\ u.op = "unit"
  BY DEF Borrow, Doing, AtTask
<1>2. /\ Write(u.path, "borrowed", u.content) /\ agenda' = Rest /\ Kind[u.content] = "leaf"
      /\ UNCHANGED <<source, terminal, run, dedup, claim, expanded, book>>
  BY DEF Borrow
<1>3. u.path \in Tree(cur) /\ u.content \in Content /\ (claim = None => u.path = cur)
  BY <1>1, UnitIs
<1>4. Emits /\ held'.path = u.path /\ held'.record = [status |-> "borrowed", hash |-> u.content]
  BY <1>1, <1>2, <1>3, TaskAt, Writing DEF Status, Bearing
<1>5. Works /\ Books
  BY <1>1, <1>2, <1>4, TaskAt DEF Works, Books, AtTask, run, book, IInv, TypeOK
<1>6. Kept(cur)' \/ (claim # None /\ Due(Rest, cur))
  BY <1>1, <1>4, <1>5, UnitIs
<1>7. claim = None => Unbound(cur)'
  BY <1>2, <1>3, <1>4, <1>5, UnboundNow DEF Works, HasChildren, HasLeg
<1> QED BY <1>1, <1>2, <1>5, <1>6, <1>7, TaskAt, Done

LEMMA LeafKeeps ==
  ASSUME IInv, Leaf
  PROVE  IInv'
<1> DEFINE u == Head(agenda)
           stale == claim = None /\ \E q \in DOMAIN terminal : Under(u.path, q)
<1>1. AtTask /\ u.op = "unit"
  BY DEF Leaf, Doing, AtTask
<1>2. /\ Convert(u) /\ Kind[u.content] = "leaf"
      /\ claim' = IF stale THEN NewClaim(u.path) ELSE claim
      /\ agenda' = IF stale THEN <<[op |-> "reconcile"]>> \o Rest ELSE Rest
      /\ UNCHANGED <<source, terminal, run, expanded, book>>
  BY DEF Leaf
<1>3. u.path \in Tree(cur) /\ u.content \in Content /\ (claim = None => u.path = cur)
  BY <1>1, UnitIs
<1>4. /\ Emits /\ held'.path = u.path /\ held'.record.hash = u.content
      /\ dedup' \in [Content -> Seq(Name) \cup {None}]
  BY <1>1, <1>2, <1>3, TaskAt, Converting
<1>5. Works
  BY <1>1, <1>2, <1>4, TaskAt DEF Works, AtTask, run, book
<1>6. Kept(cur)' \/ (claim # None /\ Due(Rest, cur))
  BY <1>1, <1>4, <1>5, UnitIs
<1>7. CASE stale
  <2>1. claim = None /\ claim' = NewClaim(cur) /\ agenda' = <<[op |-> "reconcile"]>> \o Rest
    BY <1>2, <1>3, <1>7
  <2>2. claim' \in Claim \cup {None}
    BY <1>1, <2>1, TaskAt, NewClaimIs
  <2>3. Books
    BY <1>2, <1>4, <2>2 DEF Books, book, IInv, TypeOK
  <2> QED BY <1>1, <1>5, <1>6, <2>1, <2>3, Claiming
<1>8. CASE ~stale
  <2>1. claim' = claim /\ agenda' = Rest
    BY <1>2, <1>8
  <2>2. Books
    BY <1>2, <1>4, <2>1 DEF Books, book, IInv, TypeOK
  <2>3. claim = None => Unbound(cur)'
    BY <1>2, <1>3, <1>4, <1>5, UnboundNow DEF Works, HasChildren, HasLeg
  <2> QED BY <1>1, <1>5, <1>6, <2>1, <2>2, <2>3, TaskAt, Done
<1> QED BY <1>7, <1>8

LEMMA PrimaryKeeps ==
  ASSUME IInv, Primary
  PROVE  IInv'
<1> DEFINE u == Head(agenda)
           key == KeyOf(LegPath(u.path, u.content))
           claims == Loaded(u) /\ claim # None /\ ~Occupied(u.path)
           collides == Occupied(u.path) \/ (claim # None /\ key \in claim.claimed)
           leg == [op |-> "leg", path |-> u.path, content |-> u.content]
<1>1. AtTask /\ u.op = "unit"
  BY DEF Primary, Doing, AtTask
<1>2. /\ HasLeg(u.content)
      /\ \/ /\ Loaded(u) /\ Write(u.path, "borrowed", u.content)
            /\ UNCHANGED dedup
         \/ Convert(u)
      /\ claim' = IF claims THEN [claim EXCEPT !.claimed = @ \cup {key}] ELSE claim
      /\ agenda' = IF Loaded(u) /\ ~collides THEN <<leg>> \o Rest ELSE Rest
      /\ UNCHANGED <<source, terminal, run, expanded, book>>
  BY DEF Primary
<1>3. u.path \in Tree(cur) /\ u.content \in Content /\ (claim = None => u.path = cur)
  BY <1>1, UnitIs
<1>4. /\ Emits /\ held'.path = u.path /\ held'.record.hash = u.content
      /\ ~Loaded(u) => held'.record.status = "failed"
      /\ dedup' \in [Content -> Seq(Name) \cup {None}]
  <2>1. CASE Loaded(u) /\ Write(u.path, "borrowed", u.content) /\ UNCHANGED dedup
    <3>1. "borrowed" \in Status
      BY DEF Status, Bearing
    <3>2. Emits /\ held'.path = u.path /\ held'.record = [status |-> "borrowed", hash |-> u.content]
      BY <1>1, <1>3, <2>1, <3>1, TaskAt, Writing
    <3> QED BY <2>1, <3>2 DEF IInv, TypeOK
  <2>2. CASE Convert(u)
    BY <1>1, <1>3, <2>2, TaskAt, Converting
  <2> QED BY <1>2, <2>1, <2>2
<1>5. Works
  BY <1>1, <1>2, <1>4, TaskAt DEF Works, AtTask, run, book
<1>6. Kept(cur)' \/ (claim # None /\ Due(Rest, cur))
  BY <1>1, <1>4, <1>5, UnitIs
<1>7. key \in Seq(Name) /\ leg \in Task(cur)
  <2>1. LegName[Kind[u.content]] \in Name
    BY <1>2, ExpansionAssumption DEF HasLeg
  <2>2. u.path \in Seq(Name)
    BY <1>3 DEF Tree
  <2>3. LegPath(u.path, u.content) \in Seq(Name)
    BY <2>1, <2>2 DEF LegPath
  <2>4. key \in Seq(Name)
    BY <2>3, KeysArePaths
  <2>5. leg \in Task(cur)
    BY <1>2, <1>3 DEF Task
  <2> QED BY <2>4, <2>5
<1>8. /\ claim' \in Claim \cup {None} /\ (claim # None <=> claim' # None)
      /\ claim # None => claim'.prefix = claim.prefix /\ claim'.emitted = claim.emitted
  <2>1. CASE claims
    <3>1. claim \in Claim /\ claim' = [claim EXCEPT !.claimed = @ \cup {key}]
      BY <1>1, <1>2, <2>1, TaskAt
    <3> HIDE DEF key
    <3>2. claim' \in Claim /\ claim'.prefix = claim.prefix /\ claim'.emitted = claim.emitted
      BY <1>7, <3>1 DEF Claim
    <3> QED BY <2>1, <3>2, ExpansionAssumption
  <2>2. CASE ~claims
    BY <1>2, <2>2 DEF IInv, TypeOK
  <2> QED BY <2>1, <2>2
<1>9. Books
  BY <1>2, <1>4, <1>8 DEF Books, book, IInv, TypeOK
<1>10. CASE Loaded(u) /\ ~collides
  <2>1. agenda' = <<leg>> \o Rest
    BY <1>2, <1>10
  <2>2. CASE claim # None
    BY <1>1, <1>5, <1>6, <1>7, <1>8, <1>9, <2>1, <2>2, Dispatching
  <2>3. CASE claim = None
    <3>1. agenda' = <<leg>> /\ leg.op = "leg" /\ leg.path = cur /\ claim' = None
      BY <1>1, <1>3, <1>8, <2>1, <2>3, TaskAt
    <3> HIDE DEF leg
    <3>2. Formed(<<leg>>, FALSE, cur)
      BY <1>7, <3>1, FormedAlone
    <3>3. agenda' # <<>> /\ Head(agenda') = leg
      BY <3>1
    <3>4. Plans
      BY <3>1, <3>2, <3>3 DEF Plans
    <3>5. Covers
      BY <1>6, <2>3, <3>1, <3>3 DEF Covers
    <3> QED BY <1>5, <1>9, <3>4, <3>5, Worked
  <2> QED BY <2>2, <2>3
<1>11. CASE ~(Loaded(u) /\ ~collides)
  <2>1. agenda' = Rest
    BY <1>2, <1>11
  <2>2. ASSUME claim = None PROVE Unbound(cur)'
    <3>1. CASE ~Loaded(u)
      BY <1>3, <1>4, <1>5, <2>2, <3>1, UnboundNow DEF Works, Bearing
    <3>2. CASE Loaded(u)
      <4>1. Occupied(cur) /\ u.path = cur
        BY <1>3, <1>11, <2>2, <3>2
      <4>2. EverOccupied(cur)
        BY <4>1 DEF Occupied, EverOccupied, IInv, TypeOK
      <4>3. source[cur] = u.content \/ cur \in moved
        BY <1>1, <2>2 DEF IInv, AgendaInv, AtTask
      <4>4. ASSUME NEW rec PROVE ~Binding(cur, rec)'
        <5>1. EverOccupied(cur)'
          BY <1>5, <4>2 DEF Works, EverOccupied
        <5>2. HasLeg(source[cur]) \/ cur \in moved
          BY <1>2, <4>3
        <5> QED BY <1>5, <5>1, <5>2 DEF Works, Binding, HasLeg, HasChildren, EverOccupied
      <4>5. Holds(cur)'
        BY <1>3, <1>4, <1>5, <2>2, ExpansionAssumption DEF Holds, Emits, Works
      <4>6. ~Binding(cur, held.record)'
        BY <4>4 DEF Binding
      <4> QED BY <4>5, <4>6 DEF Unbound
    <3> QED BY <3>1, <3>2
  <2>3. claim' # None => claim'.prefix = claim.prefix /\ \A q \in claim'.emitted : Kept(q)
    BY <1>1, <1>8, TaskAt
  <2> QED BY <1>1, <1>5, <1>6, <1>8, <1>9, <2>1, <2>2, <2>3, Done
<1> QED BY <1>10, <1>11

LEMMA LegKeeps ==
  ASSUME IInv, Leg
  PROVE  IInv'
<1> DEFINE t == Head(agenda)
           child == LegPath(t.path, t.content)
<1>1. AtTask /\ t.op = "leg"
  BY DEF Leg, Doing, AtTask
<1>2. /\ \/ Write(child, "text", t.content)
         \/ Refuse(child, "failed", t.content)
         \/ UNCHANGED <<mirror, held>>
      /\ used' = used \/ Disturb("provider")
      /\ claim' = IF claim = None THEN NewClaim(t.path) ELSE claim
      /\ agenda' = IF claim = None THEN <<[op |-> "reconcile"]>> \o Rest ELSE Rest
      /\ UNCHANGED <<source, terminal, run, dedup, expanded, visited, moved, killed>>
  BY DEF Leg, Fails
<1>3. /\ t.path \in Tree(cur) /\ t.content \in Content /\ HasLeg(t.content)
      /\ claim = None => t.path = cur
  BY <1>1, TaskAt, TaskIs
<1>4. child \in Tree(cur)
  <2>1. LegName[Kind[t.content]] \in Name
    BY <1>3, ExpansionAssumption DEF HasLeg
  <2>2. child \in Below(cur)
    BY <1>1, <1>3, <2>1, TaskAt, DeeperByOne DEF LegPath
  <2> QED BY <2>2 DEF Below, Tree
<1>5. Emits \/ UNCHANGED <<mirror, held>>
  <2>1. "text" \in Status /\ "failed" \in Status \ Bearing
    BY DEF Status, Bearing
  <2> HIDE DEF child
  <2>2. Write(child, "text", t.content) => Emits
    BY <1>1, <1>3, <1>4, <2>1, TaskAt, Writing
  <2>3. Refuse(child, "failed", t.content) => Emits
    BY <1>1, <1>3, <1>4, <2>1, TaskAt, Refusing
  <2> QED BY <1>2, <2>2, <2>3
<1>6. Works
  BY <1>1, <1>2, <1>5, TaskAt DEF Works, AtTask, run
<1>7. used' \in 0..MaxDisturbances
  <2>1. used \in 0..MaxDisturbances /\ MaxDisturbances \in Nat
    BY ExpansionAssumption DEF IInv, TypeOK
  <2> QED BY <1>2, <2>1 DEF Disturb
<1>8. \A q : Kept(q) => Kept(q)'
  BY <1>6, Emission
<1>9. Kept(cur)' \/ (claim # None /\ Due(Rest, cur))
  <2>1. cur' = cur
    BY <1>6 DEF Works
  <2> QED BY <1>1, <1>8, <2>1, RootStays
<1>10. CASE claim = None
  <2>1. claim' = NewClaim(cur) /\ agenda' = <<[op |-> "reconcile"]>> \o Rest
    BY <1>2, <1>3, <1>10
  <2>2. claim' \in Claim \cup {None}
    BY <1>1, <2>1, TaskAt, NewClaimIs
  <2>3. Books
    BY <1>2, <1>7, <2>2 DEF Books, IInv, TypeOK
  <2> QED BY <1>1, <1>6, <1>9, <1>10, <2>1, <2>3, Claiming
<1>11. CASE claim # None
  <2>1. claim' = claim /\ agenda' = Rest
    BY <1>2, <1>11
  <2>2. Books
    BY <1>2, <1>7, <2>1 DEF Books, IInv, TypeOK
  <2> QED BY <1>1, <1>6, <1>9, <1>11, <2>1, <2>2, TaskAt, Done
<1> QED BY <1>10, <1>11

LEMMA OpenKeeps ==
  ASSUME IInv, Open
  PROVE  IInv'
<1> DEFINE u == Head(agenda)
           after == IF claim = None THEN <<[op |-> "reconcile"]>> \o Rest ELSE Rest
<1>1. AtTask /\ u.op = "unit"
  BY DEF Open, Doing, AtTask
<1>2. /\ claim' = IF claim = None THEN NewClaim(u.path) ELSE claim
      /\ \/ Refuse(u.path, "failed", u.content) /\ agenda' = after
         \/ agenda' = Tasks(u) \o after /\ UNCHANGED <<mirror, held>>
      /\ UNCHANGED <<source, terminal, run, dedup, expanded, book>>
  BY DEF Open, Fails
<1>3. /\ u.path \in Tree(cur) /\ u.content \in Content /\ (claim = None => u.path = cur)
      /\ u \in Task(cur) /\ cur \in Seq(Name)
  BY <1>1, UnitIs, TaskAt
<1>4. /\ claim' \in Claim \cup {None} /\ claim' # None
      /\ claim'.prefix = cur /\ \A q \in claim'.emitted : Kept(q)
  <2>1. CASE claim = None
    BY <1>2, <1>3, <2>1, NewClaimIs
  <2>2. CASE claim # None
    BY <1>1, <1>2, <2>2, TaskAt
  <2> QED BY <2>1, <2>2
<1>5. Books
  BY <1>2, <1>4 DEF Books, book, IInv, TypeOK
<1>6. Formed(after, TRUE, cur) /\ (claim # None => after = Rest)
  <2>1. CASE claim = None
    <3>1. after = <<[op |-> "reconcile"]>>
      BY <1>1, <2>1, TaskAt
    <3> QED BY <2>1, <3>1, FormedAlone
  <2>2. CASE claim # None
    BY <1>1, <2>2, TaskAt
  <2> QED BY <2>1, <2>2
<1> HIDE DEF after, u
<1>7. CASE Refuse(u.path, "failed", u.content) /\ agenda' = after
  <2>1. Emits /\ held'.path = u.path
    BY <1>1, <1>3, <1>7, TaskAt, Refusing DEF Status, Bearing
  <2>2. Works
    BY <1>1, <1>2, <2>1, TaskAt DEF Works, AtTask, run, book
  <2>3. Kept(cur)' \/ (claim # None /\ Due(Rest, cur))
    BY <1>1, <2>1, <2>2, UnitIs DEF u
  <2>4. after # <<>> /\ Head(after).op # "retire"
    BY <1>6, OwnedIs
  <2>5. Plans
    BY <1>4, <1>6, <1>7 DEF Plans
  <2>6. Covers
    BY <1>4, <1>6, <1>7, <2>3, <2>4 DEF Covers
  <2> QED BY <1>5, <2>2, <2>5, <2>6, Worked
<1>8. CASE agenda' = Tasks(u) \o after /\ UNCHANGED <<mirror, held>>
  <2>1. Works
    BY <1>1, <1>2, <1>8, TaskAt DEF Works, AtTask, run, book
  <2>2. /\ Formed(agenda', TRUE, cur) /\ agenda' # <<>> /\ Due(agenda', u.path)
        /\ \A p : Due(after, p) => Due(agenda', p)
    BY <1>1, <1>3, <1>6, <1>8, TasksPushed DEF u
  <2>3. Head(agenda').op # "retire"
    BY <2>2, OwnedIs
  <2>4. Kept(cur)' \/ Due(agenda', cur)
    <3>1. cur' = cur /\ (Kept(cur) => Kept(cur)')
      BY <2>1, Emission DEF Works
    <3> QED BY <1>1, <1>6, <2>2, <3>1, RootStays DEF u
  <2>5. Plans
    BY <1>4, <2>2 DEF Plans
  <2>6. Covers
    BY <1>4, <2>2, <2>3, <2>4 DEF Covers
  <2> QED BY <1>5, <2>1, <2>5, <2>6, Worked
<1> QED BY <1>2, <1>7, <1>8

\* A member belongs to a claimed entry.
LEMMA MemberIs ==
  ASSUME IInv, AtTask, Head(agenda).op = "member"
  PROVE  /\ Head(agenda).path \in Tree(cur) /\ ChildPath(Head(agenda)) \in Tree(cur)
         /\ Head(agenda).depth \in Nat /\ Head(agenda).chain \in SUBSET Content
         /\ Head(agenda).member.content \in Content \cup {Refused}
         /\ claim # None /\ claim \in Claim /\ claim.prefix = cur
         /\ Formed(agenda, TRUE, cur) /\ Formed(Rest, TRUE, cur) /\ Rest # <<>>
         /\ \A q \in claim.emitted : Kept(q)
         /\ Works => Kept(cur)' \/ (Due(Rest, cur) /\ Due(agenda, cur))
<1> DEFINE t == Head(agenda)
<1>1. /\ claim # None /\ claim \in Claim /\ claim.prefix = cur
      /\ Formed(agenda, TRUE, cur) /\ Formed(Rest, TRUE, cur) /\ Rest # <<>>
      /\ \A q \in claim.emitted : Kept(q)
  BY TaskAt
<1>2. /\ t.path \in Tree(cur) /\ t.member.name \in Seq(Name) \ {<<>>}
      /\ t.depth \in Nat /\ t.chain \in SUBSET Content
      /\ t.member.content \in Content \cup {Refused}
  BY TaskAt, TaskIs
<1>3. ChildPath(t) \in Tree(cur)
  <2>1. ChildPath(t) \in Below(cur)
    BY <1>2, TaskAt, Deeper DEF ChildPath
  <2> QED BY <2>1 DEF Below, Tree
<1>4. ASSUME Works PROVE Kept(cur)' \/ (Due(Rest, cur) /\ Due(agenda, cur))
  <2>1. cur' = cur /\ (Kept(cur) => Kept(cur)') /\ cur # None
    BY <1>4, Emission DEF Works, IInv, OrderInv, AtTask
  <2>2. Kept(cur) \/ Due(agenda, cur)
    BY <2>1 DEF IInv, RootInv
  <2>3. Kept(cur) \/ Due(Rest, cur)
    BY RootStays
  <2> QED BY <2>1, <2>2, <2>3
<1> QED BY <1>1, <1>2, <1>3, <1>4

LEMMA MemberRefusedKeeps ==
  ASSUME IInv, MemberRefused
  PROVE  IInv'
<1> DEFINE t == Head(agenda)
           child == ChildPath(t)
<1>1. AtTask /\ t.op = "member"
  BY DEF MemberRefused, Doing, AtTask
<1>2. /\ Refuse(child, "failed", None) /\ agenda' = Rest
      /\ UNCHANGED <<source, terminal, run, dedup, claim, expanded, book>>
  BY DEF MemberRefused, Fails
<1>3. child \in Tree(cur) /\ claim # None /\ \A q \in claim.emitted : Kept(q)
  BY <1>1, MemberIs
<1> HIDE DEF child
<1>4. Emits
  BY <1>1, <1>2, <1>3, TaskAt, Refusing DEF Status, Bearing
<1>5. Works /\ Books
  BY <1>1, <1>2, <1>4, TaskAt DEF Works, Books, AtTask, run, book, IInv, TypeOK
<1>6. Kept(cur)' \/ (claim # None /\ Due(Rest, cur))
  BY <1>1, <1>3, <1>5, MemberIs
<1> QED BY <1>1, <1>2, <1>3, <1>5, <1>6, Done

LEMMA MemberOverrunsKeeps ==
  ASSUME IInv, MemberOverruns
  PROVE  IInv'
<1> DEFINE t == Head(agenda)
           child == ChildPath(t)
<1>1. AtTask /\ t.op = "member"
  BY DEF MemberOverruns, Doing, AtTask
<1>2. /\ Refuse(child, "failed", None) \/ UNCHANGED <<mirror, held>>
      /\ expanded' = expanded + Cap + 1
      /\ agenda' = Capped \/ agenda' = Rest
      /\ UNCHANGED <<source, terminal, run, dedup, claim, book>>
  BY DEF MemberOverruns, Fails
<1>3. /\ child \in Tree(cur) /\ claim # None /\ claim.prefix = cur
      /\ Formed(agenda, TRUE, cur) /\ \A q \in claim.emitted : Kept(q)
  BY <1>1, MemberIs
<1> HIDE DEF child
<1>4. Emits \/ UNCHANGED <<mirror, held>>
  BY <1>1, <1>2, <1>3, TaskAt, Refusing DEF Status, Bearing
<1>5. Works
  BY <1>1, <1>2, <1>4, TaskAt DEF Works, AtTask, run, book
<1>6. Books
  <2>1. expanded \in Nat /\ MaxMember \in Nat /\ MaxExpanded \in Nat
    BY ExpansionAssumption DEF IInv, TypeOK
  <2>2. Cap \in Nat
    BY <2>1 DEF Cap
  <2>3. expanded' \in Nat
    BY <1>2, <2>1, <2>2
  <2> QED BY <1>2, <2>3 DEF Books, book, IInv, TypeOK
<1>7. Kept(cur)' \/ (Due(Rest, cur) /\ Due(agenda, cur))
  BY <1>1, <1>5, MemberIs
<1>8. CASE agenda' = Rest
  BY <1>1, <1>2, <1>3, <1>5, <1>6, <1>7, <1>8, Done
<1>9. CASE agenda' = Capped
  <2>1. /\ Formed(agenda', TRUE, cur) /\ agenda' # <<>> /\ Head(agenda').op = "close"
        /\ Due(agenda, cur) => Due(agenda', cur)
    BY <1>1, <1>3, <1>9, CappedIs
  <2>2. Plans
    BY <1>2, <1>3, <2>1 DEF Plans
  <2>3. Covers
    BY <1>2, <1>3, <1>7, <2>1 DEF Covers
  <2> QED BY <1>5, <1>6, <2>2, <2>3, Worked
<1> QED BY <1>2, <1>8, <1>9

LEMMA MemberKeeps ==
  ASSUME IInv, Member
  PROVE  IInv'
<1> DEFINE t == Head(agenda)
           child == ChildPath(t)
           key == KeyOf(child)
           n == claim.collisions + 1
           unit == [op |-> "unit", path |-> child, content |-> t.member.content,
                    depth |-> t.depth, chain |-> t.chain]
<1>1. AtTask /\ t.op = "member"
  BY DEF Member, Doing, AtTask
<1>2. /\ Inflates(t)
      /\ expanded' = expanded + Size[t.member.content]
      /\ \/ /\ n \in DOMAIN CollisionName
            /\ claim' = [claim EXCEPT !.collisions = n]
            /\ Refuse(Append(t.path, CollisionName[n]), "failed", None)
            /\ agenda' = Rest
         \/ /\ claim' = [claim EXCEPT !.claimed = @ \cup {key}]
            /\ agenda' = <<unit>> \o Rest
            /\ UNCHANGED <<mirror, held>>
      /\ UNCHANGED <<source, terminal, run, dedup, book>>
  BY DEF Member, Fails
<1>3. /\ t.path \in Tree(cur) /\ child \in Tree(cur) /\ t.depth \in Nat /\ t.chain \in SUBSET Content
      /\ t.member.content \in Content \cup {Refused}
      /\ claim # None /\ claim \in Claim /\ \A q \in claim.emitted : Kept(q)
  BY <1>1, MemberIs
<1>4. t.member.content \in Content
  BY <1>2, <1>3 DEF Inflates
<1>5. key \in Seq(Name) /\ unit \in Task(cur) /\ unit.op = "unit"
  <2> HIDE DEF child
  <2>1. key \in Seq(Name)
    BY <1>3, KeysArePaths DEF Tree
  <2>2. unit \in Task(cur)
    BY <1>3, <1>4 DEF Task
  <2> QED BY <2>1, <2>2
<1>6. expanded' \in Nat
  <2>1. expanded \in Nat /\ Size[t.member.content] \in Nat
    BY <1>4, ExpansionAssumption DEF IInv, TypeOK
  <2> QED BY <1>2, <2>1
<1> HIDE DEF t, child, key, n, unit
<1>7. CASE /\ n \in DOMAIN CollisionName
           /\ claim' = [claim EXCEPT !.collisions = n]
           /\ Refuse(Append(t.path, CollisionName[n]), "failed", None)
           /\ agenda' = Rest
  <2>1. n \in 0..Len(CollisionName) /\ CollisionName[n] \in Name
    <3>1. CollisionName \in Seq(Name) /\ DOMAIN CollisionName = 1..Len(CollisionName)
      BY ExpansionAssumption, LenProperties
    <3> QED BY <1>7, <3>1, ElementOfSeq
  <2>2. claim' \in Claim /\ claim'.prefix = claim.prefix /\ claim'.emitted = claim.emitted
    BY <1>3, <1>7, <2>1 DEF Claim
  <2>3. claim' # None
    BY <2>2, ExpansionAssumption
  <2>4. Append(t.path, CollisionName[n]) \in Tree(cur)
    <3>1. Append(t.path, CollisionName[n]) \in Below(cur)
      BY <1>1, <1>3, <2>1, TaskAt, DeeperByOne
    <3> QED BY <3>1 DEF Below, Tree
  <2>5. Emits
    BY <1>1, <1>7, <2>4, TaskAt, Refusing DEF Status, Bearing
  <2>6. Works
    BY <1>1, <1>2, <2>5, TaskAt DEF Works, AtTask, run, book
  <2>7. Books
    BY <1>2, <1>6, <2>2 DEF Books, book, IInv, TypeOK
  <2>8. Kept(cur)' \/ (claim # None /\ Due(Rest, cur))
    BY <1>1, <1>3, <2>6, MemberIs DEF t
  <2> QED BY <1>1, <1>3, <1>7, <2>2, <2>3, <2>6, <2>7, <2>8, Done DEF t
<1>8. CASE /\ claim' = [claim EXCEPT !.claimed = @ \cup {key}]
           /\ agenda' = <<unit>> \o Rest
           /\ UNCHANGED <<mirror, held>>
  <2>1. claim' \in Claim /\ claim'.prefix = claim.prefix /\ claim'.emitted = claim.emitted
    BY <1>3, <1>5, <1>8 DEF Claim
  <2>2. claim' # None
    BY <2>1, ExpansionAssumption
  <2>3. Works
    BY <1>1, <1>2, <1>8, TaskAt DEF Works, AtTask, run, book
  <2>4. Books
    BY <1>2, <1>6, <2>1 DEF Books, book, IInv, TypeOK
  <2>5. Kept(cur)' \/ Due(Rest, cur)
    BY <1>1, <2>3, MemberIs DEF t
  <2> QED BY <1>1, <1>3, <1>5, <1>8, <2>1, <2>2, <2>3, <2>4, <2>5, Dispatching DEF t
<1> QED BY <1>2, <1>7, <1>8

LEMMA CloseKeeps ==
  ASSUME IInv, Close
  PROVE  IInv'
<1> DEFINE t == Head(agenda)
<1>1. AtTask /\ t.op = "close"
  BY DEF Close, Doing, AtTask
<1>2. /\ Refuse(t.path, "capped", t.content) \/ Write(t.path, "text", t.content)
      /\ agenda' = Rest
      /\ UNCHANGED <<source, terminal, run, dedup, claim, expanded, book>>
  BY DEF Close
<1>3. /\ t.path \in Tree(cur) /\ t.content \in Content
      /\ claim # None /\ \A q \in claim.emitted : Kept(q)
  BY <1>1, TaskAt, TaskIs
<1>4. Emits /\ held'.path = t.path
  <2>1. "text" \in Status /\ "capped" \in Status \ Bearing
    BY DEF Status, Bearing
  <2>2. CASE Refuse(t.path, "capped", t.content)
    BY <1>1, <1>3, <2>1, <2>2, TaskAt, Refusing
  <2>3. CASE Write(t.path, "text", t.content)
    BY <1>1, <1>3, <2>1, <2>3, TaskAt, Writing
  <2> QED BY <1>2, <2>2, <2>3
<1>5. Works /\ Books
  BY <1>1, <1>2, <1>4, TaskAt DEF Works, Books, AtTask, run, book, IInv, TypeOK
<1>6. Kept(cur)' \/ (claim # None /\ Due(Rest, cur))
  <2>1. cur' = cur /\ (Kept(cur) => Kept(cur)')
    BY <1>5, Emission DEF Works
  <2>2. t.path = cur => Kept(cur)'
    BY <1>4, <1>5, <2>1, Emission
  <2> QED BY <1>1, <2>1, <2>2, RootStays
<1> QED BY <1>1, <1>2, <1>3, <1>5, <1>6, Done

LEMMA ReconcileKeeps ==
  ASSUME IInv, Reconcile
  PROVE  IInv'
<1> DEFINE retire == [op |-> "retire", left |-> Stale]
<1>1. AtTask /\ Head(agenda).op = "reconcile"
  BY DEF Reconcile, Doing, AtTask
<1>2. /\ claim' = None
      /\ agenda' = IF Stale = {} THEN Rest ELSE <<retire>> \o Rest
      /\ UNCHANGED <<disk, run, dedup, expanded, held, book>>
  BY DEF Reconcile
<1>3. /\ claim # None /\ claim.prefix = cur /\ Formed(agenda, TRUE, cur)
      /\ \A q \in claim.emitted : Kept(q)
  BY <1>1, TaskAt
<1>4. Rest = <<>>
  <2>1. /\ Head(agenda) = agenda[1] /\ 1 \in DOMAIN agenda /\ Len(agenda) \in Nat
        /\ Rest \in Seq(Task(cur)) /\ Len(Rest) = Len(agenda) - 1
    BY <1>1, <1>3, FirstOf DEF AtTask, Rest
  <2>2. Len(agenda) = 1
    BY <1>1, <1>3, <2>1 DEF Formed
  <2>3. Len(Rest) = 0
    BY <2>1, <2>2
  <2>4. \A s \in Seq(Task(cur)) : s # <<>> => Len(s) # 0
    BY EmptySeq
  <2> QED BY <2>1, <2>3, <2>4, Zenon
<1>5. Stale \in SUBSET Below(cur)
  BY <1>1, <1>3, TaskAt DEF Stale, Below
<1>6. retire \in Task(cur) /\ retire.op = "retire" /\ retire.left = Stale
  BY <1>5 DEF Task
<1> HIDE DEF retire
<1>7. Works /\ Books
  BY <1>1, <1>2, TaskAt DEF Works, Books, AtTask, disk, run, book, IInv, TypeOK
<1>8. agenda' = IF Stale = {} THEN <<>> ELSE <<retire>>
  BY <1>2, <1>4
<1>9. Plans
  <2>1. Formed(<<>>, FALSE, cur) /\ Formed(<<retire>>, FALSE, cur)
    BY <1>6, FormedAlone
  <2>2. Head(<<retire>>) = retire
    OBVIOUS
  <2> QED BY <1>2, <1>6, <1>8, <2>1, <2>2 DEF Plans
<1>10. ASSUME NEW q \in DOMAIN terminal, Under(cur, q)
       PROVE  Kept(q)' \/ q \in Stale
  <2>1. CASE q \in claim.emitted
    BY <1>3, <1>7, <2>1, Emission
  <2>2. CASE terminal[q].status = "removed"
    <3>1. Kept(q)
      BY <2>2 DEF Kept, Whole, Live, Bearing
    <3> QED BY <1>7, <3>1, Emission
  <2> QED BY <1>3, <1>10, <2>1, <2>2 DEF Stale
<1>11. Kept(cur)'
  <2>1. cur' = cur /\ (Kept(cur) => Kept(cur)')
    BY <1>7, Emission DEF Works
  <2>2. ~Due(Rest, cur)
    BY <1>4 DEF Due
  <2> QED BY <1>1, <2>1, <2>2, RootStays
<1>12. Covers
  <2>1. Head(<<retire>>) = retire /\ <<retire>> # <<>>
    OBVIOUS
  <2> QED BY <1>2, <1>6, <1>8, <1>10, <1>11, <2>1 DEF Covers
<1> QED BY <1>7, <1>9, <1>12, Worked

LEMMA RetireKeeps ==
  ASSUME IInv, Retire
  PROVE  IInv'
<1> DEFINE all == Head(agenda).left
<1>1. AtTask /\ Head(agenda).op = "retire"
  BY DEF Retire, Doing, AtTask
<1>2. PICK q \in all :
        /\ Refuse(q, "removed", None)
        /\ agenda' = LET left == all \ {q}
                     IN IF left = {} THEN Rest ELSE <<[op |-> "retire", left |-> left]>> \o Rest
  BY DEF Retire
<1> DEFINE left == all \ {q}
           retire == [op |-> "retire", left |-> left]
<1>3. UNCHANGED <<source, terminal, run, dedup, claim, expanded, book>>
  BY DEF Retire
<1>4. claim = None /\ Rest = <<>>
  <2>1. claim # None => Formed(agenda, TRUE, cur)
    BY <1>1, TaskAt
  <2>2. claim = None
    BY <1>1, <2>1, OwnedIs
  <2> QED BY <1>1, <2>2, TaskAt
<1>5. all \in SUBSET Below(cur) /\ q \in Tree(cur)
  <2>1. all \in SUBSET Below(cur)
    BY <1>1, TaskAt, TaskIs
  <2> QED BY <2>1 DEF Below, Tree
<1>6. \A p \in DOMAIN terminal : Under(cur, p) => Kept(p) \/ p \in all
  BY <1>1 DEF IInv, RetireInv, AtTask
<1> HIDE DEF all
<1>7. Emits /\ held'.path = q
  BY <1>1, <1>2, <1>5, TaskAt, Refusing DEF Status, Bearing
<1>8. Works /\ Books
  BY <1>1, <1>3, <1>7, TaskAt DEF Works, Books, AtTask, run, book, IInv, TypeOK
<1>9. agenda' = IF left = {} THEN <<>> ELSE <<retire>>
  BY <1>2, <1>4
<1>10. retire \in Task(cur) /\ retire.op = "retire" /\ retire.left = left
  BY <1>5 DEF Task
<1> HIDE DEF left, retire
<1>11. Plans
  <2>1. Formed(<<>>, FALSE, cur) /\ Formed(<<retire>>, FALSE, cur)
    BY <1>10, FormedAlone
  <2>2. Head(<<retire>>) = retire
    OBVIOUS
  <2> QED BY <1>3, <1>4, <1>9, <1>10, <2>1, <2>2 DEF Plans
<1>12. ASSUME NEW p \in DOMAIN terminal, Under(cur, p)
       PROVE  Kept(p)' \/ p \in left
  <2>1. CASE p = q
    BY <1>7, <1>8, <2>1, Emission
  <2>2. CASE p # q
    BY <1>6, <1>8, <1>12, <2>2, Emission DEF left
  <2> QED BY <2>1, <2>2
<1>13. Kept(cur)'
  <2>1. cur' = cur /\ (Kept(cur) => Kept(cur)')
    BY <1>8, Emission DEF Works
  <2> QED BY <1>1, <1>4, <2>1, RootStays
<1>14. Covers
  <2>1. Head(<<retire>>) = retire /\ <<retire>> # <<>>
    OBVIOUS
  <2> QED BY <1>3, <1>4, <1>9, <1>10, <1>12, <1>13, <2>1 DEF Covers
<1> QED BY <1>8, <1>11, <1>14, Worked

-----------------------------------------------------------------------------
(* The run *)

\* Without an entry nothing is in hand.
LEMMA IdleIs ==
  ASSUME IInv, cur = None
  PROVE  agenda = <<>> /\ held = None /\ claim = None
BY DEF IInv, OrderInv

\* An invariant of a state with no entry is about the completed ones alone.
LEMMA IdleKeeps ==
  ASSUME TypeOK', OrderInv', VisitedInv', cur' = None
  PROVE  IInv'
<1>1. agenda' = <<>> /\ held' = None /\ claim' = None
  BY DEF OrderInv
<1>2. Formed(<<>>, FALSE, None)
  BY FormedAlone
<1>3. AgendaInv'
  BY <1>1, <1>2 DEF AgendaInv
<1>4. HeldInv' /\ EmittedInv' /\ RetireInv' /\ RootInv' /\ CurInv'
  BY <1>1 DEF HeldInv, EmittedInv, RetireInv, RootInv, CurInv
<1> QED BY <1>3, <1>4 DEF IInv

LEMMA StartKeeps ==
  ASSUME IInv, Start
  PROVE  IInv'
<1>1. TypeOK /\ OrderInv /\ ~running
  BY DEF IInv, Start
<1>2. cur = None /\ agenda = <<>> /\ held = None /\ claim = None
  BY <1>1 DEF OrderInv
<1>3. Seeded \in [Content -> Seq(Name) \cup {None}]
  BY <1>1, SeededIs DEF TypeOK, OrderInv
<1>4. TypeOK'
  BY <1>1, <1>2, <1>3 DEF TypeOK, Start, disk
<1>5. OrderInv'
  BY <1>1, <1>2 DEF OrderInv, Start, disk
<1>6. VisitedInv' /\ cur' = None
  BY <1>2 DEF VisitedInv, Start
<1> QED BY <1>4, <1>5, <1>6, IdleKeeps

\* What holds of an entry once it is completed.
Settles(r) == /\ Whole(r)
              /\ r \in DOMAIN terminal /\ Binding(r, terminal[r]) =>
                   \A p \in DOMAIN terminal : Own(r, p) => Whole(p)

LEMMA Completing ==
  ASSUME IInv, Between
  PROVE  /\ claim = None
         /\ \A r \in Completed : /\ r \in Roots /\ Settles(r)
                                 /\ \A w \in queue : Place(r) < Place(w)
<1>1. TypeOK /\ AgendaInv /\ OrderInv /\ RootInv /\ CurInv /\ VisitedInv /\ held = None /\ agenda = <<>>
  BY DEF IInv, Between
<1>2. claim = None
  <2>1. claim # None => Formed(<<>>, TRUE, cur)
    BY <1>1 DEF AgendaInv
  <2> QED BY <2>1, OwnedIs
<1>3. \A q : Kept(q) => Whole(q)
  BY <1>1 DEF Kept, Holds
<1>4. ASSUME cur # None PROVE Settles(cur)
  <2>1. Whole(cur)
    <3>1. ~Due(agenda, cur)
      BY <1>1 DEF Due
    <3> QED BY <1>1, <1>3, <1>4, <3>1 DEF RootInv
  <2>2. Unbound(cur) \/ \A p \in DOMAIN terminal : Under(cur, p) => Kept(p)
    BY <1>1, <1>4 DEF CurInv
  <2> QED BY <1>1, <1>3, <2>1, <2>2 DEF Settles, Unbound, Holds, Own
<1>5. \A r \in visited : Settles(r)
  BY <1>1 DEF VisitedInv, Settles
<1> QED BY <1>1, <1>2, <1>4, <1>5 DEF Completed, TypeOK, OrderInv

LEMMA FinishKeeps ==
  ASSUME IInv, Finish
  PROVE  IInv'
<1>1. TypeOK /\ OrderInv /\ Between /\ queue = {} /\ agenda = <<>> /\ held = None /\ claim = None
  BY Completing DEF IInv, Finish, Between
<1>2. \A r \in Completed : r \in Roots /\ Settles(r)
  BY <1>1, Completing
<1>3. NoDedup \in [Content -> Seq(Name) \cup {None}]
  BY DEF NoDedup
<1>4. TypeOK'
  BY <1>1, <1>2, <1>3 DEF TypeOK, Finish, disk
<1>5. OrderInv'
  BY <1>1 DEF OrderInv, Finish, disk
<1>6. VisitedInv'
  BY <1>2 DEF VisitedInv, Settles, Finish, disk, Own, Whole, Live, Intact, Binding, EverOccupied,
              HasLeg, HasChildren
<1>7. cur' = None
  BY DEF Finish
<1> QED BY <1>4, <1>5, <1>6, <1>7, IdleKeeps

LEMMA TakeUpKeeps ==
  ASSUME IInv, TakeUp
  PROVE  IInv'
<1> DEFINE unit == [op |-> "unit", path |-> cur', content |-> source[cur'], depth |-> 0, chain |-> {}]
<1>1. TypeOK /\ OrderInv /\ Between /\ agenda = <<>> /\ held = None /\ claim = None
  BY Completing DEF IInv, TakeUp, Between
<1>2. /\ cur' \in queue /\ \A r \in queue : Place(cur') <= Place(r)
      /\ queue' = queue \ {cur'} /\ expanded' = 0 /\ visited' = Completed
      /\ moved' = {p \in moved : p # cur' /\ ~Under(cur', p)}
      /\ \/ Refuse(cur', "failed", None) /\ agenda' = agenda
         \/ Present(cur') /\ agenda' = <<unit>> /\ UNCHANGED <<mirror, held>>
      /\ UNCHANGED <<source, terminal, running, walked, dedup, claim, killed, used>>
      /\ running
  BY DEF TakeUp, Fails, Between
<1>3. cur' \in Roots /\ cur' \in Seq(Name) /\ cur' # None /\ cur' \in Tree(cur')
  BY <1>1, <1>2, PlaceIs, ExpansionAssumption DEF TypeOK, Tree
<1>4. /\ mirror' = mirror \/ mirror' = Restrict(mirror, DOMAIN mirror \ {cur'})
      /\ held' = None \/ held' = [path |-> cur', record |-> [status |-> "failed", hash |-> None]]
      /\ agenda' = <<>> => held' # None
  <2> DEFINE rec == [path |-> cur', record |-> [status |-> "failed", hash |-> None]]
  <2>1. rec \in Held
    BY <1>3 DEF Held, Record, Status
  <2>2. rec # None
    BY <2>1, ExpansionAssumption
  <2>3. Refuse(cur', "failed", None) =>
          mirror' = Restrict(mirror, DOMAIN mirror \ {cur'}) /\ held' = rec
    BY DEF Refuse
  <2>4. <<unit>> # <<>>
    OBVIOUS
  <2> HIDE DEF unit, rec
  <2>5. mirror' = mirror \/ mirror' = Restrict(mirror, DOMAIN mirror \ {cur'})
    BY <1>2, <2>3
  <2>6. held' = None \/ held' = rec
    BY <1>1, <1>2, <2>3
  <2>7. agenda' = <<>> => held' # None
    BY <1>2, <2>2, <2>3, <2>4
  <2> QED BY <2>5, <2>6, <2>7 DEF rec
<1>5. agenda' = <<>> \/ (agenda' = <<unit>> /\ unit \in Task(cur'))
  <2>1. Present(cur') => source[cur'] \in Content
    BY <1>1, <1>3 DEF Present, TypeOK
  <2>2. 0 \in Nat /\ {} \in SUBSET Content
    OBVIOUS
  <2>3. Present(cur') => unit \in Task(cur')
    BY <1>3, <2>1, <2>2 DEF Task
  <2> QED BY <1>1, <1>2, <2>3
<1>6. unit.op = "unit" /\ unit.path = cur' /\ unit.content = source[cur']
  OBVIOUS
<1> HIDE DEF unit
<1>7. \A q : q # cur' => /\ q \in DOMAIN mirror' <=> q \in DOMAIN mirror
                         /\ q \in DOMAIN mirror => mirror'[q] = mirror[q]
  BY <1>4 DEF Restrict
<1>8. AgendaInv'
  <2>1. Formed(<<>>, FALSE, cur')
    BY FormedAlone
  <2>2. unit \in Task(cur') => Formed(<<unit>>, FALSE, cur')
    BY <1>6, FormedAlone
  <2>3. Head(<<unit>>) = unit
    OBVIOUS
  <2>4. claim' = None /\ source' = source
    BY <1>1, <1>2
  <2> QED BY <1>5, <1>6, <2>1, <2>2, <2>3, <2>4 DEF AgendaInv
<1>9. TypeOK'
  <2>1. \A i \in DOMAIN agenda' :
          agenda'[i].op \in {"unit", "leg", "member", "close", "reconcile", "retire"}
    BY <1>5, <1>6
  <2>2. held' \in Held \cup {None}
    <3>1. [path |-> cur', record |-> [status |-> "failed", hash |-> None]] \in Held
      BY <1>3 DEF Held, Record, Status
    <3> QED BY <1>4, <3>1
  <2>3. \A p \in DOMAIN mirror' : p \in Seq(Name) /\ mirror'[p] \in Content
    BY <1>1, <1>4 DEF TypeOK, Restrict
  <2>4. visited' \subseteq Roots
    BY <1>1, <1>2, Completing
  <2>5. queue' \subseteq walked'
    BY <1>1, <1>2 DEF TypeOK
  <2> QED BY <1>1, <1>2, <1>3, <2>1, <2>2, <2>3, <2>4, <2>5 DEF TypeOK
<1>10. OrderInv'
  <2>1. \A r \in visited' : \A w \in queue : Place(r) < Place(w)
    BY <1>1, <1>2, Completing
  <2>2. ASSUME NEW w \in queue' PROVE Place(cur') < Place(w)
    <3>1. w \in queue /\ w # cur' /\ w \in Roots
      BY <1>1, <1>2 DEF TypeOK
    <3>2. Place(cur') \in Nat /\ Place(w) \in Nat /\ Place(cur') # Place(w)
      BY <1>3, <3>1, PlaceIs
    <3>3. Place(cur') <= Place(w)
      BY <1>2, <3>1
    <3> QED BY <3>2, <3>3
  <2>3. IsFiniteSet(DOMAIN terminal)'
    BY <1>1, <1>2 DEF OrderInv
  <2> QED BY <1>2, <1>3, <2>1, <2>2, <2>3 DEF OrderInv
<1>11. HeldInv'
  BY <1>3, <1>4 DEF HeldInv, Bearing
<1>12. EmittedInv' /\ RetireInv'
  BY <1>1, <1>2, <1>5, <1>6 DEF EmittedInv, RetireInv
<1>13. RootInv'
  <2>1. agenda' = <<>> => Holds(cur)'
    BY <1>4 DEF Holds
  <2>2. Head(<<unit>>) = unit /\ <<unit>> # <<>>
    OBVIOUS
  <2> QED BY <1>5, <1>6, <2>1, <2>2 DEF RootInv, Kept
<1>14. CurInv'
  <2> SUFFICES ASSUME agenda' = <<>> PROVE Unbound(cur)'
    BY DEF CurInv
  <2>1. Holds(cur)' /\ held'.record.status = "failed"
    BY <1>4 DEF Holds
  <2> QED BY <2>1 DEF Unbound, Binding, Bearing
<1>15. VisitedInv'
  <2> SUFFICES ASSUME NEW r \in visited'
               PROVE  /\ Whole(r)'
                      /\ (r \in DOMAIN terminal /\ Binding(r, terminal[r]))' =>
                           \A p \in DOMAIN terminal : Own(r, p) => Whole(p)'
    BY <1>2 DEF VisitedInv, Own
  <2>1. r \in Roots /\ Settles(r) /\ Place(r) < Place(cur')
    BY <1>1, <1>2, Completing
  <2>2. r \notin Tree(cur') /\ \A p \in Seq(Name) : Own(r, p) => p \notin Tree(cur')
    BY <1>3, <2>1, Apart
  <2>3. ASSUME NEW q \in Seq(Name), q \notin Tree(cur')
        PROVE  (Whole(q) => Whole(q)') /\ (q \in moved => q \in moved')
    <3>1. q # cur' /\ ~Under(cur', q)
      BY <1>3, <2>3 DEF Tree
    <3> QED BY <1>2, <1>7, <3>1 DEF Whole, Live, Intact
  <2>4. r \in Seq(Name)
    BY <2>1, PlaceIs
  <2>5. Whole(r)'
    BY <2>1, <2>2, <2>3, <2>4 DEF Settles
  <2>6. ASSUME (r \in DOMAIN terminal /\ Binding(r, terminal[r]))',
               NEW p \in DOMAIN terminal, Own(r, p)
        PROVE  Whole(p)'
    <3>1. r \in DOMAIN terminal /\ Binding(r, terminal[r])
      <4>1. r \notin moved
        BY <2>2, <2>3, <2>4, <2>6 DEF Binding
      <4> QED BY <1>2, <2>6, <4>1 DEF Binding, EverOccupied, HasLeg, HasChildren
    <3>2. Whole(p) /\ p \in Seq(Name)
      BY <1>1, <2>1, <2>6, <3>1 DEF Settles, TypeOK
    <3> QED BY <2>2, <2>3, <2>6, <3>2
  <2> QED BY <2>5, <2>6
<1> QED BY <1>8, <1>9, <1>10, <1>11, <1>12, <1>13, <1>14, <1>15 DEF IInv

\* A record that is appended replaces its path's: the path is whole then.
LEMMA AppendRecordKeeps ==
  ASSUME IInv, AppendRecord
  PROVE  IInv'
<1> DEFINE p == held.path
<1>1. /\ TypeOK /\ AgendaInv /\ OrderInv /\ HeldInv /\ EmittedInv /\ RetireInv /\ RootInv
      /\ CurInv /\ VisitedInv
  BY DEF IInv
<1>2. /\ held # None /\ held' = None /\ terminal' = With(terminal, p, held.record)
      /\ claim' = IF claim # None /\ Under(claim.prefix, p)
                  THEN [claim EXCEPT !.emitted = @ \cup {p}] ELSE claim
      /\ UNCHANGED <<source, mirror, running, queue, walked, cur, dedup, agenda, expanded,
                     visited, moved, killed, used>>
  BY DEF AppendRecord, run, book
<1>3. held \in Held /\ p \in Seq(Name) /\ held.record \in Record
  BY <1>1, <1>2 DEF TypeOK, Held
<1>4. cur # None /\ cur \in Roots /\ p \in Tree(cur)
  BY <1>1, <1>2 DEF TypeOK, OrderInv, HeldInv
<1>5. /\ DOMAIN terminal' = DOMAIN terminal \cup {p} /\ terminal'[p] = held.record
      /\ \A q \in DOMAIN terminal : q # p => terminal'[q] = terminal[q]
  BY <1>2 DEF With
<1>6. /\ claim' \in Claim \cup {None} /\ (claim # None <=> claim' # None)
      /\ claim # None => claim'.prefix = claim.prefix /\ claim'.emitted \subseteq claim.emitted \cup {p}
  <2>1. CASE claim # None /\ Under(claim.prefix, p)
    <3>1. claim \in Claim /\ claim' = [claim EXCEPT !.emitted = @ \cup {p}]
      BY <1>1, <1>2, <2>1 DEF TypeOK
    <3> HIDE DEF p
    <3>2. /\ claim' \in Claim /\ claim'.prefix = claim.prefix
          /\ claim'.emitted \subseteq claim.emitted \cup {p}
      BY <1>3, <3>1 DEF Claim
    <3> QED BY <2>1, <3>2, ExpansionAssumption
  <2>2. CASE ~(claim # None /\ Under(claim.prefix, p))
    BY <1>1, <1>2, <2>2 DEF TypeOK
  <2> QED BY <2>1, <2>2
<1>7. ASSUME NEW q, q = p PROVE Whole(q)'
  BY <1>1, <1>2, <1>5, <1>7 DEF HeldInv, Whole, Live, Intact
<1> HIDE DEF p
<1>8. ASSUME NEW q, q # p PROVE Whole(q) => Whole(q)'
  BY <1>2, <1>5, <1>8 DEF Whole, Live, Intact
<1>9. ASSUME NEW q PROVE Kept(q) => Whole(q)' /\ Kept(q)'
  <2>1. CASE q = p
    BY <1>7, <2>1 DEF Kept
  <2>2. CASE q # p
    BY <1>8, <2>2 DEF Kept, Holds, p
  <2> QED BY <2>1, <2>2
<1>10. AgendaInv'
  BY <1>1, <1>2, <1>6 DEF AgendaInv
<1>11. TypeOK'
  <2>1. \A q \in DOMAIN terminal' : q \in Seq(Name) /\ terminal'[q] \in Record
    BY <1>1, <1>3, <1>5 DEF TypeOK
  <2> QED BY <1>1, <1>2, <1>6, <2>1 DEF TypeOK
<1>12. OrderInv'
  <2>1. IsFiniteSet(DOMAIN terminal')
    BY <1>1, <1>5, FS_AddElement DEF OrderInv
  <2> QED BY <1>1, <1>2, <1>4, <2>1 DEF OrderInv
<1>13. HeldInv'
  BY <1>2 DEF HeldInv
<1>14. EmittedInv'
  BY <1>1, <1>6, <1>7, <1>9 DEF EmittedInv, Kept
<1>15. RetireInv'
  BY <1>1, <1>2, <1>5, <1>7, <1>9 DEF RetireInv, Kept
<1>16. RootInv'
  BY <1>1, <1>2, <1>9 DEF RootInv
<1>17. \A r, rec : Binding(r, rec)' => Binding(r, rec)
  BY <1>2, <1>5 DEF Binding, EverOccupied, HasLeg, HasChildren
<1>18. CurInv'
  <2> SUFFICES ASSUME agenda = <<>>
               PROVE  Unbound(cur)' \/ \A q \in DOMAIN terminal' : Under(cur, q) => Kept(q)'
    BY <1>2 DEF CurInv
  <2>1. CASE Unbound(cur)
    <3>1. cur \in DOMAIN terminal' => ~Binding(cur, terminal'[cur])
      <4>1. CASE cur = p
        BY <1>2, <1>5, <2>1, <4>1 DEF Unbound, Holds, p
      <4>2. CASE cur # p
        BY <1>2, <1>5, <2>1, <4>2 DEF Unbound, Holds, p
      <4> QED BY <4>1, <4>2
    <3>2. cur' \in DOMAIN terminal' => ~Binding(cur, terminal[cur])'
      BY <1>2, <1>5, <3>1 DEF Binding, EverOccupied, HasLeg, HasChildren
    <3>3. ~Holds(cur)'
      BY <1>2 DEF Holds
    <3> QED BY <3>2, <3>3 DEF Unbound
  <2>2. CASE \A q \in DOMAIN terminal : Under(cur, q) => Kept(q)
    BY <1>5, <1>7, <1>9, <2>2 DEF Kept
  <2> QED BY <1>1, <1>4, <2>1, <2>2 DEF CurInv
<1>19. VisitedInv'
  <2> SUFFICES ASSUME NEW r \in visited
               PROVE  /\ Whole(r)'
                      /\ (r \in DOMAIN terminal /\ Binding(r, terminal[r]))' =>
                           \A q \in DOMAIN terminal' : Own(r, q) => Whole(q)'
    BY <1>2 DEF VisitedInv, Own
  <2>1. r \in Roots /\ Place(r) < Place(cur)
    BY <1>1, <1>4 DEF TypeOK, OrderInv
  <2>2. r \notin Tree(cur) /\ \A q \in Seq(Name) : Own(r, q) => q \notin Tree(cur)
    BY <1>4, <2>1, Apart
  <2>3. Whole(r)'
    BY <1>1, <1>4, <1>8, <2>2 DEF VisitedInv
  <2>4. ASSUME (r \in DOMAIN terminal /\ Binding(r, terminal[r]))',
               NEW q \in DOMAIN terminal', Own(r, q)
        PROVE  Whole(q)'
    <3>1. r \in DOMAIN terminal /\ terminal'[r] = terminal[r]
      BY <1>4, <1>5, <2>2, <2>4
    <3>2. Binding(r, terminal[r])
      BY <1>2, <1>5, <2>4, <3>1 DEF Binding, EverOccupied, HasLeg, HasChildren
    <3>3. q # p
      BY <1>3, <1>4, <2>2, <2>4
    <3>4. q \in DOMAIN terminal
      BY <1>5, <3>3
    <3>5. Whole(q)
      BY <1>1, <2>4, <3>1, <3>2, <3>4 DEF VisitedInv
    <3> QED BY <1>8, <3>3, <3>5
  <2> QED BY <2>3, <2>4
<1> QED BY <1>10, <1>11, <1>12, <1>13, <1>14, <1>15, <1>16, <1>18, <1>19 DEF IInv

-----------------------------------------------------------------------------
(* The environment *)

LEMMA Disturbed ==
  ASSUME IInv, NEW kind, Disturb(kind)
  PROVE  used' \in 0..MaxDisturbances
<1>1. used \in 0..MaxDisturbances /\ MaxDisturbances \in Nat
  BY ExpansionAssumption DEF IInv, TypeOK
<1> QED BY <1>1 DEF Disturb

LEMMA KillKeeps ==
  ASSUME IInv, Kill
  PROVE  IInv'
<1>1. TypeOK /\ OrderInv /\ VisitedInv
  BY DEF IInv
<1>2. /\ running' = FALSE /\ queue' = {} /\ cur' = None
      /\ agenda' = <<>> /\ claim' = None /\ held' = None /\ dedup' = NoDedup
      /\ killed' \in {"expanding", "broken"}
      /\ UNCHANGED <<source, mirror, terminal, walked, expanded, visited, moved>>
  BY DEF Kill, disk
<1>3. NoDedup \in [Content -> Seq(Name) \cup {None}]
  BY DEF NoDedup
<1>4. used' \in 0..MaxDisturbances
  BY Disturbed DEF Kill
<1>5. TypeOK'
  <2>1. DOMAIN <<>> = {}
    OBVIOUS
  <2>2. \A i \in DOMAIN agenda' :
          agenda'[i].op \in {"unit", "leg", "member", "close", "reconcile", "retire"}
    BY <1>2, <2>1
  <2>3. running' \in BOOLEAN
    BY <1>2, Zenon
  <2>4. killed' \in {"never", "expanding", "broken"} /\ queue' \subseteq walked'
    BY <1>2
  <2> QED BY <1>1, <1>2, <1>3, <1>4, <2>2, <2>3, <2>4 DEF TypeOK
<1>6. OrderInv'
  BY <1>1, <1>2 DEF OrderInv
<1>7. VisitedInv'
  BY <1>1, <1>2 DEF VisitedInv, Own, Whole, Live, Intact, Binding, EverOccupied, HasLeg, HasChildren
<1> QED BY <1>2, <1>5, <1>6, <1>7, IdleKeeps

\* A failed append drops the record in hand, at a path that counts as moved,
\* and leaves the reconciliation.
LEMMA AppendFailsKeeps ==
  ASSUME IInv, AppendFails
  PROVE  IInv'
<1> DEFINE last == [op |-> "reconcile"]
<1>1. /\ TypeOK /\ AgendaInv /\ OrderInv /\ HeldInv /\ EmittedInv /\ CurInv /\ VisitedInv
  BY DEF IInv
<1>2. /\ held # None /\ claim # None
      /\ held' = None /\ agenda' = <<last>> /\ queue' = {} /\ killed' = "broken"
      /\ moved' = moved \cup {cur, held.path}
      /\ claim' = IF Under(claim.prefix, held.path)
                  THEN [claim EXCEPT !.emitted = @ \cup {held.path}] ELSE claim
      /\ UNCHANGED <<source, mirror, terminal, running, walked, cur, dedup, expanded, visited>>
  BY DEF AppendFails, disk
<1>3. cur # None /\ cur \in Roots /\ claim.prefix = cur
  BY <1>1, <1>2 DEF OrderInv, TypeOK, AgendaInv
<1>4. claim \in Claim /\ held \in Held
  BY <1>1, <1>2 DEF TypeOK
<1>5. /\ claim' \in Claim /\ claim'.prefix = cur /\ claim' # None
      /\ \A q \in claim'.emitted : q \in claim.emitted \/ q = held.path
  <2>1. held.path \in Seq(Name)
    BY <1>4 DEF Held
  <2>2. claim' \in Claim /\ claim'.prefix = cur
    BY <1>2, <1>3, <1>4, <2>1 DEF Claim
  <2>3. \A q \in claim'.emitted : q \in claim.emitted \/ q = held.path
    BY <1>2, <1>4 DEF Claim
  <2>4. None \notin Claim
    BY ExpansionAssumption DEF Claim
  <2> QED BY <2>2, <2>3, <2>4
<1>6. Len(<<last>>) = 1 /\ DOMAIN <<last>> = {1} /\ <<last>>[1] = last /\ <<last>> # <<>>
      /\ Head(<<last>>) = last
  OBVIOUS
<1>7. last.op = "reconcile"
  OBVIOUS
<1>8. Formed(<<last>>, TRUE, cur)
  BY FormedAlone
<1> HIDE DEF last
<1>9. TypeOK'
  <2>1. used' \in 0..MaxDisturbances
    BY Disturbed DEF AppendFails
  <2>2. \A i \in DOMAIN agenda' :
          agenda'[i].op \in {"unit", "leg", "member", "close", "reconcile", "retire"}
    BY <1>2, <1>6, <1>7
  <2>3. queue' \subseteq walked' /\ killed' \in {"never", "expanding", "broken"}
    BY <1>2
  <2> QED BY <1>1, <1>2, <1>5, <2>1, <2>2, <2>3 DEF TypeOK
<1>10. \A q : Whole(q) => Whole(q)'
  BY <1>2 DEF Whole, Live, Intact
<1>11. \A q : Kept(q) => Whole(q)'
  <2>1. ASSUME NEW q, Holds(q) PROVE Whole(q)'
    BY <1>2, <2>1 DEF Holds, Whole
  <2> QED BY <1>10, <2>1 DEF Kept
<1>12. AgendaInv'
  BY <1>2, <1>5, <1>8 DEF AgendaInv
<1>13. OrderInv'
  BY <1>1, <1>2, <1>3 DEF OrderInv
<1>14. HeldInv' /\ RetireInv' /\ CurInv'
  BY <1>2, <1>6, <1>7 DEF HeldInv, RetireInv, CurInv
<1>15. EmittedInv'
  <2>1. \A q \in claim'.emitted : Whole(q)'
    BY <1>1, <1>2, <1>5, <1>11 DEF EmittedInv, Whole
  <2> QED BY <2>1 DEF EmittedInv, Kept
<1>16. RootInv'
  BY <1>2 DEF RootInv, Kept, Whole
<1>17. VisitedInv'
  <2> SUFFICES ASSUME NEW r \in visited
               PROVE  /\ Whole(r)'
                      /\ (r \in DOMAIN terminal /\ Binding(r, terminal[r]))' =>
                           \A p \in DOMAIN terminal : Own(r, p) => Whole(p)'
    BY <1>2 DEF VisitedInv, Own
  <2>1. Binding(r, terminal[r])' => Binding(r, terminal[r])
    BY <1>2 DEF Binding, EverOccupied, HasLeg, HasChildren
  <2> QED BY <1>1, <1>2, <1>10, <2>1 DEF VisitedInv
<1> QED BY <1>9, <1>12, <1>13, <1>14, <1>15, <1>16, <1>17 DEF IInv

\* What is lost or edited is accounted for: a record is still over its
\* artifact or its path has moved.
LEMMA DisturbedKeeps ==
  ASSUME IInv, moved \subseteq moved', TypeOK',
         \A p : Whole(p) => Whole(p)',
         \A p \in DOMAIN mirror : p \in moved' \/ (p \in DOMAIN mirror' /\ mirror'[p] = mirror[p]),
         \A r \in Roots : r \notin moved' => source'[r] = source[r],
         UNCHANGED <<terminal, running, queue, walked, cur, dedup, agenda, claim, expanded, held,
                     visited>>
  PROVE  IInv'
<1>1. /\ TypeOK /\ AgendaInv /\ OrderInv /\ HeldInv /\ EmittedInv /\ RetireInv /\ RootInv
      /\ CurInv /\ VisitedInv
  BY DEF IInv
<1>2. \A q : Kept(q) => Kept(q)'
  BY DEF Kept, Holds
<1>3. ASSUME NEW r \in Roots, NEW rec, Binding(r, rec)' PROVE Binding(r, rec)
  BY <1>3 DEF Binding, EverOccupied, HasLeg, HasChildren
<1>4. cur # None => cur \in Roots
  BY <1>1 DEF TypeOK
<1>5. AgendaInv'
  <2>1. claim = None /\ agenda # <<>> => cur # None
    BY <1>1 DEF OrderInv
  <2> QED BY <1>1, <1>4, <2>1 DEF AgendaInv
<1>6. OrderInv'
  BY <1>1 DEF OrderInv
<1>7. HeldInv'
  BY <1>1 DEF HeldInv
<1>8. EmittedInv' /\ RetireInv' /\ RootInv'
  BY <1>1, <1>2 DEF EmittedInv, RetireInv, RootInv
<1>9. CurInv'
  <2> SUFFICES ASSUME cur # None, agenda = <<>>
               PROVE  Unbound(cur)' \/ \A p \in DOMAIN terminal : Under(cur, p) => Kept(p)'
    BY DEF CurInv
  <2>1. Unbound(cur) => Unbound(cur)'
    <3>1. \A rec : Binding(cur, rec)' => Binding(cur, rec)
      BY <1>4 DEF Binding, EverOccupied, HasLeg, HasChildren
    <3> QED BY <3>1, <1>4 DEF Unbound, Holds, Binding, EverOccupied, HasLeg, HasChildren
  <2> QED BY <1>1, <1>2, <2>1 DEF CurInv
<1>10. VisitedInv'
  <2> SUFFICES ASSUME NEW r \in visited
               PROVE  /\ Whole(r)'
                      /\ (r \in DOMAIN terminal /\ Binding(r, terminal[r]))' =>
                           \A p \in DOMAIN terminal : Own(r, p) => Whole(p)'
    BY DEF VisitedInv, Own
  <2>1. r \in Roots /\ Whole(r)'
    BY <1>1 DEF TypeOK, VisitedInv
  <2>2. Binding(r, terminal[r])' => Binding(r, terminal[r])
    BY <2>1 DEF Binding, EverOccupied, HasLeg, HasChildren
  <2> QED BY <1>1, <2>1, <2>2 DEF VisitedInv
<1> QED BY <1>5, <1>6, <1>7, <1>8, <1>9, <1>10 DEF IInv

LEMMA EditKeeps ==
  ASSUME IInv, Edit
  PROVE  IInv'
<1>1. PICK r \in Roots : \E c \in MayHold[r] \ {source[r]} :
        source' = [source EXCEPT ![r] = c] /\ moved' = moved \cup {r}
  BY DEF Edit
<1>2. PICK c \in MayHold[r] \ {source[r]} :
        source' = [source EXCEPT ![r] = c] /\ moved' = moved \cup {r}
  BY <1>1
<1>3. /\ UNCHANGED <<mirror, terminal, running, queue, walked, cur, dedup, agenda, claim, expanded,
                     held, visited, killed>>
      /\ used' \in 0..MaxDisturbances
  BY Disturbed DEF Edit, run
<1>4. TypeOK'
  <2>1. c \in Content \cup {Absent} /\ c \in MayHold[r]
    BY <1>2, ExpansionAssumption
  <2>2. source' \in [Roots -> Content \cup {Absent}] /\ \A w \in Roots : source'[w] \in MayHold[w]
    BY <1>2, <2>1 DEF IInv, TypeOK
  <2> QED BY <1>3, <2>2 DEF IInv, TypeOK
<1>5. \A p : Whole(p) => Whole(p)'
  BY <1>2, <1>3 DEF Whole, Live, Intact
<1>6. \A w \in Roots : w \notin moved' => source'[w] = source[w]
  BY <1>2 DEF IInv, TypeOK
<1>7. moved \subseteq moved'
  BY <1>2
<1> QED BY <1>3, <1>4, <1>5, <1>6, <1>7, DisturbedKeeps

LEMMA DamageKeeps ==
  ASSUME IInv, Damage
  PROVE  IInv'
<1>1. PICK p \in DOMAIN mirror :
        mirror' = Restrict(mirror, DOMAIN mirror \ {p}) /\ moved' = moved \cup {p}
  BY DEF Damage
<1>2. /\ UNCHANGED <<source, terminal, running, queue, walked, cur, dedup, agenda, claim, expanded,
                     held, visited, killed>>
      /\ used' \in 0..MaxDisturbances
  BY Disturbed DEF Damage, run
<1>3. /\ DOMAIN mirror' = DOMAIN mirror \ {p}
      /\ \A q \in DOMAIN mirror' : mirror'[q] = mirror[q]
  BY <1>1 DEF Restrict
<1>4. TypeOK'
  BY <1>2, <1>3 DEF IInv, TypeOK
<1>5. \A q : Whole(q) => Whole(q)'
  BY <1>1, <1>2, <1>3 DEF Whole, Live, Intact
<1>6. \A q \in DOMAIN mirror : q \in moved' \/ (q \in DOMAIN mirror' /\ mirror'[q] = mirror[q])
  BY <1>1, <1>3
<1>7. moved \subseteq moved' /\ \A w \in Roots : w \notin moved' => source'[w] = source[w]
  BY <1>1, <1>2
<1> QED BY <1>2, <1>4, <1>5, <1>6, <1>7, DisturbedKeeps

-----------------------------------------------------------------------------
(* The invariant *)

LEMMA IInvInit == Init => IInv
<1> SUFFICES ASSUME Init PROVE IInv
  OBVIOUS
<1>1. /\ source \in [Roots -> Content \cup {Absent}] /\ \A r \in Roots : source[r] \in MayHold[r]
      /\ mirror = <<>> /\ terminal = <<>>
      /\ running = FALSE /\ queue = {} /\ walked = {} /\ cur = None
      /\ dedup \in [Content -> Seq(Name) \cup {None}]
      /\ agenda = <<>> /\ claim = None /\ expanded = 0 /\ held = None
      /\ visited = {} /\ moved = {} /\ killed = "never" /\ used = 0
  BY DEF Init, NoDedup
<1>2. DOMAIN <<>> = {}
  OBVIOUS
<1>3. 0 \in 0..MaxDisturbances
  BY ExpansionAssumption
<1>4. TypeOK
  BY <1>1, <1>2, <1>3 DEF TypeOK
<1>5. OrderInv
  BY <1>1, <1>2, FS_EmptySet DEF OrderInv
<1>6. AgendaInv
  BY <1>1, FormedAlone DEF AgendaInv
<1>7. HeldInv /\ EmittedInv /\ RetireInv /\ RootInv /\ CurInv /\ VisitedInv
  BY <1>1 DEF HeldInv, EmittedInv, RetireInv, RootInv, CurInv, VisitedInv
<1> QED BY <1>4, <1>5, <1>6, <1>7 DEF IInv

LEMMA IInvStep == IInv /\ [Next]_vars => IInv'
<1> SUFFICES ASSUME IInv, [Next]_vars PROVE IInv'
  OBVIOUS
<1>1. CASE Run
  <2>1. CASE Start
    BY <2>1, StartKeeps
  <2>2. CASE TakeUp
    BY <2>2, TakeUpKeeps
  <2>3. CASE Finish
    BY <2>3, FinishKeeps
  <2>4. CASE AppendRecord
    BY <2>4, AppendRecordKeeps
  <2>5. CASE Skip
    BY <2>5, SkipKeeps
  <2>6. CASE GuardFails
    BY <2>6, GuardFailsKeeps
  <2>7. CASE Borrow
    BY <2>7, BorrowKeeps
  <2>8. CASE Leaf
    BY <2>8, LeafKeeps
  <2>9. CASE Primary
    BY <2>9, PrimaryKeeps
  <2>10. CASE Leg
    BY <2>10, LegKeeps
  <2>11. CASE Open
    BY <2>11, OpenKeeps
  <2>12. CASE MemberRefused
    BY <2>12, MemberRefusedKeeps
  <2>13. CASE MemberOverruns
    BY <2>13, MemberOverrunsKeeps
  <2>14. CASE Member
    BY <2>14, MemberKeeps
  <2>15. CASE Close
    BY <2>15, CloseKeeps
  <2>16. CASE Reconcile
    BY <2>16, ReconcileKeeps
  <2>17. CASE Retire
    BY <2>17, RetireKeeps
  <2> QED BY <1>1, <2>1, <2>2, <2>3, <2>4, <2>5, <2>6, <2>7, <2>8, <2>9, <2>10, <2>11, <2>12,
             <2>13, <2>14, <2>15, <2>16, <2>17 DEF Run
<1>2. CASE Kill
  BY <1>2, KillKeeps
<1>3. CASE Edit
  BY <1>3, EditKeeps
<1>4. CASE Damage
  BY <1>4, DamageKeeps
<1>5. CASE AppendFails
  BY <1>5, AppendFailsKeeps
<1>6. CASE UNCHANGED vars
  <2>1. UNCHANGED <<source, mirror, terminal, running, queue, walked, cur, dedup, agenda, claim,
                    expanded, held, visited, moved, killed, used>>
    BY <1>6 DEF vars, disk, run, book
  <2>2. TypeOK'
    BY <2>1 DEF IInv, TypeOK
  <2>3. \A p : Whole(p) => Whole(p)'
    BY <2>1 DEF Whole, Live, Intact
  <2> QED BY <2>1, <2>2, <2>3, DisturbedKeeps
<1> QED BY <1>1, <1>2, <1>3, <1>4, <1>5, <1>6 DEF Next

-----------------------------------------------------------------------------
(* Nesting *)

\* The contents of the containers that are open after the i-th task.
Outer(a, i) == {a[j].content : j \in {k \in 1..Len(a) : i < k /\ a[k].op = "close"}}

\* The i-th task lies in every container that is still open after it, and a
\* unit and a member carry the contents of these as their chain.
Fits(a, i) ==
  /\ a[i].op \in {"unit", "member"} => /\ a[i].chain = Outer(a, i)
                                       /\ a[i].depth = Cardinality(Outer(a, i))
  /\ a[i].op = "close" => Kind[a[i].content] = "container" /\ a[i].content \notin Outer(a, i)
  /\ \A j \in 1..Len(a) : i < j /\ a[j].op = "close" =>
       /\ a[i].op \in {"unit", "close"} => Under(a[j].path, a[i].path)
       /\ a[i].op = "member" => a[j].path = a[i].path \/ Under(a[j].path, a[i].path)

Nested(a) ==
  /\ \A i \in 1..Len(a) : Fits(a, i)
  /\ IsFiniteSet(Outer(a, 0)) /\ Cardinality(Outer(a, 0)) <= MaxDepth + 1

\* A live record of an open container's bytes is put in place by a skip alone.
HeldIsOld ==
  held # None /\ held.record.status \in Bearing /\ held.record.hash \in Outer(agenda, 0) =>
    held.path \in DOMAIN terminal /\ terminal[held.path] = held.record

NestInv == Nested(agenda) /\ HeldIsOld

\* Two agendas that end alike, the one after m tasks and the other after n.
EndAlike(a, m, b, n) ==
  /\ Len(a) \in Nat /\ Len(b) \in Nat /\ m \in 0..Len(a) /\ n \in 0..Len(b)
  /\ Len(a) - m = Len(b) - n
  /\ \A k \in 1..Len(a) - m : Same(a[m + k], b[n + k])

LEMMA SameIs ==
  ASSUME NEW s, NEW t, Same(s, t)
  PROVE  /\ s.op = t.op
         /\ s.op \in {"unit", "member"} => s = t
         /\ s.op = "close" => s.path = t.path /\ s.content = t.content
BY DEF Same

LEMMA OuterIsLast ==
  ASSUME NEW a, NEW b, NEW m, NEW n, EndAlike(a, m, b, n)
  PROVE  /\ Outer(a, m) = Outer(b, n)
         /\ \A k \in 1..Len(a) - m : Outer(a, m + k) = Outer(b, n + k)
<1>1. /\ Len(a) \in Nat /\ Len(b) \in Nat /\ m \in Nat /\ n \in Nat
      /\ m <= Len(a) /\ n <= Len(b) /\ Len(a) - m = Len(b) - n
  BY DEF EndAlike
<1>2. ASSUME NEW k \in 0..Len(a) - m PROVE Outer(a, m + k) = Outer(b, n + k)
  <2>1. ASSUME NEW j \in 1..Len(a), m + k < j, a[j].op = "close"
        PROVE  /\ n + (j - m) \in 1..Len(b) /\ n + k < n + (j - m)
               /\ b[n + (j - m)].op = "close" /\ b[n + (j - m)].content = a[j].content
    <3>1. j - m \in 1..Len(a) - m /\ m + (j - m) = j
      BY <1>1, <2>1
    <3>2. Same(a[j], b[n + (j - m)])
      BY <3>1 DEF EndAlike
    <3>3. n + (j - m) \in 1..Len(b) /\ n + k < n + (j - m)
      <4>1. j \in Nat /\ k \in Nat /\ 0 < j - m /\ j - m <= Len(b) - n /\ k < j - m
        BY <1>1, <2>1
      <4> QED BY <1>1, <4>1
    <3>4. a[j].op = b[n + (j - m)].op /\ (a[j].op = "close" => a[j].content = b[n + (j - m)].content)
      BY <3>2, SameIs, Zenon
    <3> QED BY <2>1, <3>3, <3>4, Zenon
  <2>2. ASSUME NEW j \in 1..Len(b), n + k < j, b[j].op = "close"
        PROVE  /\ m + (j - n) \in 1..Len(a) /\ m + k < m + (j - n)
               /\ a[m + (j - n)].op = "close" /\ a[m + (j - n)].content = b[j].content
    <3>1. j - n \in 1..Len(a) - m /\ n + (j - n) = j
      BY <1>1, <2>2
    <3>2. Same(a[m + (j - n)], b[j])
      BY <3>1 DEF EndAlike
    <3>3. m + (j - n) \in 1..Len(a) /\ m + k < m + (j - n)
      <4>1. j \in Nat /\ k \in Nat /\ 0 < j - n /\ j - n <= Len(a) - m /\ k < j - n
        BY <1>1, <2>2
      <4> QED BY <1>1, <4>1
    <3>4. /\ a[m + (j - n)].op = b[j].op
          /\ a[m + (j - n)].op = "close" => a[m + (j - n)].content = b[j].content
      BY <3>2, SameIs, Zenon
    <3> QED BY <2>2, <3>3, <3>4, Zenon
  <2>3. Outer(a, m + k) \subseteq Outer(b, n + k)
    <3> SUFFICES ASSUME NEW j \in 1..Len(a), m + k < j, a[j].op = "close"
                 PROVE  a[j].content \in Outer(b, n + k)
      BY DEF Outer
    <3> QED BY <2>1 DEF Outer
  <2>4. Outer(b, n + k) \subseteq Outer(a, m + k)
    <3> SUFFICES ASSUME NEW j \in 1..Len(b), n + k < j, b[j].op = "close"
                 PROVE  b[j].content \in Outer(a, m + k)
      BY DEF Outer
    <3> QED BY <2>2 DEF Outer
  <2> QED BY <2>3, <2>4
<1>3. Outer(a, m) = Outer(b, n)
  <2>1. 0 \in 0..Len(a) - m /\ m + 0 = m /\ n + 0 = n
    BY <1>1
  <2>2. Outer(a, m + 0) = Outer(b, n + 0)
    BY <1>2, <2>1
  <2> QED BY <2>1, <2>2
<1>4. \A k \in 1..Len(a) - m : k \in 0..Len(a) - m
  BY <1>1
<1> QED BY <1>2, <1>3, <1>4

LEMMA FitsIsLast ==
  ASSUME NEW a, NEW b, NEW m, NEW n, EndAlike(a, m, b, n)
  PROVE  \A k \in 1..Len(a) - m : Fits(a, m + k) => Fits(b, n + k)
<1> SUFFICES ASSUME NEW k \in 1..Len(a) - m, Fits(a, m + k) PROVE Fits(b, n + k)
  OBVIOUS
<1>1. Outer(a, m + k) = Outer(b, n + k) /\ Same(a[m + k], b[n + k])
  <2>1. Outer(a, m + k) = Outer(b, n + k)
    BY OuterIsLast
  <2>2. Same(a[m + k], b[n + k])
    BY DEF EndAlike
  <2> QED BY <2>1, <2>2
<1>2. ASSUME NEW j \in 1..Len(b), n + k < j, b[j].op = "close"
      PROVE  /\ m + (j - n) \in 1..Len(a) /\ m + k < m + (j - n)
             /\ a[m + (j - n)].op = "close" /\ a[m + (j - n)].path = b[j].path
  <2>1. /\ Len(a) \in Nat /\ Len(b) \in Nat /\ m \in Nat /\ n \in Nat
        /\ m <= Len(a) /\ n <= Len(b) /\ Len(a) - m = Len(b) - n
    BY DEF EndAlike
  <2>2. j - n \in 1..Len(a) - m /\ n + (j - n) = j
    BY <1>2, <2>1
  <2>3. Same(a[m + (j - n)], b[j])
    BY <2>2 DEF EndAlike
  <2>4. m + (j - n) \in 1..Len(a) /\ m + k < m + (j - n)
    <3>1. j \in Nat /\ k \in Nat /\ 0 < j - n /\ j - n <= Len(a) - m /\ k < j - n
      BY <1>2, <2>1
    <3> QED BY <2>1, <3>1
  <2>5. /\ a[m + (j - n)].op = b[j].op
        /\ a[m + (j - n)].op = "close" => a[m + (j - n)].path = b[j].path
    BY <2>3, SameIs, Zenon
  <2> QED BY <1>2, <2>4, <2>5, Zenon
<1>3. /\ a[m + k].op = b[n + k].op
      /\ a[m + k].op \in {"unit", "member"} => a[m + k] = b[n + k]
      /\ a[m + k].op = "close" =>
           a[m + k].path = b[n + k].path /\ a[m + k].content = b[n + k].content
  BY <1>1, SameIs, Zenon
<1>4. b[n + k].op \in {"unit", "member"} => /\ b[n + k].chain = Outer(b, n + k)
                                            /\ b[n + k].depth = Cardinality(Outer(b, n + k))
  BY <1>1, <1>3 DEF Fits
<1>5. b[n + k].op = "close" => /\ Kind[b[n + k].content] = "container"
                               /\ b[n + k].content \notin Outer(b, n + k)
  BY <1>1, <1>3 DEF Fits
<1>6. ASSUME NEW j \in 1..Len(b), n + k < j, b[j].op = "close"
      PROVE  /\ b[n + k].op \in {"unit", "close"} => Under(b[j].path, b[n + k].path)
             /\ b[n + k].op = "member" => \/ b[j].path = b[n + k].path
                                          \/ Under(b[j].path, b[n + k].path)
  <2>1. /\ a[m + k].op \in {"unit", "close"} => Under(b[j].path, a[m + k].path)
        /\ a[m + k].op = "member" => b[j].path = a[m + k].path \/ Under(b[j].path, a[m + k].path)
    BY <1>2, <1>6 DEF Fits
  <2> QED BY <1>3, <2>1
<1> QED BY <1>4, <1>5, <1>6 DEF Fits

\* What is left of an agenda once its first m tasks are done.
LEMMA NestedEnd ==
  ASSUME NEW a, NEW b, NEW m, EndAlike(a, m, b, 0), Nested(a)
  PROVE  Nested(b) /\ Outer(b, 0) = Outer(a, m) /\ Outer(a, m) \subseteq Outer(a, 0)
<1>1. Outer(b, 0) = Outer(a, m)
  BY OuterIsLast
<1>2. /\ Len(a) \in Nat /\ Len(b) \in Nat /\ m \in Nat /\ m <= Len(a) /\ Len(a) - m = Len(b)
  BY DEF EndAlike
<1>3. Outer(a, m) \subseteq Outer(a, 0)
  <2>1. \A j \in 1..Len(a) : m < j => 0 < j
    BY <1>2
  <2> QED BY <2>1 DEF Outer
<1>4. IsFiniteSet(Outer(b, 0)) /\ Cardinality(Outer(b, 0)) <= MaxDepth + 1
  <2>1. IsFiniteSet(Outer(a, 0)) /\ Cardinality(Outer(a, 0)) <= MaxDepth + 1
    BY DEF Nested
  <2>2. /\ IsFiniteSet(Outer(b, 0)) /\ Cardinality(Outer(b, 0)) <= Cardinality(Outer(a, 0))
    BY <1>1, <1>3, <2>1, FS_Subset
  <2>3. Cardinality(Outer(a, 0)) \in Nat /\ Cardinality(Outer(b, 0)) \in Nat /\ MaxDepth \in Nat
    BY <2>1, <2>2, FS_CardinalityType, ExpansionAssumption
  <2> QED BY <2>1, <2>2, <2>3
<1>5. ASSUME NEW k \in 1..Len(b) PROVE Fits(b, k)
  <2>1. k \in 1..Len(a) - m /\ m + k \in 1..Len(a) /\ 0 + k = k
    BY <1>2
  <2>2. Fits(a, m + k)
    BY <2>1 DEF Nested
  <2> QED BY <2>1, <2>2, FitsIsLast
<1> QED BY <1>1, <1>3, <1>4, <1>5 DEF Nested

\* One more task, that is not a member.
LEMMA NestedOne ==
  ASSUME NEW r, NEW a \in Seq(Task(r)), Nested(a),
         NEW t, t \in Task(r), t.op \in {"unit", "leg", "reconcile", "retire"},
         t.op = "unit" => /\ t.chain = Outer(a, 0) /\ t.depth = Cardinality(Outer(a, 0))
                          /\ \A j \in 1..Len(a) : a[j].op = "close" => Under(a[j].path, t.path)
  PROVE  Nested(<<t>> \o a) /\ Outer(<<t>> \o a, 0) = Outer(a, 0)
<1> DEFINE b == <<t>> \o a
<1>1. /\ Len(a) \in Nat /\ Len(b) = Len(a) + 1 /\ b[1] = t
      /\ \A k \in 1..Len(a) : b[k + 1] = a[k]
  <2>1. <<t>> \in Seq(Task(r)) /\ Len(<<t>>) = 1 /\ <<t>>[1] = t /\ Len(a) \in Nat
    BY LenProperties
  <2>2. /\ Len(b) = Len(<<t>>) + Len(a)
        /\ \A i \in 1..Len(<<t>>) + Len(a) :
             b[i] = IF i <= Len(<<t>>) THEN <<t>>[i] ELSE a[i - Len(<<t>>)]
    BY <2>1, ConcatProperties
  <2> HIDE DEF b
  <2>3. Len(b) = Len(a) + 1 /\ b[1] = t
    BY <2>1, <2>2
  <2>4. ASSUME NEW k \in 1..Len(a) PROVE b[k + 1] = a[k]
    <3>1. k + 1 \in 1..Len(<<t>>) + Len(a) /\ ~(k + 1 <= Len(<<t>>)) /\ (k + 1) - Len(<<t>>) = k
      BY <2>1
    <3> QED BY <2>2, <3>1
  <2> QED BY <2>1, <2>3, <2>4
<1> HIDE DEF b
<1>2. EndAlike(a, 0, b, 1)
  <2>1. \A k \in 1..Len(a) : 1 + k = k + 1 /\ 0 + k = k
    BY <1>1
  <2>2. /\ Len(a) \in Nat /\ Len(b) \in Nat /\ 0 \in 0..Len(a) /\ 1 \in 0..Len(b)
        /\ Len(a) - 0 = Len(b) - 1 /\ Len(a) - 0 = Len(a)
    BY <1>1
  <2>3. \A k \in 1..Len(a) : Same(a[0 + k], b[1 + k])
    BY <1>1, <2>1 DEF Same
  <2> QED BY <2>2, <2>3 DEF EndAlike
<1>3. Outer(b, 1) = Outer(a, 0)
  BY <1>2, OuterIsLast
<1>4. Outer(b, 0) = Outer(a, 0)
  <2>1. \A k \in 1..Len(b) : b[k].op = "close" => 1 < k
    BY <1>1
  <2>2. \A k \in 1..Len(b) : 1 < k => 0 < k
    OBVIOUS
  <2>3. Outer(b, 0) = Outer(b, 1)
    BY <2>1, <2>2 DEF Outer
  <2> QED BY <1>3, <2>3
<1>5. Fits(b, 1)
  <2>1. ASSUME t.op = "unit", NEW j \in 1..Len(b), 1 < j, b[j].op = "close" PROVE Under(b[j].path, t.path)
    <3>1. j - 1 \in 1..Len(a) /\ b[j] = a[j - 1]
      <4>1. j - 1 \in 1..Len(a) /\ (j - 1) + 1 = j
        BY <1>1, <2>1
      <4> QED BY <1>1, <4>1
    <3> QED BY <2>1, <3>1
  <2> QED BY <1>1, <1>3, <2>1 DEF Fits
<1>6. ASSUME NEW k \in 1..Len(b) PROVE Fits(b, k)
  <2>1. CASE k = 1
    BY <1>5, <2>1
  <2>2. CASE k # 1
    <3>1. k - 1 \in 1..Len(a) /\ 0 + (k - 1) = k - 1 /\ 1 + (k - 1) = k /\ k - 1 \in 1..Len(a) - 0
      BY <1>1, <2>2
    <3>2. Fits(a, 0 + (k - 1))
      BY <3>1 DEF Nested
    <3>3. Fits(b, 1 + (k - 1))
      BY <1>2, <3>1, <3>2, FitsIsLast
    <3> QED BY <3>1, <3>3
  <2> QED BY <2>1, <2>2
<1>7. Nested(b) /\ Outer(b, 0) = Outer(a, 0)
  BY <1>4, <1>6 DEF Nested
<1> QED BY <1>7 DEF b

LEMMA NestedAlone ==
  /\ Nested(<<>>)
  /\ \A t : t.op = "unit" /\ t.chain = {} /\ t.depth = 0 => Nested(<<t>>)
  /\ Nested(<<[op |-> "reconcile"]>>)
<1>1. IsFiniteSet({}) /\ Cardinality({}) = 0 /\ 0 <= MaxDepth + 1
  BY FS_EmptySet, ExpansionAssumption
<1>2. Outer(<<>>, 0) = {}
  BY DEF Outer
<1>3. ASSUME NEW t, t.op \in {"unit", "reconcile"} PROVE Outer(<<t>>, 0) = {} /\ Outer(<<t>>, 1) = {}
  <2>1. Len(<<t>>) = 1 /\ <<t>>[1] = t
    OBVIOUS
  <2>2. {k \in 1..Len(<<t>>) : 0 < k /\ <<t>>[k].op = "close"} = {}
    BY <1>3, <2>1
  <2>3. {k \in 1..Len(<<t>>) : 1 < k /\ <<t>>[k].op = "close"} = {}
    BY <1>3, <2>1
  <2> QED BY <2>2, <2>3 DEF Outer
<1>4. ASSUME NEW t, t.op = "unit", t.chain = {}, t.depth = 0 PROVE Nested(<<t>>)
  <2>1. Len(<<t>>) = 1 /\ <<t>>[1] = t
    OBVIOUS
  <2>2. Fits(<<t>>, 1)
    BY <1>1, <1>3, <1>4, <2>1 DEF Fits
  <2>3. \A i \in 1..Len(<<t>>) : i = 1
    BY <2>1
  <2> QED BY <1>1, <1>3, <1>4, <2>2, <2>3 DEF Nested
<1>5. ASSUME NEW t, t.op = "reconcile" PROVE Nested(<<t>>)
  <2>1. Len(<<t>>) = 1 /\ <<t>>[1] = t
    OBVIOUS
  <2>2. \A i \in 1..Len(<<t>>) : i = 1
    BY <2>1
  <2>3. Fits(<<t>>, 1)
    BY <1>5, <2>1 DEF Fits
  <2> QED BY <1>1, <1>3, <1>5, <2>2, <2>3 DEF Nested
<1>6. [op |-> "reconcile"].op = "reconcile"
  OBVIOUS
<1>7. Nested(<<>>)
  <2>1. \A i \in 1..Len(<<>>) : FALSE
    OBVIOUS
  <2> QED BY <1>1, <1>2, <2>1, Zenon DEF Nested
<1>8. Nested(<<[op |-> "reconcile"]>>)
  BY <1>5, <1>6, Zenon
<1> QED BY <1>4, <1>7, <1>8, Zenon

\* Only containers are open.
LEMMA OpenAreContainers ==
  ASSUME NEW a, Len(a) \in Nat, Nested(a)
  PROVE  \A c \in Outer(a, 0) : Kind[c] = "container"
<1> SUFFICES ASSUME NEW j \in 1..Len(a), a[j].op = "close" PROVE Kind[a[j].content] = "container"
  BY DEF Outer
<1> QED BY DEF Nested, Fits

\* What is in hand after a step, other than a container's text.
LEMMA HeldIsOther ==
  ASSUME Nested(agenda'), Len(agenda') \in Nat,
         \/ held' = None
         \/ held'.record.status \notin Bearing
         \/ Kind[held'.record.hash] # "container"
  PROVE  NestInv'
<1>1. \A c \in Outer(agenda', 0) : Kind[c] = "container"
  BY OpenAreContainers
<1> QED BY <1>1 DEF NestInv, HeldIsOld

LEMMA HeldAfter ==
  /\ \A p, s, c : Write(p, s, c) => held'.path = p /\ held'.record.hash = c
  /\ \A p, h : Refuse(p, "failed", h) \/ Refuse(p, "removed", h) \/ Refuse(p, "capped", h)
               => held'.record.status \notin Bearing
<1>1. \A p, s, c : Write(p, s, c) => held'.path = p /\ held'.record.hash = c
  BY DEF Write
<1>2. \A p, h, s : Refuse(p, s, h) => held'.record.status = s
  BY DEF Refuse
<1> QED BY <1>1, <1>2 DEF Bearing

LEMMA TypedAgenda ==
  ASSUME IInv
  PROVE  agenda \in Seq(Task(cur)) /\ Len(agenda) \in Nat
<1>1. agenda \in Seq(Task(cur))
  BY DEF IInv, AgendaInv, Formed
<1> QED BY <1>1, LenProperties

\* The rest of the agenda, alone and after one more task.
LEMMA NestedRest ==
  ASSUME IInv, AtTask, Nested(agenda)
  PROVE  /\ Rest \in Seq(Task(cur)) /\ Len(Rest) \in Nat /\ Nested(Rest)
         /\ Outer(Rest, 0) = Outer(agenda, 1) /\ Outer(Rest, 0) \subseteq Outer(agenda, 0)
         /\ Head(agenda) = agenda[1] /\ 1 \in 1..Len(agenda)
         /\ \A i \in 1..Len(Rest) : i + 1 \in 1..Len(agenda) /\ 1 < i + 1 /\ Rest[i] = agenda[i + 1]
         /\ \A t \in Task(cur) : t.op \in {"leg", "reconcile", "retire"} =>
              /\ <<t>> \o Rest \in Seq(Task(cur)) /\ Len(<<t>> \o Rest) \in Nat
              /\ Nested(<<t>> \o Rest) /\ Outer(<<t>> \o Rest, 0) = Outer(agenda, 1)
<1>1. PICK owned \in BOOLEAN : Formed(agenda, owned, cur)
  BY DEF IInv, AgendaInv
<1>2. /\ Head(agenda) = agenda[1] /\ Len(agenda) \in Nat \ {0} /\ Rest \in Seq(Task(cur))
      /\ Len(Rest) = Len(agenda) - 1 /\ \A i \in 1..Len(agenda) - 1 : Rest[i] = agenda[i + 1]
  BY <1>1, FirstOf DEF AtTask, Rest
<1>3. EndAlike(agenda, 1, Rest, 0)
  <2>1. /\ 1 \in 0..Len(agenda) /\ 0 \in 0..Len(Rest) /\ Len(agenda) - 1 = Len(Rest) - 0
        /\ Len(Rest) \in Nat
    BY <1>2
  <2>2. ASSUME NEW k \in 1..Len(agenda) - 1 PROVE Same(agenda[1 + k], Rest[0 + k])
    <3>1. 1 + k = k + 1 /\ 0 + k = k
      BY <1>2
    <3> QED BY <1>2, <3>1 DEF Same
  <2> QED BY <1>2, <2>1, <2>2 DEF EndAlike
<1>4. /\ Nested(Rest) /\ Outer(Rest, 0) = Outer(agenda, 1) /\ Outer(Rest, 0) \subseteq Outer(agenda, 0)
  BY <1>3, NestedEnd
<1>5. ASSUME NEW t \in Task(cur), t.op \in {"leg", "reconcile", "retire"}
      PROVE  /\ <<t>> \o Rest \in Seq(Task(cur)) /\ Len(<<t>> \o Rest) \in Nat
             /\ Nested(<<t>> \o Rest) /\ Outer(<<t>> \o Rest, 0) = Outer(agenda, 1)
  <2>1. <<t>> \o Rest \in Seq(Task(cur))
    BY <1>2, <1>5, ConcatProperties
  <2>2. Len(<<t>> \o Rest) \in Nat
    BY <2>1, LenProperties
  <2>3. Nested(<<t>> \o Rest) /\ Outer(<<t>> \o Rest, 0) = Outer(Rest, 0)
    BY <1>2, <1>4, <1>5, NestedOne
  <2> QED BY <1>4, <2>1, <2>2, <2>3
<1>6. /\ Len(Rest) \in Nat /\ 1 \in 1..Len(agenda)
      /\ \A i \in 1..Len(Rest) : i + 1 \in 1..Len(agenda) /\ 1 < i + 1 /\ Rest[i] = agenda[i + 1]
  BY <1>2
<1> QED BY <1>2, <1>4, <1>5, <1>6

LEMMA NestUnits ==
  ASSUME IInv, NestInv, Skip \/ GuardFails \/ Borrow \/ Leaf \/ Primary
  PROVE  NestInv'
<1> DEFINE u == Head(agenda)
<1>1. AtTask /\ u.op = "unit"
  BY DEF Skip, GuardFails, Borrow, Leaf, Primary, Doing, AtTask
<1>2. /\ Nested(agenda) /\ Rest \in Seq(Task(cur)) /\ Len(Rest) \in Nat /\ Nested(Rest)
      /\ \A t \in Task(cur) : t.op \in {"leg", "reconcile", "retire"} =>
           Nested(<<t>> \o Rest) /\ Len(<<t>> \o Rest) \in Nat
  BY <1>1, NestedRest DEF NestInv
<1>3. u.path \in Tree(cur) /\ u.content \in Content
  BY <1>1, UnitIs
<1>4. CASE Skip
  <2>1. /\ agenda' = Rest /\ held' = [path |-> u.path, record |-> terminal[u.path]]
        /\ u.path \in DOMAIN terminal /\ UNCHANGED terminal
    BY <1>4 DEF Skip, Skippable, Live, disk
  <2>2. HeldIsOld'
    BY <2>1 DEF HeldIsOld
  <2> QED BY <1>2, <2>1, <2>2 DEF NestInv
<1>5. CASE GuardFails
  <2>1. agenda' = Rest /\ Refuse(u.path, "failed", u.content)
    BY <1>5 DEF GuardFails, Fails
  <2> QED BY <1>2, <2>1, HeldAfter, HeldIsOther
<1>6. CASE Borrow
  <2>1. agenda' = Rest /\ Write(u.path, "borrowed", u.content) /\ Kind[u.content] # "container"
    BY <1>6 DEF Borrow
  <2> QED BY <1>2, <2>1, HeldAfter, HeldIsOther
<1>7. ASSUME Convert(u), Kind[u.content] # "container"
      PROVE  held'.record.status \notin Bearing \/ Kind[held'.record.hash] # "container"
  BY <1>7, HeldAfter DEF Convert, Fails
<1>8. CASE Leaf
  <2>1. /\ Convert(u) /\ Kind[u.content] # "container"
        /\ agenda' = <<[op |-> "reconcile"]>> \o Rest \/ agenda' = Rest
    BY <1>8 DEF Leaf
  <2>2. [op |-> "reconcile"] \in Task(cur)
    BY DEF Task
  <2>3. Nested(agenda') /\ Len(agenda') \in Nat
    BY <1>2, <2>1, <2>2
  <2> QED BY <1>7, <2>1, <2>3, HeldIsOther
<1>9. CASE Primary
  <2> DEFINE leg == [op |-> "leg", path |-> u.path, content |-> u.content]
  <2>1. /\ Convert(u) \/ Write(u.path, "borrowed", u.content)
        /\ HasLeg(u.content)
        /\ agenda' = <<leg>> \o Rest \/ agenda' = Rest
    BY <1>9 DEF Primary
  <2>2. leg \in Task(cur) /\ leg.op = "leg"
    BY <1>3, <2>1 DEF Task
  <2>3. Nested(agenda') /\ Len(agenda') \in Nat
    BY <1>2, <2>1, <2>2
  <2>4. Kind[u.content] # "container"
    BY <2>1 DEF HasLeg
  <2>5. held'.record.status \notin Bearing \/ Kind[held'.record.hash] # "container"
    BY <1>7, <2>1, <2>4, HeldAfter
  <2> QED BY <2>3, <2>5, HeldIsOther
<1> QED BY <1>4, <1>5, <1>6, <1>8, <1>9

LEMMA NestLeg ==
  ASSUME IInv, NestInv, Leg
  PROVE  NestInv'
<1> DEFINE t == Head(agenda)
           child == LegPath(t.path, t.content)
<1>1. AtTask /\ t.op = "leg"
  BY DEF Leg, Doing, AtTask
<1>2. /\ Rest \in Seq(Task(cur)) /\ Len(Rest) \in Nat /\ Nested(Rest)
      /\ \A r \in Task(cur) : r.op \in {"leg", "reconcile", "retire"} =>
           Nested(<<r>> \o Rest) /\ Len(<<r>> \o Rest) \in Nat
  BY <1>1, NestedRest DEF NestInv
<1>3. HasLeg(t.content)
  BY <1>1, TaskAt, TaskIs
<1>4. /\ \/ Write(child, "text", t.content)
         \/ Refuse(child, "failed", t.content)
         \/ held' = None
      /\ agenda' = <<[op |-> "reconcile"]>> \o Rest \/ agenda' = Rest
  BY <1>1 DEF Leg, Fails, AtTask
<1>5. [op |-> "reconcile"] \in Task(cur)
  BY DEF Task
<1>6. Nested(agenda') /\ Len(agenda') \in Nat
  BY <1>2, <1>4, <1>5
<1>7. Kind[t.content] # "container"
  BY <1>3 DEF HasLeg
<1> QED BY <1>4, <1>6, <1>7, HeldAfter, HeldIsOther

\* A container that is opened is not one of those that are open already.
LEMMA NestedOpened ==
  ASSUME NEW r \in Seq(Name), NEW a \in Seq(Task(r)), Nested(a),
         NEW u \in Task(r), u.op = "unit", Kind[u.content] = "container", Expandable(u),
         u.chain = Outer(a, 0), u.depth = Cardinality(Outer(a, 0)),
         \A j \in 1..Len(a) : a[j].op = "close" => Under(a[j].path, u.path)
  PROVE  Nested(Tasks(u) \o a) /\ Len(Tasks(u) \o a) \in Nat
<1> DEFINE s == Tasks(u)
           n == Len(Members[u.content])
           b == s \o a
           c == u.content
<1>1. /\ s \in Seq(Task(r)) /\ Len(s) = n + 1 /\ n \in Nat
      /\ \A i \in 1..n : /\ s[i].op = "member" /\ s[i].path = u.path
                         /\ s[i].depth = u.depth + 1 /\ s[i].chain = u.chain \cup {c}
      /\ s[n + 1].op = "close" /\ s[n + 1].path = u.path /\ s[n + 1].content = c
  BY TasksAre
<1> HIDE DEF s, n
<1>2. /\ Len(a) \in Nat /\ Len(b) = n + 1 + Len(a)
      /\ \A i \in 1..n + 1 : b[i] = s[i]
      /\ \A k \in 1..Len(a) : b[(n + 1) + k] = a[k]
  <2>1. /\ Len(a) \in Nat /\ Len(b) = Len(s) + Len(a)
        /\ \A i \in 1..Len(s) + Len(a) : b[i] = IF i <= Len(s) THEN s[i] ELSE a[i - Len(s)]
    <3>1. Len(a) \in Nat
      BY LenProperties
    <3>2. s \in Seq(Task(r))
      BY <1>1
    <3> QED BY <3>1, <3>2, ConcatProperties
  <2> HIDE DEF b
  <2>2. ASSUME NEW i \in 1..n + 1 PROVE b[i] = s[i]
    <3>1. i \in 1..Len(s) + Len(a) /\ i <= Len(s)
      BY <1>1, <2>1
    <3> QED BY <2>1, <3>1
  <2>3. ASSUME NEW k \in 1..Len(a) PROVE b[(n + 1) + k] = a[k]
    <3>1. /\ (n + 1) + k \in 1..Len(s) + Len(a) /\ ~((n + 1) + k <= Len(s))
          /\ ((n + 1) + k) - Len(s) = k
      BY <1>1, <2>1
    <3> QED BY <2>1, <3>1
  <2>4. Len(b) = n + 1 + Len(a)
    BY <1>1, <2>1
  <2> QED BY <2>1, <2>2, <2>3, <2>4
<1> HIDE DEF b
<1>3. EndAlike(a, 0, b, n + 1)
  <2>1. ASSUME NEW k \in 1..Len(a) - 0 PROVE Same(a[0 + k], b[(n + 1) + k])
    <3>1. k \in 1..Len(a) /\ 0 + k = k
      BY <1>2
    <3> QED BY <1>2, <3>1 DEF Same
  <2>2. /\ Len(b) \in Nat /\ 0 \in 0..Len(a) /\ n + 1 \in 0..Len(b)
        /\ Len(a) - 0 = Len(b) - (n + 1)
    BY <1>1, <1>2
  <2> QED BY <1>2, <2>1, <2>2 DEF EndAlike
<1>4. Outer(b, n + 1) = Outer(a, 0)
  BY <1>3, OuterIsLast
<1>5. ASSUME NEW i \in 0..n PROVE Outer(b, i) = Outer(a, 0) \cup {c}
  <2>1. ASSUME NEW j \in 1..Len(b), i < j, b[j].op = "close"
        PROVE  b[j].content \in Outer(b, n + 1) \cup {c}
    <3>1. CASE j \in 1..n
      <4>1. j \in 1..n + 1 /\ b[j] = s[j] /\ s[j].op = "member"
        BY <1>1, <1>2, <3>1
      <4> QED BY <2>1, <4>1
    <3>2. CASE j = n + 1
      BY <1>1, <1>2, <3>2
    <3>3. CASE n + 1 < j
      BY <2>1, <3>3 DEF Outer
    <3> QED BY <1>1, <1>2, <3>1, <3>2, <3>3
  <2>2. c \in Outer(b, i)
    <3>1. n + 1 \in 1..Len(b) /\ i < n + 1 /\ n + 1 \in 1..n + 1
      BY <1>1, <1>2
    <3>2. b[n + 1].op = "close" /\ b[n + 1].content = c
      BY <1>1, <1>2, <3>1
    <3> QED BY <3>1, <3>2 DEF Outer
  <2>3. Outer(b, n + 1) \subseteq Outer(b, i)
    <3>1. \A j \in 1..Len(b) : n + 1 < j => i < j
      BY <1>1, <1>2
    <3> QED BY <3>1 DEF Outer
  <2>4. Outer(b, i) \subseteq Outer(b, n + 1) \cup {c}
    BY <2>1 DEF Outer
  <2> QED BY <1>4, <2>2, <2>3, <2>4
<1>6. /\ c \notin Outer(a, 0) /\ u.depth \in Nat /\ u.depth <= MaxDepth
      /\ IsFiniteSet(Outer(a, 0) \cup {c})
      /\ Cardinality(Outer(a, 0) \cup {c}) = u.depth + 1
  <2>1. c \notin Outer(a, 0) /\ u.depth <= MaxDepth
    BY DEF Expandable
  <2>2. u.depth \in Nat
    BY TaskIs
  <2> QED BY <2>1, <2>2, FS_AddElement DEF Nested
<1>7. Cardinality(Outer(b, 0)) <= MaxDepth + 1 /\ IsFiniteSet(Outer(b, 0))
  <2>1. 0 \in 0..n /\ MaxDepth \in Nat
    BY <1>1, ExpansionAssumption
  <2>2. Outer(b, 0) = Outer(a, 0) \cup {c}
    BY <1>5, <2>1
  <2>3. u.depth + 1 <= MaxDepth + 1
    BY <1>6, <2>1
  <2> QED BY <1>6, <2>2, <2>3
<1>8. ASSUME NEW j \in 1..Len(b), b[j].op = "close"
      PROVE  /\ n + 1 <= j
             /\ j = n + 1 => b[j].path = u.path
             /\ n + 1 < j => Under(b[j].path, u.path)
  <2>1. n + 1 <= j
    <3>1. j \in 1..n => j \in 1..n + 1 /\ s[j].op = "member"
      BY <1>1
    <3> QED BY <1>1, <1>2, <1>8, <3>1
  <2>2. j = n + 1 => b[j].path = u.path
    <3>1. n + 1 \in 1..n + 1
      BY <1>1
    <3> QED BY <1>1, <1>2, <3>1
  <2>3. ASSUME n + 1 < j PROVE Under(b[j].path, u.path)
    <3>1. j - (n + 1) \in 1..Len(a) /\ (n + 1) + (j - (n + 1)) = j
      BY <1>1, <1>2, <2>3
    <3>2. b[j] = a[j - (n + 1)]
      BY <1>2, <3>1
    <3> QED BY <1>8, <3>1, <3>2
  <2> QED BY <2>1, <2>2, <2>3
<1>9. ASSUME NEW i \in 1..n PROVE Fits(b, i)
  <2>1. i \in 1..n + 1 /\ i \in 0..n
    BY <1>1
  <2>2. /\ b[i].op = "member" /\ b[i].path = u.path
        /\ b[i].depth = Cardinality(Outer(b, i)) /\ b[i].chain = Outer(b, i)
    BY <1>1, <1>2, <1>5, <1>6, <2>1
  <2>3. \A j \in 1..Len(b) : b[j].op = "close" => b[j].path = b[i].path \/ Under(b[j].path, b[i].path)
    <3> SUFFICES ASSUME NEW j \in 1..Len(b), b[j].op = "close"
                 PROVE  b[j].path = u.path \/ Under(b[j].path, u.path)
      BY <2>2
    <3>1. n + 1 = j \/ n + 1 < j
      BY <1>1, <1>8
    <3> QED BY <1>8, <3>1
  <2> QED BY <2>2, <2>3 DEF Fits
<1>10. Fits(b, n + 1)
  <2>1. n + 1 \in 1..n + 1
    BY <1>1
  <2>2. b[n + 1].op = "close" /\ b[n + 1].path = u.path /\ b[n + 1].content = c
    BY <1>1, <1>2, <2>1
  <2>3. \A j \in 1..Len(b) : n + 1 < j /\ b[j].op = "close" => Under(b[j].path, b[n + 1].path)
    BY <1>8, <2>2
  <2> QED BY <1>4, <1>6, <2>2, <2>3 DEF Fits
<1>11. ASSUME NEW i \in 1..Len(b) PROVE Fits(b, i)
  <2>1. CASE i \in 1..n
    BY <1>9, <2>1
  <2>2. CASE i = n + 1
    BY <1>10, <2>2
  <2>3. CASE n + 1 < i
    <3>1. /\ i - (n + 1) \in 1..Len(a) - 0 /\ i - (n + 1) \in 1..Len(a)
          /\ 0 + (i - (n + 1)) = i - (n + 1) /\ (n + 1) + (i - (n + 1)) = i
      BY <1>1, <1>2, <2>3
    <3>2. Fits(a, 0 + (i - (n + 1)))
      BY <3>1 DEF Nested
    <3>3. Fits(b, (n + 1) + (i - (n + 1)))
      BY <1>3, <3>1, <3>2, FitsIsLast
    <3> QED BY <3>1, <3>3
  <2> QED BY <1>1, <1>2, <2>1, <2>2, <2>3
<1>12. Nested(b) /\ Len(b) \in Nat
  BY <1>1, <1>2, <1>7, <1>11 DEF Nested
<1> QED BY <1>12 DEF b, s

LEMMA NestOpen ==
  ASSUME IInv, NestInv, Open
  PROVE  NestInv'
<1> DEFINE u == Head(agenda)
           after == IF claim = None THEN <<[op |-> "reconcile"]>> \o Rest ELSE Rest
<1>1. AtTask /\ u.op = "unit"
  BY DEF Open, Doing, AtTask
<1>2. /\ Kind[u.content] = "container" /\ Expandable(u)
      /\ \/ Refuse(u.path, "failed", u.content) /\ agenda' = after
         \/ agenda' = Tasks(u) \o after /\ held' = None
  BY <1>1 DEF Open, Fails, AtTask
<1>3. /\ Nested(agenda) /\ Rest \in Seq(Task(cur)) /\ Len(Rest) \in Nat /\ Nested(Rest)
      /\ Outer(Rest, 0) = Outer(agenda, 1)
      /\ Head(agenda) = agenda[1] /\ 1 \in 1..Len(agenda)
      /\ \A i \in 1..Len(Rest) : i + 1 \in 1..Len(agenda) /\ 1 < i + 1 /\ Rest[i] = agenda[i + 1]
      /\ \A t \in Task(cur) : t.op \in {"leg", "reconcile", "retire"} =>
           /\ <<t>> \o Rest \in Seq(Task(cur)) /\ Len(<<t>> \o Rest) \in Nat
           /\ Nested(<<t>> \o Rest) /\ Outer(<<t>> \o Rest, 0) = Outer(agenda, 1)
  BY <1>1, NestedRest DEF NestInv
<1>4. u \in Task(cur) /\ cur \in Seq(Name)
  BY <1>1, TaskAt
<1>5. [op |-> "reconcile"] \in Task(cur)
  BY DEF Task
<1>6. /\ after \in Seq(Task(cur)) /\ Len(after) \in Nat /\ Nested(after)
      /\ Outer(after, 0) = Outer(agenda, 1)
  BY <1>3, <1>5
<1>7. u.chain = Outer(agenda, 1) /\ u.depth = Cardinality(Outer(agenda, 1))
  <2>1. Fits(agenda, 1)
    BY <1>3 DEF Nested
  <2> QED BY <1>1, <1>3, <2>1 DEF Fits
<1>8. \A j \in 1..Len(Rest) : Rest[j].op = "close" => Under(Rest[j].path, u.path)
  <2>1. Fits(agenda, 1)
    BY <1>3 DEF Nested
  <2> QED BY <1>1, <1>3, <2>1 DEF Fits
<1>9. \A j \in 1..Len(after) : after[j].op = "close" => Under(after[j].path, u.path)
  <2>1. CASE claim # None
    BY <1>8, <2>1
  <2>2. CASE claim = None
    <3>1. after = <<[op |-> "reconcile"]>>
      BY <1>1, <2>2, TaskAt
    <3>2. Len(after) = 1 /\ after[1].op = "reconcile"
      BY <3>1
    <3>3. \A j \in 1..Len(after) : after[j].op # "close"
      BY <3>2
    <3> QED BY <3>3
  <2> QED BY <2>1, <2>2
<1> HIDE DEF after, u
<1>10. CASE Refuse(u.path, "failed", u.content) /\ agenda' = after
  BY <1>6, <1>10, HeldAfter, HeldIsOther
<1>11. CASE agenda' = Tasks(u) \o after /\ held' = None
  <2>1. Nested(agenda') /\ Len(agenda') \in Nat
    BY <1>1, <1>2, <1>4, <1>6, <1>7, <1>9, <1>11, NestedOpened DEF u
  <2> QED BY <1>11, <2>1, HeldIsOther
<1> QED BY <1>2, <1>10, <1>11

LEMMA NestMembers ==
  ASSUME IInv, NestInv, MemberRefused \/ MemberOverruns \/ Member
  PROVE  NestInv'
<1> DEFINE t == Head(agenda)
<1>1. AtTask /\ t.op = "member"
  BY DEF MemberRefused, MemberOverruns, Member, Doing, AtTask
<1>2. /\ Nested(agenda) /\ Rest \in Seq(Task(cur)) /\ Len(Rest) \in Nat /\ Nested(Rest)
      /\ Outer(Rest, 0) = Outer(agenda, 1)
      /\ t = agenda[1] /\ 1 \in 1..Len(agenda)
      /\ \A i \in 1..Len(Rest) : i + 1 \in 1..Len(agenda) /\ 1 < i + 1 /\ Rest[i] = agenda[i + 1]
  BY <1>1, NestedRest DEF NestInv
<1>3. Formed(agenda, TRUE, cur) /\ ChildPath(t) \in Tree(cur) /\ cur \in Seq(Name)
  BY <1>1, MemberIs, TaskAt
<1>4. /\ t.path \in Tree(cur) /\ t.depth \in Nat /\ t.chain \in SUBSET Content
      /\ t.member.name \in Seq(Name) \ {<<>>} /\ t.member.content \in Content \cup {Refused}
  BY <1>1, TaskAt, TaskIs
<1>5. CASE MemberRefused
  <2>1. agenda' = Rest /\ Refuse(ChildPath(t), "failed", None)
    BY <1>5 DEF MemberRefused, Fails
  <2> QED BY <1>2, <2>1, HeldAfter, HeldIsOther
<1>6. CASE MemberOverruns
  <2>1. /\ Refuse(ChildPath(t), "failed", None) \/ held' = None
        /\ agenda' = Capped \/ agenda' = Rest
    BY <1>1, <1>6 DEF MemberOverruns, Fails, AtTask
  <2>2. Nested(Capped) /\ Len(Capped) \in Nat
    <3>1. /\ Formed(Capped, TRUE, cur)
          /\ \E m \in 0..Len(agenda) :
               /\ Len(Capped) = Len(agenda) - m
               /\ \A k \in 1..Len(Capped) : Same(agenda[m + k], Capped[k])
      BY <1>1, <1>3, CappedIs
    <3>2. PICK m \in 0..Len(agenda) :
               /\ Len(Capped) = Len(agenda) - m
               /\ \A k \in 1..Len(Capped) : Same(agenda[m + k], Capped[k])
      BY <3>1
    <3>3. Len(agenda) \in Nat /\ Len(Capped) \in Nat
      <4>1. agenda \in Seq(Task(cur)) /\ Capped \in Seq(Task(cur))
        BY <1>3, <3>1 DEF Formed
      <4> HIDE DEF t
      <4> QED BY <4>1, LenProperties
    <3>4. EndAlike(agenda, m, Capped, 0)
      <4>1. \A k \in 1..Len(agenda) - m : k \in 1..Len(Capped) /\ 0 + k = k
        BY <3>2, <3>3
      <4>2. \A k \in 1..Len(agenda) - m : Same(agenda[m + k], Capped[0 + k])
        BY <3>2, <4>1
      <4>3. 0 \in 0..Len(Capped) /\ Len(agenda) - m = Len(Capped) - 0
        BY <3>2, <3>3
      <4> QED BY <3>3, <4>2, <4>3 DEF EndAlike
    <3> QED BY <1>2, <3>3, <3>4, NestedEnd
  <2>3. Nested(agenda') /\ Len(agenda') \in Nat
    BY <1>2, <2>1, <2>2
  <2> QED BY <2>1, <2>3, HeldAfter, HeldIsOther
<1>7. CASE Member
  <2> DEFINE u == [op |-> "unit", path |-> ChildPath(t), content |-> t.member.content,
                   depth |-> t.depth, chain |-> t.chain]
  <2>1. /\ t.member.content # Refused
        /\ \/ /\ \E n : Refuse(Append(t.path, CollisionName[n]), "failed", None)
              /\ agenda' = Rest
           \/ agenda' = <<u>> \o Rest /\ held' = None
    BY <1>1, <1>7 DEF Member, Inflates, Fails, AtTask
  <2>2. CASE held' # None /\ agenda' = Rest /\ held'.record.status \notin Bearing
    BY <1>2, <2>2, HeldIsOther
  <2>3. CASE agenda' = <<u>> \o Rest /\ held' = None
    <3>1. u \in Task(cur) /\ u.op = "unit"
      BY <1>3, <1>4, <2>1 DEF Task
    <3>2. Fits(agenda, 1)
      BY <1>2 DEF Nested
    <3>3. u.chain = Outer(Rest, 0) /\ u.depth = Cardinality(Outer(Rest, 0))
      BY <1>1, <1>2, <3>2 DEF Fits
    <3>4. ASSUME NEW j \in 1..Len(Rest), Rest[j].op = "close" PROVE Under(Rest[j].path, u.path)
      <4>1. Rest[j].path = t.path \/ Under(Rest[j].path, t.path)
        BY <1>1, <1>2, <3>2, <3>4 DEF Fits
      <4>2. Under(t.path, u.path) /\ u.path \in Seq(Name) /\ t.path \in Seq(Name)
        <5>1. Under(t.path, t.path \o t.member.name)
          BY <1>3, <1>4, Deeper
        <5> QED BY <1>3, <1>4, <5>1 DEF ChildPath, Tree
      <4>3. Rest[j].path \in Seq(Name)
        <5>1. Rest[j] \in Task(cur)
          BY <1>2, ElementOfSeq
        <5> QED BY <3>4, <5>1, TaskIs DEF Tree
      <4> QED BY <4>1, <4>2, <4>3, UnderIsOrder
    <3> HIDE DEF u
    <3>5. Nested(<<u>> \o Rest)
      BY <1>2, <3>1, <3>3, <3>4, NestedOne
    <3>6. Len(<<u>> \o Rest) \in Nat
      <4>1. <<u>> \o Rest \in Seq(Task(cur))
        BY <1>2, <3>1, ConcatProperties
      <4> QED BY <4>1, LenProperties
    <3> QED BY <2>3, <3>5, <3>6, HeldIsOther
  <2>4. ASSUME NEW n, Refuse(Append(t.path, CollisionName[n]), "failed", None), agenda' = Rest
        PROVE  NestInv'
    BY <1>2, <2>4, HeldAfter, HeldIsOther
  <2> QED BY <2>1, <2>3, <2>4
<1> QED BY <1>5, <1>6, <1>7

\* A container has its text once no other one of its bytes is open.
LEMMA NestClose ==
  ASSUME IInv, NestInv, Close
  PROVE  NestInv'
<1> DEFINE t == Head(agenda)
<1>1. AtTask /\ t.op = "close"
  BY DEF Close, Doing, AtTask
<1>2. /\ Nested(agenda) /\ Len(Rest) \in Nat /\ Nested(Rest)
      /\ Outer(Rest, 0) = Outer(agenda, 1) /\ t = agenda[1] /\ 1 \in 1..Len(agenda)
  BY <1>1, NestedRest DEF NestInv
<1>3. agenda' = Rest /\ (Refuse(t.path, "capped", t.content) \/ Write(t.path, "text", t.content))
  BY DEF Close
<1>4. t.content \notin Outer(agenda', 0)
  BY <1>1, <1>2, <1>3 DEF Nested, Fits
<1>5. held'.record.status \notin Bearing \/ held'.record.hash = t.content
  BY <1>3, HeldAfter
<1>6. HeldIsOld'
  BY <1>4, <1>5 DEF HeldIsOld
<1> QED BY <1>2, <1>3, <1>6 DEF NestInv

LEMMA NestReconciles ==
  ASSUME IInv, NestInv, Reconcile \/ Retire
  PROVE  NestInv'
<1> DEFINE t == Head(agenda)
<1>1. AtTask /\ t.op \in {"reconcile", "retire"}
  BY DEF Reconcile, Retire, Doing, AtTask
<1>2. /\ Len(Rest) \in Nat /\ Nested(Rest)
      /\ \A r \in Task(cur) : r.op \in {"leg", "reconcile", "retire"} =>
           Nested(<<r>> \o Rest) /\ Len(<<r>> \o Rest) \in Nat
  BY <1>1, NestedRest DEF NestInv
<1>3. ASSUME NEW left \in SUBSET Below(cur)
      PROVE  [op |-> "retire", left |-> left] \in Task(cur)
  BY DEF Task
<1>4. CASE Reconcile
  <2>1. /\ held' = None
        /\ agenda' = Rest \/ agenda' = <<[op |-> "retire", left |-> Stale]>> \o Rest
    BY <1>1, <1>4 DEF Reconcile, AtTask
  <2>2. Stale \in SUBSET Below(cur)
    <3>1. claim # None
      BY <1>1, <1>4, TaskAt DEF Reconcile, Doing
    <3>2. claim.prefix = cur /\ \A q \in DOMAIN terminal : q \in Seq(Name)
      BY <1>1, <3>1, TaskAt
    <3> QED BY <3>2 DEF Stale, Below
  <2>3. Nested(agenda') /\ Len(agenda') \in Nat
    BY <1>2, <1>3, <2>1, <2>2
  <2> QED BY <2>1, <2>3, HeldIsOther
<1>5. CASE Retire
  <2>1. t.op = "retire"
    BY <1>5 DEF Retire, Doing
  <2>2. t.left \in SUBSET Below(cur)
    BY <1>1, <2>1, TaskAt, TaskIs
  <2>3. PICK q \in t.left :
           /\ Refuse(q, "removed", None)
           /\ agenda' = LET left == Head(agenda).left \ {q}
                        IN IF left = {} THEN Rest
                           ELSE <<[op |-> "retire", left |-> left]>> \o Rest
    BY <1>5 DEF Retire
  <2>4. t.left \ {q} \in SUBSET Below(cur)
    BY <2>2
  <2>5. agenda' = Rest \/ agenda' = <<[op |-> "retire", left |-> t.left \ {q}]>> \o Rest
    BY <2>3
  <2>6. Nested(agenda') /\ Len(agenda') \in Nat
    BY <1>2, <1>3, <2>4, <2>5
  <2> QED BY <2>3, <2>6, HeldAfter, HeldIsOther
<1> QED BY <1>4, <1>5

LEMMA NestTakeUp ==
  ASSUME IInv, NestInv, TakeUp
  PROVE  NestInv'
<1>1. /\ agenda = <<>> /\ held = None
      /\ \/ Refuse(cur', "failed", None) /\ agenda' = agenda
         \/ /\ held' = None
            /\ agenda' = <<[op |-> "unit", path |-> cur', content |-> source[cur'],
                            depth |-> 0, chain |-> {}]>>
  BY DEF TakeUp, Between, Fails
<1>2. Len(<<>>) \in Nat /\ \A t : Len(<<t>>) \in Nat
  OBVIOUS
<1>3. Nested(agenda') /\ Len(agenda') \in Nat
  BY <1>1, <1>2, NestedAlone
<1> QED BY <1>1, <1>3, HeldAfter, HeldIsOther

LEMMA NestInvStep == IInv /\ NestInv /\ [Next]_vars => NestInv'
<1> SUFFICES ASSUME IInv, NestInv, [Next]_vars PROVE NestInv'
  OBVIOUS
<1>1. ASSUME agenda' = agenda, held' = None PROVE NestInv'
  BY <1>1, TypedAgenda, HeldIsOther DEF NestInv
<1>2. ASSUME UNCHANGED <<agenda, held, terminal>> PROVE NestInv'
  BY <1>2 DEF NestInv, HeldIsOld, Nested, Fits, Outer
<1>3. CASE Run
  <2>1. CASE AppendRecord
    BY <1>1, <2>1 DEF AppendRecord
  <2>2. CASE Start
    BY <1>2, <2>2 DEF Start, disk
  <2>3. CASE Finish
    BY <1>2, <2>3 DEF Finish, disk
  <2>4. CASE TakeUp
    BY <2>4, NestTakeUp
  <2>5. CASE Skip \/ GuardFails \/ Borrow \/ Leaf \/ Primary
    BY <2>5, NestUnits
  <2>6. CASE Leg
    BY <2>6, NestLeg
  <2>7. CASE Open
    BY <2>7, NestOpen
  <2>8. CASE MemberRefused \/ MemberOverruns \/ Member
    BY <2>8, NestMembers
  <2>9. CASE Close
    BY <2>9, NestClose
  <2>10. CASE Reconcile \/ Retire
    BY <2>10, NestReconciles
  <2> QED BY <1>3, <2>1, <2>2, <2>3, <2>4, <2>5, <2>6, <2>7, <2>8, <2>9, <2>10 DEF Run
<1>4. CASE Kill
  <2>1. agenda' = <<>> /\ held' = None
    BY <1>4 DEF Kill
  <2>2. Nested(agenda') /\ Len(agenda') \in Nat
    BY <2>1, NestedAlone
  <2> QED BY <2>1, <2>2, HeldIsOther
<1>5. CASE AppendFails
  <2>1. agenda' = <<[op |-> "reconcile"]>> /\ held' = None
    BY <1>5 DEF AppendFails
  <2>2. Nested(agenda') /\ Len(agenda') \in Nat
    BY <2>1, NestedAlone
  <2> QED BY <2>1, <2>2, HeldIsOther
<1>6. CASE Edit
  BY <1>2, <1>6 DEF Edit
<1>7. CASE Damage
  BY <1>2, <1>7 DEF Damage
<1>8. CASE UNCHANGED vars
  BY <1>2, <1>8 DEF vars, disk
<1> QED BY <1>3, <1>4, <1>5, <1>6, <1>7, <1>8 DEF Next

\* Every record of every tree is accounted for, after any number of runs,
\* kills, edits and losses.
THEOREM InvariantHolds == Spec => []IInv
BY IInvInit, IInvStep, PTL DEF Spec

\* Every variable has its type.
THEOREM TypeCorrect == Spec => []TypeOK
<1>1. IInv => TypeOK
  BY DEF IInv
<1> QED BY <1>1, InvariantHolds, PTL

\* The checkpoint of a subtree and the reconciliation leave a completed
\* container, image or vector with no live record below it that has lost its
\* artifact.
THEOREM SubtreesAreIntact == Spec => []SubtreeIntact
<1>1. IInv => SubtreeIntact
  <2> SUFFICES ASSUME IInv, NEW r \in Reconciling, Live(r), HasChildren(terminal[r].hash),
                      NEW p \in Subtree(r), Live(p)
               PROVE  Intact(p)
    BY DEF SubtreeIntact
  <2>1. /\ r \in visited /\ source[r] # Absent /\ r \in DOMAIN terminal
        /\ \A q \in moved : q # r /\ ~Under(r, q)
    BY DEF Reconciling, Settled
  <2>2. Binding(r, terminal[r])
    BY <2>1 DEF Reconciling, Binding, Live
  <2>3. p \in DOMAIN terminal /\ (p = r \/ Own(r, p))
    BY DEF Subtree, Own
  <2>4. Whole(p)
    BY <2>1, <2>2, <2>3 DEF IInv, VisitedInv
  <2>5. p \notin moved
    BY <2>1, <2>3 DEF Own
  <2> QED BY <2>4, <2>5 DEF Whole
<1> QED BY <1>1, InvariantHolds, PTL
\* An expansion never nests in itself and never goes past the depth cap,
\* whatever archives hold, and whatever earlier runs left live.
THEOREM NoSelfNestingHolds == Spec => []NoSelfNesting
<1>1. Init => NestInv
  <2> SUFFICES ASSUME Init PROVE NestInv
    OBVIOUS
  <2>1. agenda = <<>> /\ held = None
    BY DEF Init
  <2> QED BY <2>1, NestedAlone DEF NestInv, HeldIsOld
<1>2. IInv /\ NestInv => NoSelfNesting
  <2> SUFFICES ASSUME IInv, NestInv PROVE NoSelfNesting
    OBVIOUS
  <2>1. DOMAIN agenda = 1..Len(agenda) /\ Nested(agenda)
    <3>1. agenda \in Seq(Task(cur))
      BY TypedAgenda
    <3> QED BY <3>1, LenProperties DEF NestInv
  <2>2. ASSUME NEW i \in Opened PROVE i \in 1..Len(agenda) /\ 0 < i /\ agenda[i].op = "close"
    BY <2>1 DEF Opened
  <2>3. {agenda[i].content : i \in Opened} = Outer(agenda, 0)
    <3>1. Opened = {k \in 1..Len(agenda) : 0 < k /\ agenda[k].op = "close"}
      BY <2>1, <2>2 DEF Opened
    <3> QED BY <3>1 DEF Outer
  <2>4. ASSUME NEW i \in Opened, NEW j \in Opened, i < j
        PROVE  Under(agenda[j].path, agenda[i].path) /\ agenda[i].content # agenda[j].content
    <3>1. Fits(agenda, i)
      BY <2>1, <2>2 DEF Nested
    <3>2. Under(agenda[j].path, agenda[i].path)
      BY <2>2, <2>4, <3>1 DEF Fits
    <3>3. agenda[i].content \notin Outer(agenda, i)
      BY <2>2, <3>1 DEF Fits
    <3>4. agenda[j].content \in Outer(agenda, i)
      BY <2>2, <2>4 DEF Outer
    <3> QED BY <3>2, <3>3, <3>4
  <2>5. Cardinality(Outer(agenda, 0)) <= MaxDepth + 1
    BY <2>1 DEF Nested
  <2>6. ASSUME NEW i \in Opened, held # None, held.record.status \in Bearing,
               held.record.hash = agenda[i].content
        PROVE  held.path \in DOMAIN terminal /\ terminal[held.path] = held.record
    <3>1. held.record.hash \in Outer(agenda, 0)
      BY <2>3, <2>6
    <3> QED BY <2>6, <3>1 DEF NestInv, HeldIsOld
  <2> QED BY <2>3, <2>4, <2>5, <2>6 DEF NoSelfNesting
<1> QED BY <1>1, <1>2, InvariantHolds, NestInvStep, PTL DEF Spec
=============================================================================
