-------------------------- MODULE RetirementProofs --------------------------
(***************************************************************************)
(* What is dropped is retired: the proof of Expansion's DroppedAreRetired  *)
(* for archives whose members lie apart (Separate), while no run is        *)
(* killed.  While an entry is expanded its tree holds records of an        *)
(* earlier life and of this one side by side.  The invariant is about      *)
(* neither: it is about the bond, which says, for each path, the content   *)
(* it will hold live once every open container is closed and what this     *)
(* expansion did not emit is retired.  In the bond every path is owed to   *)
(* the nearest path above it, at every step.                               *)
(***************************************************************************)
EXTENDS ExpansionProofs

-----------------------------------------------------------------------------
(* The bond *)

\* The records, with the one in hand.
Recorded(h, t) == IF h = None THEN t ELSE With(t, h.path, h.record)

\* A record that may own others.
Stands(rec) == /\ rec.hash # None
               /\ rec.status \in Bearing \cup {"capped"} \/ HasLeg(rec.hash)

\* The content a path holds on record.
Holding(f) == [p \in Seq(Name) |-> IF p \in DOMAIN f /\ Stands(f[p]) THEN f[p].hash ELSE None]

\* What the expansion has emitted, with the record in hand.
Emitted(cl, h) == IF cl = None THEN {}
                  ELSE cl.emitted \cup {p \in Below(cl.prefix) : h # None /\ p = h.path}

\* The container at p is open and holds c.
Closing(a, p, c) == \E i \in 1..Len(a) : a[i].op = "close" /\ a[i].path = p /\ a[i].content = c
Shut(a) == {p \in Seq(Name) : Due(a, p)}
Once(a) == \A p, c, d : Closing(a, p, c) /\ Closing(a, p, d) => c = d

\* The paths below r that will be retired unless they are emitted.
Lost(a, cl, h, r) ==
  IF cl # None THEN Below(r) \ Emitted(cl, h)
  ELSE IF a = <<>> THEN {}
  ELSE IF Head(a).op = "leg" THEN Below(r)
  ELSE IF Head(a).op = "retire" THEN Head(a).left
  ELSE {}

BondOf(a, lost, old) ==
  [p \in Seq(Name) |-> IF Due(a, p) THEN CHOOSE c \in Content : Closing(a, p, c)
                       ELSE IF p \in lost THEN None ELSE old[p]]

Now == Recorded(held, terminal)
Old == Holding(Now)
Emit == Emitted(claim, held)
Bond == BondOf(agenda, Lost(agenda, claim, held, cur), Old)

-----------------------------------------------------------------------------
(* Owners *)

\* The content c at o holds q, with the content h.
HoldsAt(c, o, q, h) ==
  \/ \E i \in DOMAIN Members[c] : q = o \o Members[c][i].name /\ h = Members[c][i].content
  \/ HasLeg(c) /\ q = LegPath(o, c) /\ h = c

\* m is above q, and between them is no entry and nothing the bond B knows.
Nearest(B, m, q) ==
  /\ Under(m, q)
  /\ \A n \in Seq(Name) : Under(m, n) /\ Under(n, q) => n \notin Roots /\ B[n] = None

\* q is owed to the nearest path above it, or that is one of X.
Fine(B, X, q) ==
  \/ q \in Roots
  \/ \A m \in Seq(Name) : B[m] # None /\ Nearest(B, m, q) => m \in X \/ HoldsAt(B[m], m, q, B[q])

\* So is whatever is nearest to r.
Strict(B, r) ==
  \A q \in Seq(Name) :
    B[q] # None /\ Nearest(B, r, q) => q \in Roots \/ (B[r] # None /\ HoldsAt(B[r], r, q, B[q]))

\* The entries that reconcile nothing: a plain source that was borrowed, one
\* whose leg was kept from its namespace, and one that could not be loaded.
LaxIn(f) == {m \in Roots : /\ m \in DOMAIN f /\ f[m].hash # None
                           /\ \/ f[m].status = "borrowed" /\ ~HasLeg(f[m].hash)
                              \/ HasLeg(f[m].hash) /\ (f[m].status = "failed" \/ EverOccupied(m))}
Lax == LaxIn(Now)
Exempt == {m \in Lax : ~Due(agenda, m)}

-----------------------------------------------------------------------------
(* The tasks that are still to come *)

\* Where the record of a task will be, and with which content.
Spot(t) == IF t.op = "unit" THEN t.path
           ELSE IF t.op = "leg" THEN LegPath(t.path, t.content) ELSE t.path \o t.member.name
What(t) == IF t.op = "member" THEN t.member.content ELSE t.content

Comparable(p, q) == p = q \/ Under(p, q) \/ Under(q, p)

\* A readable member whose key is claimed will be refused as an alias.
Spent(cl, t) == t.op = "member" /\ Readable(t.member) /\ KeyOf(Spot(t)) \in cl.claimed
Pending(cl, t) == t.op \in {"unit", "leg", "member"} /\ ~Spent(cl, t)

\* The record of t stays clear of what the earlier task s will do.
Clear(s, t) ==
  /\ s.op \in {"unit", "leg", "member"} =>
       /\ ~Under(Spot(s), Spot(t)) /\ ~Under(Spot(t), Spot(s))
       /\ Spot(s) = Spot(t) => \A o \in {s, t} : o.op = "member" /\ Readable(o.member)
  /\ s.op = "close" => ~Comparable(s.path, Spot(t))
  /\ s.op = "member" => \A n \in DOMAIN CollisionName :
                          ~Comparable(Append(s.path, CollisionName[n]), Spot(t))

Cleared(a, cl) == \A i, k \in 1..Len(a) : i < k /\ Pending(cl, a[k]) => Clear(a[i], a[k])

\* Of the paths in M, none below o is comparable to x.
Alone(M, o, x) == \A e \in M : Under(o, e) => ~Comparable(e, x)

\* A member, and a member's unit, is held by a container that is closed later,
\* and between the two, and below the member, nothing is emitted or open.
Vowed(a, cl, M) ==
  \A k \in 1..Len(a) : Pending(cl, a[k]) /\ a[k].op # "leg" =>
    \E j \in 1..Len(a) :
      /\ k < j /\ a[j].op = "close"
      /\ HoldsAt(a[j].content, a[j].path, Spot(a[k]), What(a[k]))
      /\ Alone(M, a[j].path, Spot(a[k]))

\* A member's container is still open.
Homed(a) == \A k \in 1..Len(a) : a[k].op = "member" =>
              \E j \in 1..Len(a) : k < j /\ a[j].op = "close" /\ a[j].path = a[k].path

Bare(a) == \A k \in 1..Len(a) : a[k].op \notin {"unit", "leg"}

TasksInv ==
  claim # None => /\ Bare(Tail(agenda)) /\ Homed(agenda)
                  /\ Cleared(agenda, claim) /\ Vowed(agenda, claim, Emit \cup Shut(agenda))

\* A leg's owner is on record.
LegInv ==
  agenda # <<>> /\ Head(agenda).op = "leg" =>
    LET t == Head(agenda)
    IN /\ t.path = cur \/ (claim # None /\ t.path \in Emit)
       /\ ~Due(agenda, t.path) /\ Old[t.path] = t.content
       /\ Alone(Emit \cup Shut(agenda), t.path, Spot(t))

-----------------------------------------------------------------------------
(* The invariant *)

Shapely == \A q \in DOMAIN Now : /\ Now[q].status \in Bearing => Now[q].hash # None
                                 /\ Now[q].status = "removed" => Now[q].hash = None

BondFine == \A q \in Seq(Name) : Bond[q] # None => Fine(Bond, Exempt, q)

\* A subtree of the entry that this expansion has not touched.
Untouched(x) == \A e \in Emit : e \notin Tree(x)

OldFine ==
  claim # None \/ (agenda # <<>> /\ Head(agenda).op = "leg") =>
    \A x \in Below(cur), q \in Seq(Name) :
      Untouched(x) /\ Old[x] # None /\ Under(x, q) /\ Old[q] # None => Fine(Old, Lax, q)

\* The outcome of r goes through a reconciliation.
Settling(r, f) ==
  LET c == source[r]
  IN /\ r \notin moved /\ c # Absent /\ Kind[c] # "barred"
     /\ HasLeg(c) => ~EverOccupied(r)
     /\ r \in DOMAIN f /\ f[r].status = "borrowed" => HasLeg(c)

CurStrict ==
  cur # None =>
    \/ claim = None /\ agenda # <<>> /\ Head(agenda).op = "unit"
    \/ agenda = <<>> /\ ~Settling(cur, Now)
    \/ Strict(Bond, cur)

VisitedStrict == \A r \in visited : Settling(r, Now) => Strict(Bond, r)

\* Whoever was walked has a record, or has it to come.
RecordsInv ==
  /\ cur # None => \/ cur \in DOMAIN Now \/ Due(agenda, cur)
                   \/ agenda # <<>> /\ Head(agenda).op = "unit" /\ Head(agenda).path = cur
  /\ \A w \in walked : w \in DOMAIN Now \/ w \in queue \/ w = cur

Sound == /\ Shapely /\ TasksInv /\ LegInv /\ RecordsInv
         /\ BondFine /\ OldFine /\ CurStrict /\ VisitedStrict

DropInv == killed = "never" => Sound

-----------------------------------------------------------------------------
(* Paths that are apart *)

LEMMA ApartBelow ==
  ASSUME NEW x \in Seq(Name), NEW y \in Seq(Name), ~Comparable(x, y), NEW e \in Tree(x)
  PROVE  ~Comparable(e, y)
<1>1. e \in Seq(Name) /\ (e = x \/ Under(x, e))
  BY DEF Tree
<1>2. e = y => x = y \/ Under(x, y)
  BY <1>1
<1>3. Under(e, y) => Under(x, y)
  BY <1>1, UnderIsOrder, Zenon
<1>4. Under(y, e) /\ Under(x, e) => x = y \/ Under(x, y) \/ Under(y, x)
  BY <1>1, UnderIsOrder, Zenon
<1> QED BY <1>1, <1>2, <1>3, <1>4 DEF Comparable

LEMMA Symmetric ==
  \A p, q : Comparable(p, q) <=> Comparable(q, p)
BY DEF Comparable

\* A tree reaches all that lies under its paths.
LEMMA TreeIs ==
  ASSUME NEW x \in Seq(Name), NEW p \in Seq(Name), NEW q \in Seq(Name), Under(p, q)
  PROVE  /\ p \in Tree(x) => q \in Tree(x) /\ q \in Below(x)
         /\ q \in Below(x) => p = x \/ Under(p, x) \/ p \in Below(x)
         /\ x \in Tree(x) /\ Below(x) \subseteq Tree(x)
<1>1. p \in Tree(x) => Under(x, q)
  BY UnderIsOrder, Zenon DEF Tree
<1>2. q \in Below(x) => p = x \/ Under(p, x) \/ Under(x, p)
  BY UnderIsOrder, Zenon DEF Below
<1> QED BY <1>1, <1>2 DEF Tree, Below

-----------------------------------------------------------------------------
(* Where the bond is fine *)

\* What lies outside the tree of x does not depend on what is in it.
LEMMA FineOutside ==
  ASSUME NEW x \in Seq(Name), NEW B, NEW D, NEW X, NEW Y, NEW q \in Seq(Name), q \notin Tree(x),
         \A p \in Seq(Name) : p \notin Tree(x) => D[p] = B[p],
         \A p \in Seq(Name) : p \notin Tree(x) /\ p \in X => p \in Y,
         Fine(B, X, q)
  PROVE  Fine(D, Y, q)
<1>1. SUFFICES ASSUME q \notin Roots, NEW m \in Seq(Name), D[m] # None, Nearest(D, m, q)
               PROVE  m \in Y \/ HoldsAt(D[m], m, q, D[q])
  BY DEF Fine
<1>2. \A n \in Seq(Name) : Under(n, q) => n \notin Tree(x)
  BY TreeIs
<1>3. Under(m, q) /\ m \notin Tree(x) /\ D[m] = B[m] /\ D[q] = B[q]
  BY <1>1, <1>2 DEF Nearest
<1>4. Nearest(B, m, q)
  BY <1>1, <1>2 DEF Nearest
<1>5. m \in X \/ HoldsAt(B[m], m, q, B[q])
  BY <1>1, <1>3, <1>4 DEF Fine
<1> QED BY <1>3, <1>5

\* What lies below x, which owns something, depends on the tree of x alone.
LEMMA FineInside ==
  ASSUME NEW x \in Seq(Name), NEW B, NEW D, NEW X, NEW Y, NEW q \in Below(x), D[x] # None,
         \A p \in Tree(x) : D[p] = B[p],
         \A p \in Tree(x) : p \in X => p \in Y,
         Fine(B, X, q)
  PROVE  Fine(D, Y, q)
<1>1. SUFFICES ASSUME q \notin Roots, NEW m \in Seq(Name), D[m] # None, Nearest(D, m, q)
               PROVE  m \in Y \/ HoldsAt(D[m], m, q, D[q])
  BY DEF Fine
<1>2. q \in Seq(Name) /\ Under(x, q) /\ Under(m, q) /\ q \in Tree(x)
  BY <1>1 DEF Below, Tree, Nearest
<1>3. m \in Tree(x)
  <2>1. m = x \/ Under(m, x) \/ Under(x, m)
    BY <1>2, UnderIsOrder, Zenon
  <2>2. ~Under(m, x)
    BY <1>1, <1>2 DEF Nearest
  <2> QED BY <2>1, <2>2 DEF Tree
<1>4. \A n \in Seq(Name) : Under(m, n) => n \in Tree(x)
  BY <1>3, TreeIs
<1>5. Nearest(B, m, q)
  BY <1>1, <1>4 DEF Nearest
<1>6. m \in X \/ HoldsAt(B[m], m, q, B[q])
  BY <1>1, <1>3, <1>5 DEF Fine
<1> QED BY <1>2, <1>3, <1>6

\* A path that is held by the nearest path above it.
LEMMA FineHeld ==
  ASSUME NEW o \in Seq(Name), NEW x \in Seq(Name), NEW D, Under(o, x), D[o] # None,
         HoldsAt(D[o], o, x, D[x]),
         \A e \in Seq(Name) : Under(o, e) /\ Under(e, x) => D[e] = None
  PROVE  /\ \A Y : Fine(D, Y, x)
         /\ \A m \in Seq(Name) : Nearest(D, m, x) /\ (D[m] # None \/ ~Under(o, m)) => m = o
<1>1. ASSUME NEW m \in Seq(Name), Nearest(D, m, x), D[m] # None \/ ~Under(o, m)
      PROVE  m = o
  <2>1. m = o \/ Under(m, o) \/ Under(o, m)
    BY <1>1, UnderIsOrder, Zenon DEF Nearest
  <2>2. ~Under(m, o)
    BY <1>1 DEF Nearest
  <2>3. ~Under(o, m)
    BY <1>1 DEF Nearest
  <2> QED BY <2>1, <2>2, <2>3
<1> QED BY <1>1 DEF Fine

\* Strictness at r does not depend on a tree that r is not in, if what is
\* held in that tree is not nearest to r, or is r's.
LEMMA StrictOutside ==
  ASSUME NEW x \in Seq(Name), NEW r \in Seq(Name), r \notin Tree(x), NEW B, NEW D,
         \A p \in Seq(Name) : p \notin Tree(x) => D[p] = B[p],
         Strict(B, r),
         \A q \in Tree(x) : D[q] # None /\ Nearest(D, r, q) =>
           q \in Roots \/ (D[r] # None /\ HoldsAt(D[r], r, q, D[q]))
  PROVE  Strict(D, r)
<1>1. SUFFICES ASSUME NEW q \in Seq(Name), D[q] # None, Nearest(D, r, q)
               PROVE  q \in Roots \/ (D[r] # None /\ HoldsAt(D[r], r, q, D[q]))
  BY DEF Strict
<1>2. CASE q \in Tree(x)
  BY <1>1, <1>2
<1>3. CASE q \notin Tree(x)
  <2>1. \A n \in Seq(Name) : Under(n, q) => n \notin Tree(x)
    BY <1>3, TreeIs
  <2>2. Nearest(B, r, q)
    BY <1>1, <2>1 DEF Nearest
  <2>3. B[q] # None /\ D[q] = B[q] /\ D[r] = B[r]
    BY <1>1, <1>3
  <2> QED BY <2>2, <2>3 DEF Strict
<1> QED BY <1>2, <1>3

-----------------------------------------------------------------------------
(* The containers that are open *)

LEMMA DueIs ==
  \A a, p : Due(a, p) <=> \E c : Closing(a, p, c)
BY DEF Due, Closing

LEMMA OnceIs ==
  ASSUME NEW r, NEW a \in Seq(Task(r)), Nested(a)
  PROVE  /\ Once(a)
         /\ \A p, c : Closing(a, p, c) => p \in Tree(r) /\ c \in Content /\ Kind[c] = "container"
         /\ \A p : Due(a, p) => p \in Shut(a) /\ p \in Tree(r)
<1>1. Len(a) \in Nat /\ \A i \in 1..Len(a) : a[i] \in Task(r) /\ Fits(a, i)
  BY LenProperties, ElementOfSeq DEF Nested
<1>2. \A i \in 1..Len(a) : a[i].op = "close" =>
        a[i].path \in Tree(r) /\ a[i].path \in Seq(Name) /\ a[i].content \in Content
  BY <1>1, TaskIs, Zenon DEF Tree
<1>3. \A p, c : Closing(a, p, c) => p \in Tree(r) /\ c \in Content /\ Kind[c] = "container"
  BY <1>1, <1>2 DEF Closing, Fits
<1>4. ASSUME NEW i \in 1..Len(a), NEW j \in 1..Len(a), a[i].op = "close", a[j].op = "close",
             a[i].path = a[j].path
      PROVE  i = j
  <2>1. i < j => Under(a[j].path, a[i].path)
    BY <1>1, <1>4 DEF Fits
  <2>2. j < i => Under(a[i].path, a[j].path)
    BY <1>1, <1>4 DEF Fits
  <2>3. ~Under(a[i].path, a[i].path)
    BY <1>2, <1>4, UnderIsOrder
  <2>4. i < j \/ j < i \/ i = j
    BY <1>1
  <2> QED BY <1>4, <2>1, <2>2, <2>3, <2>4
<1>5. Once(a)
  BY <1>4 DEF Once, Closing
<1> QED BY <1>2, <1>3, <1>5, Zenon DEF Due, Shut

LEMMA ClosingConcat ==
  ASSUME NEW T, NEW s \in Seq(T), NEW a \in Seq(T), NEW p, NEW c
  PROVE  Closing(s \o a, p, c) <=> Closing(s, p, c) \/ Closing(a, p, c)
<1> DEFINE b == s \o a
<1>1. /\ Len(s) \in Nat /\ Len(a) \in Nat /\ Len(b) = Len(s) + Len(a)
      /\ \A i \in 1..Len(s) + Len(a) : b[i] = IF i <= Len(s) THEN s[i] ELSE a[i - Len(s)]
  BY LenProperties, ConcatProperties
<1> HIDE DEF b
<1>2. \A i \in 1..Len(s) : i \in 1..Len(b) /\ b[i] = s[i]
  BY <1>1
<1>3. ASSUME NEW i \in 1..Len(a) PROVE Len(s) + i \in 1..Len(b) /\ b[Len(s) + i] = a[i]
  <2>1. /\ Len(s) + i \in 1..Len(s) + Len(a) /\ ~(Len(s) + i <= Len(s))
        /\ (Len(s) + i) - Len(s) = i
    BY <1>1
  <2> QED BY <1>1, <2>1
<1>4. ASSUME NEW i \in 1..Len(b)
      PROVE  \/ i \in 1..Len(s) /\ b[i] = s[i]
             \/ i - Len(s) \in 1..Len(a) /\ b[i] = a[i - Len(s)]
  BY <1>1
<1>5. Closing(b, p, c) <=> Closing(s, p, c) \/ Closing(a, p, c)
  <2>1. ASSUME Closing(s, p, c) PROVE Closing(b, p, c)
    BY <1>2, <2>1 DEF Closing
  <2>2. ASSUME Closing(a, p, c) PROVE Closing(b, p, c)
    <3>1. PICK i \in 1..Len(a) : a[i].op = "close" /\ a[i].path = p /\ a[i].content = c
      BY <2>2 DEF Closing
    <3> QED BY <1>3, <3>1 DEF Closing
  <2>3. ASSUME Closing(b, p, c) PROVE Closing(s, p, c) \/ Closing(a, p, c)
    <3>1. PICK i \in 1..Len(b) : b[i].op = "close" /\ b[i].path = p /\ b[i].content = c
      BY <2>3 DEF Closing
    <3> QED BY <1>4, <3>1 DEF Closing
  <2> QED BY <2>1, <2>2, <2>3
<1> QED BY <1>5 DEF b

LEMMA ClosingOne ==
  /\ \A p, c : ~Closing(<<>>, p, c)
  /\ \A t, p, c : Closing(<<t>>, p, c) <=> t.op = "close" /\ t.path = p /\ t.content = c
<1>1. \A p, c : ~Closing(<<>>, p, c)
  BY EmptySeq DEF Closing
<1>2. ASSUME NEW t, NEW p, NEW c
      PROVE  Closing(<<t>>, p, c) <=> t.op = "close" /\ t.path = p /\ t.content = c
  <2>1. Len(<<t>>) = 1 /\ <<t>>[1] = t /\ 1..1 = {1}
    OBVIOUS
  <2> QED BY <2>1 DEF Closing
<1> QED BY <1>1, <1>2

LEMMA ClosingPushed ==
  ASSUME NEW r, NEW a \in Seq(Task(r)), NEW t \in Task(r)
  PROVE  /\ <<t>> \o a \in Seq(Task(r)) /\ <<t>> \o a # <<>>
         /\ Head(<<t>> \o a) = t /\ Tail(<<t>> \o a) = a
         /\ \A p, c : Closing(<<t>> \o a, p, c) <=>
              Closing(a, p, c) \/ (t.op = "close" /\ t.path = p /\ t.content = c)
<1>1. <<t>> \in Seq(Task(r))
  OBVIOUS
<1>2. \A p, c : Closing(<<t>> \o a, p, c) <=> Closing(<<t>>, p, c) \/ Closing(a, p, c)
  BY <1>1, ClosingConcat
<1>3. /\ <<t>> \o a \in Seq(Task(r)) /\ <<t>> \o a # <<>>
      /\ Head(<<t>> \o a) = t /\ Tail(<<t>> \o a) = a
  OBVIOUS
<1> QED BY <1>2, <1>3, ClosingOne

LEMMA ClosingTail ==
  ASSUME NEW r, NEW a \in Seq(Task(r)), a # <<>>, Nested(a)
  PROVE  /\ \A p, c : Closing(a, p, c) <=>
              \/ Closing(Tail(a), p, c)
              \/ Head(a).op = "close" /\ Head(a).path = p /\ Head(a).content = c
         /\ Head(a).op = "close" => ~Due(Tail(a), Head(a).path)
<1>1. a = <<Head(a)>> \o Tail(a) /\ Head(a) \in Task(r) /\ Tail(a) \in Seq(Task(r))
  BY HeadTailProperties
<1>2. \A p, c : Closing(a, p, c) <=>
        Closing(Tail(a), p, c) \/ (Head(a).op = "close" /\ Head(a).path = p /\ Head(a).content = c)
  <2>1. \A p, c : Closing(<<Head(a)>> \o Tail(a), p, c) <=>
          Closing(Tail(a), p, c) \/ (Head(a).op = "close" /\ Head(a).path = p /\ Head(a).content = c)
    BY <1>1, ClosingPushed
  <2> QED BY <1>1, <2>1, Zenon
<1>3. ASSUME Head(a).op = "close", Due(Tail(a), Head(a).path) PROVE FALSE
  <2>1. PICK i \in 1..Len(Tail(a)) : Tail(a)[i].op = "close" /\ Tail(a)[i].path = Head(a).path
    BY <1>3 DEF Due
  <2>2. /\ Len(a) \in Nat \ {0} /\ Len(Tail(a)) = Len(a) - 1 /\ Tail(a)[i] = a[i + 1]
        /\ Head(a) = a[1] /\ a[i + 1] \in Task(r)
    <3>1. Len(a) \in Nat \ {0} /\ Len(Tail(a)) = Len(a) - 1
      BY EmptySeq, LenProperties, HeadTailProperties
    <3>2. i + 1 \in 1..Len(a) /\ i \in 1..Len(a) - 1
      BY <3>1
    <3> QED BY <3>1, <3>2, HeadTailProperties, ElementOfSeq
  <2>3. 1 \in 1..Len(a) /\ i + 1 \in 1..Len(a) /\ 1 < i + 1
    BY <2>2
  <2>4. Under(a[i + 1].path, a[1].path)
    BY <1>3, <2>1, <2>2, <2>3 DEF Nested, Fits
  <2>5. a[1].path \in Seq(Name)
    BY <1>1, <1>3, <2>2, TaskIs DEF Tree
  <2> QED BY <2>1, <2>2, <2>4, <2>5, UnderIsOrder
<1> QED BY <1>2, <1>3

LEMMA ClosingTasks ==
  ASSUME NEW r \in Seq(Name), NEW u \in Task(r), u.op = "unit", NEW a \in Seq(Task(r))
  PROVE  /\ Tasks(u) \o a \in Seq(Task(r))
         /\ \A p, c : Closing(Tasks(u) \o a, p, c) <=>
              Closing(a, p, c) \/ (u.path = p /\ u.content = c)
<1> DEFINE s == Tasks(u)
           n == Len(Members[u.content])
<1>1. /\ s \in Seq(Task(r)) /\ Len(s) = n + 1 /\ n \in Nat
      /\ \A i \in 1..n : s[i].op = "member"
      /\ s[n + 1].op = "close" /\ s[n + 1].path = u.path /\ s[n + 1].content = u.content
  BY TasksAre
<1>2. Tasks(u) \o a \in Seq(Task(r))
  BY <1>1, ConcatProperties
<1>3. \A p, c : Closing(s \o a, p, c) <=> Closing(s, p, c) \/ Closing(a, p, c)
  BY <1>1, ClosingConcat
<1> HIDE DEF s, n
<1>4. ASSUME NEW p, NEW c PROVE Closing(s, p, c) <=> u.path = p /\ u.content = c
  <2>1. n + 1 \in 1..Len(s) /\ \A i \in 1..Len(s) : i \in 1..n \/ i = n + 1
    BY <1>1
  <2> QED BY <1>1, <2>1 DEF Closing
<1> QED BY <1>2, <1>3, <1>4 DEF s

LEMMA ClosingCapped ==
  ASSUME NEW r, Formed(agenda, TRUE, r), Head(agenda).op = "member", Nested(agenda)
  PROVE  \A p, c : Closing(Capped, p, c) <=> Closing(agenda, p, c)
<1>1. PICK m \in 0..Len(agenda) :
        /\ Len(Capped) = Len(agenda) - m
        /\ \A k \in 1..Len(Capped) : Same(agenda[m + k], Capped[k])
  BY CappedIs
<1>2. agenda \in Seq(Task(r)) /\ Len(agenda) \in Nat
  BY LenProperties DEF Formed
<1>3. ASSUME NEW p, NEW c, Closing(Capped, p, c) PROVE Closing(agenda, p, c)
  <2>1. PICK k \in 1..Len(Capped) :
          Capped[k].op = "close" /\ Capped[k].path = p /\ Capped[k].content = c
    BY <1>3 DEF Closing
  <2>2. m + k \in 1..Len(agenda)
    BY <1>1, <1>2
  <2>3. /\ agenda[m + k].op = "close" /\ agenda[m + k].path = p
        /\ agenda[m + k].content = c
    <3>1. Same(agenda[m + k], Capped[k])
      BY <1>1
    <3>2. \A s, t : Same(s, t) /\ t.op = "close" =>
            s.op = "close" /\ s.path = t.path /\ s.content = t.content
      BY DEF Same
    <3> QED BY <2>1, <3>1, <3>2, Zenon
  <2> QED BY <2>2, <2>3 DEF Closing
<1>4. ASSUME NEW p, NEW c, Closing(agenda, p, c) PROVE Closing(Capped, p, c)
  <2>1. Due(Capped, p)
    BY <1>4, CappedIs, DueIs
  <2>2. PICK d : Closing(Capped, p, d)
    BY <2>1, DueIs
  <2>3. d = c
    BY <1>2, <1>3, <1>4, <2>2, OnceIs DEF Once
  <2> QED BY <2>2, <2>3
<1> QED BY <1>3, <1>4

-----------------------------------------------------------------------------
(* The bond and the records *)

LEMMA BondIs ==
  ASSUME NEW r, NEW a \in Seq(Task(r)), Nested(a), NEW lost, NEW old, NEW p \in Seq(Name)
  PROVE  /\ \A c : Closing(a, p, c) =>
              BondOf(a, lost, old)[p] = c /\ c \in Content /\ Kind[c] = "container" /\ Due(a, p)
         /\ ~Due(a, p) => BondOf(a, lost, old)[p] = IF p \in lost THEN None ELSE old[p]
<1>1. BondOf(a, lost, old)[p] = IF Due(a, p) THEN CHOOSE c \in Content : Closing(a, p, c)
                                ELSE IF p \in lost THEN None ELSE old[p]
  BY DEF BondOf
<1>2. ASSUME NEW c, Closing(a, p, c)
      PROVE  BondOf(a, lost, old)[p] = c /\ c \in Content /\ Kind[c] = "container" /\ Due(a, p)
  <2>1. c \in Content /\ Kind[c] = "container" /\ Due(a, p)
    BY <1>2, OnceIs, DueIs, Zenon
  <2>2. \A d \in Content : Closing(a, p, d) => d = c
    BY <1>2, OnceIs, Zenon DEF Once
  <2> QED BY <1>1, <1>2, <2>1, <2>2
<1> QED BY <1>1, <1>2

\* Two bonds agree on a path that is open, lost and held alike.
LEMMA BondSame ==
  ASSUME NEW r, NEW a \in Seq(Task(r)), Nested(a), NEW s, NEW b \in Seq(Task(s)), Nested(b),
         NEW lost, NEW old, NEW lost2, NEW old2, NEW p \in Seq(Name),
         \A c : Closing(a, p, c) <=> Closing(b, p, c),
         ~Due(a, p) => (IF p \in lost THEN None ELSE old[p]) = IF p \in lost2 THEN None ELSE old2[p]
  PROVE  BondOf(b, lost2, old2)[p] = BondOf(a, lost, old)[p] /\ (Due(a, p) <=> Due(b, p))
<1>1. Due(a, p) <=> Due(b, p)
  BY DueIs, Zenon
<1>2. CASE Due(a, p)
  <2>1. PICK c : Closing(a, p, c)
    BY <1>2, DueIs, Zenon
  <2>2. BondOf(a, lost, old)[p] = c
    BY <2>1, BondIs
  <2>3. BondOf(b, lost2, old2)[p] = c
    BY <2>1, BondIs
  <2> QED BY <1>1, <2>2, <2>3
<1>3. CASE ~Due(a, p)
  <2>1. BondOf(a, lost, old)[p] = IF p \in lost THEN None ELSE old[p]
    BY <1>3, BondIs
  <2>2. BondOf(b, lost2, old2)[p] = IF p \in lost2 THEN None ELSE old2[p]
    BY <1>1, <1>3, BondIs
  <2>3. (IF p \in lost THEN None ELSE old[p]) = IF p \in lost2 THEN None ELSE old2[p]
    BY <1>3
  <2> QED BY <1>1, <2>1, <2>2, <2>3, Zenon
<1> QED BY <1>2, <1>3

LEMMA PrimedAgenda ==
  ASSUME IInv'
  PROVE  agenda' \in Seq(Task(cur')) /\ Len(agenda') \in Nat
<1>1. agenda' \in Seq(Task(cur'))
  BY DEF IInv, AgendaInv, Formed
<1> QED BY <1>1, LenProperties

LEMMA RecordedIs ==
  ASSUME NEW h \in Held, NEW t
  PROVE  /\ DOMAIN Recorded(h, t) = DOMAIN t \cup {h.path}
         /\ Recorded(h, t)[h.path] = h.record
         /\ \A p \in DOMAIN t : p # h.path => Recorded(h, t)[p] = t[p]
<1>1. h # None
  BY ExpansionAssumption
<1> QED BY <1>1 DEF Recorded, With

LEMMA HoldingIs ==
  ASSUME NEW p \in Seq(Name)
  PROVE  \A f : Holding(f)[p] = IF p \in DOMAIN f /\ Stands(f[p]) THEN f[p].hash ELSE None
BY DEF Holding

\* What a step over the head of the agenda puts on record.
LEMMA NowAfter ==
  ASSUME IInv, IInv', AtTask, Works
  PROVE  /\ Now = terminal
         /\ held' = None => Now' = terminal
         /\ held' # None => /\ held' \in Held /\ held'.path \in Tree(cur)
                            /\ DOMAIN Now' = DOMAIN terminal \cup {held'.path}
                            /\ Now'[held'.path] = held'.record
                            /\ Old'[held'.path] = IF Stands(held'.record) THEN held'.record.hash
                                                  ELSE None
         /\ \A p \in Seq(Name) : held' = None \/ p # held'.path =>
              /\ p \in DOMAIN Now' <=> p \in DOMAIN terminal
              /\ p \in DOMAIN terminal => Now'[p] = terminal[p]
              /\ Old'[p] = Old[p]
              /\ p \in Lax' <=> p \in Lax
              /\ Settling(p, Now)' => Settling(p, Now)
         /\ \A p : EverOccupied(p)' = EverOccupied(p)
<1>1. Now = terminal /\ held = None /\ terminal' = terminal /\ walked' = walked
  BY DEF AtTask, Works, Now, Recorded
<1>2. Now' = Recorded(held', terminal)
  BY <1>1 DEF Now
<1>3. held' = None => Now' = terminal
  BY <1>2 DEF Recorded
<1>4. ASSUME held' # None
      PROVE  /\ held' \in Held /\ held'.path \in Tree(cur)
             /\ DOMAIN Now' = DOMAIN terminal \cup {held'.path}
             /\ Now'[held'.path] = held'.record
             /\ \A p \in DOMAIN terminal : p # held'.path => Now'[p] = terminal[p]
  <2>1. held' \in Held /\ held'.path \in Tree(cur)
    BY <1>1, <1>4 DEF Works, Emits
  <2> QED BY <1>2, <2>1, RecordedIs
<1>5. ASSUME NEW p \in Seq(Name), held' = None \/ p # held'.path
      PROVE  /\ p \in DOMAIN Now' <=> p \in DOMAIN terminal
             /\ p \in DOMAIN terminal => Now'[p] = terminal[p]
  BY <1>3, <1>4, <1>5
<1>6. ASSUME NEW p \in Seq(Name), held' = None \/ p # held'.path
      PROVE  Old'[p] = Old[p]
  <2>1. Old[p] = IF p \in DOMAIN terminal /\ Stands(terminal[p]) THEN terminal[p].hash ELSE None
    BY <1>1, HoldingIs DEF Old
  <2>2. Old'[p] = IF p \in DOMAIN Now' /\ Stands(Now'[p]) THEN Now'[p].hash ELSE None
    BY HoldingIs DEF Old
  <2> QED BY <1>5, <1>6, <2>1, <2>2
<1>7. ASSUME held' # None
      PROVE  Old'[held'.path] = IF Stands(held'.record) THEN held'.record.hash ELSE None
  <2>1. held'.path \in Seq(Name)
    BY <1>4, <1>7 DEF Tree
  <2> QED BY <1>4, <1>7, <2>1, HoldingIs DEF Old
<1>8. \A p : EverOccupied(p)' = EverOccupied(p)
  BY <1>1 DEF EverOccupied
<1>9. ASSUME NEW p \in Seq(Name), held' = None \/ p # held'.path
      PROVE  p \in Lax' <=> p \in Lax
  BY <1>1, <1>5, <1>8, <1>9 DEF Lax, LaxIn
<1>10. ASSUME NEW p \in Seq(Name), held' = None \/ p # held'.path
       PROVE  Settling(p, Now)' => Settling(p, Now)
  <2>1. source' = source /\ moved' = moved
    BY DEF Works
  <2> QED BY <1>1, <1>5, <1>8, <1>10, <2>1 DEF Settling
<1> QED BY <1>1, <1>3, <1>4, <1>5, <1>6, <1>7, <1>8, <1>9, <1>10

LEMMA BondNow ==
  ASSUME IInv, NestInv, NEW p \in Seq(Name)
  PROVE  /\ \A c : Closing(agenda, p, c) =>
              Bond[p] = c /\ c \in Content /\ Kind[c] = "container" /\ Due(agenda, p)
         /\ ~Due(agenda, p) => Bond[p] = IF p \in Lost(agenda, claim, held, cur) THEN None ELSE Old[p]
         /\ claim # None => Lost(agenda, claim, held, cur) = Below(cur) \ Emit
         /\ claim # None /\ p \in Below(cur) /\ Bond[p] # None => p \in Emit \cup Shut(agenda)
<1>1. agenda \in Seq(Task(cur)) /\ Nested(agenda)
  BY TypedAgenda DEF NestInv
<1>2. claim # None => Lost(agenda, claim, held, cur) = Below(cur) \ Emit
  BY DEF Lost, Emit
<1>3. \A c : Closing(agenda, p, c) =>
        Bond[p] = c /\ c \in Content /\ Kind[c] = "container" /\ Due(agenda, p)
  BY <1>1, BondIs DEF Bond
<1>4. ~Due(agenda, p) => Bond[p] = IF p \in Lost(agenda, claim, held, cur) THEN None ELSE Old[p]
  BY <1>1, BondIs DEF Bond
<1> QED BY <1>2, <1>3, <1>4 DEF Shut

LEMMA BondNext ==
  ASSUME IInv', NestInv', NEW p \in Seq(Name)
  PROVE  /\ \A c : Closing(agenda', p, c) =>
              Bond'[p] = c /\ c \in Content /\ Kind[c] = "container" /\ Due(agenda', p)
         /\ ~Due(agenda', p) =>
              Bond'[p] = IF p \in Lost(agenda', claim', held', cur') THEN None ELSE Old'[p]
         /\ claim' # None => Lost(agenda', claim', held', cur') = Below(cur') \ Emit'
         /\ claim' # None /\ p \in Below(cur') /\ Bond'[p] # None => p \in Emit' \cup Shut(agenda')
<1>1. agenda' \in Seq(Task(cur')) /\ Nested(agenda')
  BY PrimedAgenda DEF NestInv
<1>2. claim' # None => Lost(agenda', claim', held', cur') = Below(cur') \ Emit'
  BY DEF Lost, Emit
<1>3. \A c : Closing(agenda', p, c) =>
        Bond'[p] = c /\ c \in Content /\ Kind[c] = "container" /\ Due(agenda', p)
  <2>1. \A lost, old, c : Closing(agenda', p, c) =>
          /\ BondOf(agenda', lost, old)[p] = c
          /\ c \in Content /\ Kind[c] = "container" /\ Due(agenda', p)
    BY <1>1, BondIs
  <2> QED BY <2>1 DEF Bond
<1>4. ~Due(agenda', p) =>
        Bond'[p] = IF p \in Lost(agenda', claim', held', cur') THEN None ELSE Old'[p]
  BY <1>1, BondIs DEF Bond
<1> QED BY <1>2, <1>3, <1>4 DEF Shut

LEMMA EmitAfter ==
  ASSUME IInv, IInv', AtTask, Works
  PROVE  /\ Emit = IF claim = None THEN {} ELSE claim.emitted
         /\ claim' # None =>
              /\ claim'.prefix = cur
              /\ \A p : p \in Emit' <=> p \in claim'.emitted
                                        \/ (p \in Below(cur) /\ held' # None /\ p = held'.path)
<1>1. Emit = IF claim = None THEN {} ELSE claim.emitted
  BY DEF AtTask, Emit, Emitted
<1>2. claim' # None => claim'.prefix = cur
  BY DEF IInv, AgendaInv, Works
<1>3. claim' # None =>
        \A p : p \in Emit' <=> p \in claim'.emitted
                               \/ (p \in Below(cur) /\ held' # None /\ p = held'.path)
  BY <1>2 DEF Emit, Emitted
<1> QED BY <1>1, <1>2, <1>3

\* Under the claim, a path that is neither written nor opened keeps its bond.
LEMMA NestedBond ==
  ASSUME IInv, NestInv, IInv', NestInv', AtTask, Works, claim # None, claim' # None,
         NEW p \in Seq(Name),
         \A c : Closing(agenda', p, c) <=> Closing(agenda, p, c),
         p \in Emit' <=> p \in Emit,
         held' = None \/ p # held'.path
  PROVE  /\ Bond'[p] = Bond[p] /\ (Due(agenda, p) <=> Due(agenda', p))
         /\ p \in Exempt' <=> p \in Exempt
<1>1. Due(agenda, p) <=> Due(agenda', p)
  BY DueIs, Zenon
<1>2. Old'[p] = Old[p] /\ (p \in Lax' <=> p \in Lax)
  BY NowAfter
<1>3. cur' = cur
  BY DEF Works
<1>4. Bond'[p] = Bond[p]
  <2>1. agenda \in Seq(Task(cur)) /\ Nested(agenda) /\ agenda' \in Seq(Task(cur')) /\ Nested(agenda')
    BY TypedAgenda, PrimedAgenda DEF NestInv
  <2>2. (IF p \in Lost(agenda, claim, held, cur) THEN None ELSE Old[p])
          = IF p \in Lost(agenda', claim', held', cur') THEN None ELSE Old'[p]
    BY <1>2, <1>3, BondNow, BondNext
  <2> QED BY <2>1, <2>2, BondSame DEF Bond
<1> QED BY <1>1, <1>2, <1>4 DEF Exempt

-----------------------------------------------------------------------------
(* How a change of the bond keeps every path owed *)

\* A bond that does not change, where more is exempt.
LEMMA SameBond ==
  ASSUME NEW B, NEW D, NEW X, NEW Y, \A p \in Seq(Name) : D[p] = B[p],
         \A p \in Seq(Name) : D[p] # None /\ p \in X => p \in Y
  PROVE  /\ \A q \in Seq(Name) : Fine(B, X, q) => Fine(D, Y, q)
         /\ \A r \in Seq(Name) : Strict(B, r) => Strict(D, r)
<1>1. \A m, q \in Seq(Name) : Nearest(D, m, q) => Nearest(B, m, q)
  BY DEF Nearest
<1>2. ASSUME NEW q \in Seq(Name), Fine(B, X, q) PROVE Fine(D, Y, q)
  BY <1>1, <1>2 DEF Fine
<1>3. ASSUME NEW r \in Seq(Name), Strict(B, r) PROVE Strict(D, r)
  BY <1>1, <1>3 DEF Strict
<1> QED BY <1>2, <1>3

\* The bond B becomes D by a change in the tree of x, which is held by the
\* nearest path o above it.
Regrowth(o, x, B, D, X, Y) ==
  /\ \A p \in Seq(Name) : p \notin Tree(x) => D[p] = B[p]
  /\ \A p \in Seq(Name) : p \notin Tree(x) /\ p \in X => p \in Y
  /\ D[o] # None /\ HoldsAt(D[o], o, x, D[x]) /\ D[x] # None
  /\ \A e \in Seq(Name) : Under(o, e) /\ Under(e, x) => D[e] = None
  /\ \A q \in Below(x) : D[q] # None => Fine(D, Y, q)
  /\ \A q \in Seq(Name) : B[q] # None => Fine(B, X, q)

LEMMA Regrown ==
  ASSUME NEW o \in Seq(Name), NEW x \in Seq(Name), Under(o, x), NEW B, NEW D, NEW X, NEW Y,
         Regrowth(o, x, B, D, X, Y)
  PROVE  /\ \A q \in Seq(Name) : D[q] # None => Fine(D, Y, q)
         /\ \A r \in Seq(Name) : ~Under(o, r) /\ Strict(B, r) => Strict(D, r)
<1>1. /\ Fine(D, Y, x)
      /\ \A m \in Seq(Name) : Nearest(D, m, x) /\ ~Under(o, m) => m = o
  BY FineHeld DEF Regrowth
<1>2. ASSUME NEW q \in Seq(Name), D[q] # None PROVE Fine(D, Y, q)
  <2>1. CASE q \in Tree(x)
    <3>1. q = x \/ q \in Below(x)
      BY <2>1 DEF Tree, Below
    <3> QED BY <1>1, <1>2, <3>1 DEF Regrowth
  <2>2. CASE q \notin Tree(x)
    <3>1. Fine(B, X, q)
      BY <1>2, <2>2 DEF Regrowth
    <3> QED BY <2>2, <3>1, FineOutside DEF Regrowth
  <2> QED BY <2>1, <2>2
<1>3. ASSUME NEW r \in Seq(Name), ~Under(o, r), Strict(B, r) PROVE Strict(D, r)
  <2>1. r \notin Tree(x)
    BY <1>3, UnderIsOrder, Zenon DEF Tree
  <2>2. ASSUME NEW q \in Tree(x), D[q] # None, Nearest(D, r, q)
        PROVE  D[r] # None /\ HoldsAt(D[r], r, q, D[q])
    <3>1. CASE q = x
      BY <1>1, <1>3, <2>2, <3>1 DEF Regrowth
    <3>2. CASE q # x
      <4>1. q \in Seq(Name) /\ Under(x, q) /\ Under(r, q)
        BY <2>2, <3>2 DEF Tree, Nearest
      <4>2. Under(r, x)
        BY <2>1, <4>1, UnderIsOrder, Zenon DEF Tree
      <4> QED BY <2>2, <4>1, <4>2 DEF Nearest, Regrowth
    <3> QED BY <3>1, <3>2
  <2> QED BY <1>3, <2>1, <2>2, StrictOutside DEF Regrowth
<1> QED BY <1>2, <1>3

\* Nothing is left below the entry r.
Emptying(r, B, D, X, Y) ==
  /\ \A p \in Seq(Name) : p \notin Tree(r) => D[p] = B[p]
  /\ \A p \in Seq(Name) : p \notin Tree(r) /\ p \in X => p \in Y
  /\ \A p \in Below(r) : D[p] = None
  /\ \A q \in Seq(Name) : B[q] # None => Fine(B, X, q)

LEMMA Emptied ==
  ASSUME NEW r \in Roots, NEW B, NEW D, NEW X, NEW Y, Emptying(r, B, D, X, Y)
  PROVE  /\ \A q \in Seq(Name) : D[q] # None => Fine(D, Y, q)
         /\ Strict(D, r)
         /\ \A s \in Seq(Name) : s \notin Tree(r) /\ Strict(B, s) => Strict(D, s)
<1>1. r \in Seq(Name)
  BY PlaceIs
<1>2. \A q \in Tree(r) : D[q] # None => q \in Roots
  BY DEF Emptying, Tree, Below
<1>3. ASSUME NEW q \in Seq(Name), D[q] # None PROVE Fine(D, Y, q)
  <2>1. CASE q \in Tree(r)
    BY <1>2, <1>3, <2>1 DEF Fine
  <2>2. CASE q \notin Tree(r)
    <3>1. Fine(B, X, q)
      BY <1>3, <2>2 DEF Emptying
    <3> QED BY <1>1, <2>2, <3>1, FineOutside DEF Emptying
  <2> QED BY <2>1, <2>2
<1>4. Strict(D, r)
  BY DEF Emptying, Strict, Nearest, Below
<1>5. ASSUME NEW s \in Seq(Name), s \notin Tree(r), Strict(B, s) PROVE Strict(D, s)
  BY <1>1, <1>2, <1>5, StrictOutside DEF Emptying
<1> QED BY <1>3, <1>4, <1>5

\* An entry bounds what lies above it: only its own bond changes.
Changing(r, B, D, X, Y) ==
  /\ \A p \in Seq(Name) : p # r => D[p] = B[p]
  /\ \A p \in Seq(Name) : p # r /\ p \in X => p \in Y
  /\ D[r] = None \/ r \in Y
  /\ \A q \in Seq(Name) : B[q] # None => Fine(B, X, q)

LEMMA EntryChanged ==
  ASSUME NEW r \in Roots, NEW B, NEW D, NEW X, NEW Y, Changing(r, B, D, X, Y)
  PROVE  /\ \A q \in Seq(Name) : D[q] # None => Fine(D, Y, q)
         /\ \A s \in Seq(Name) : s # r /\ Strict(B, s) => Strict(D, s)
<1>1. \A m, q \in Seq(Name) : Nearest(D, m, q) => Nearest(B, m, q)
  BY DEF Changing, Nearest
<1>2. ASSUME NEW q \in Seq(Name), D[q] # None PROVE Fine(D, Y, q)
  <2>1. SUFFICES ASSUME q \notin Roots, NEW m \in Seq(Name), D[m] # None, Nearest(D, m, q), m # r
                 PROVE  m \in Y \/ HoldsAt(D[m], m, q, D[q])
    BY DEF Changing, Fine
  <2>2. q # r /\ Fine(B, X, q)
    BY <1>2, <2>1 DEF Changing
  <2> QED BY <1>1, <2>1, <2>2 DEF Changing, Fine
<1>3. ASSUME NEW s \in Seq(Name), s # r, Strict(B, s) PROVE Strict(D, s)
  BY <1>1, <1>3 DEF Changing, Strict
<1> QED BY <1>2, <1>3

\* An entry that is not exempt holds whatever is nearest to it.
LEMMA FineIsStrict ==
  ASSUME NEW r \in Seq(Name), NEW B, NEW X, B[r] # None, r \notin X,
         \A q \in Seq(Name) : B[q] # None => Fine(B, X, q)
  PROVE  Strict(B, r)
BY DEF Strict, Fine

-----------------------------------------------------------------------------
(* What is left of the agenda stays clear *)

LEMMA AlikeIs ==
  ASSUME NEW s, NEW t, Same(s, t)
  PROVE  /\ s.op = t.op
         /\ t.op # "close" => s = t
         /\ t.op = "close" => s.path = t.path /\ s.content = t.content
BY DEF Same

\* Clearness is about the next task's place, not about the flag of a close.
LEMMA ClearAlike ==
  ASSUME NEW s, NEW t, Same(s, t), NEW v, Clear(s, v)
  PROVE  Clear(t, v)
<1>1. s = t \/ (s.op = "close" /\ t.op = "close" /\ s.path = t.path)
  BY DEF Same
<1>2. CASE s = t
  BY <1>2
<1>3. CASE s.op = "close" /\ t.op = "close" /\ s.path = t.path
  BY <1>3 DEF Clear
<1> QED BY <1>1, <1>2, <1>3

LEMMA TasksEnd ==
  ASSUME NEW a, NEW b, NEW m, EndAlike(a, m, b, 0), NEW cl, NEW ce, NEW M, NEW N,
         Homed(a), Cleared(a, cl), Vowed(a, cl, M),
         \A t : Pending(ce, t) => Pending(cl, t),
         \A k \in 1..Len(b), e \in N : Pending(ce, b[k]) /\ e \notin M => ~Comparable(e, Spot(b[k]))
  PROVE  Homed(b) /\ Cleared(b, ce) /\ Vowed(b, ce, N)
<1>1. /\ Len(a) \in Nat /\ Len(b) \in Nat /\ m \in 0..Len(a) /\ Len(a) - m = Len(b)
      /\ \A k \in 1..Len(b) : Same(a[m + k], b[k])
  <2>1. /\ Len(a) \in Nat /\ Len(b) \in Nat /\ m \in 0..Len(a) /\ Len(a) - m = Len(b) - 0
        /\ \A k \in 1..Len(a) - m : Same(a[m + k], b[0 + k])
    BY DEF EndAlike
  <2>2. ASSUME NEW k \in 1..Len(b) PROVE Same(a[m + k], b[k])
    <3>1. k \in 1..Len(a) - m /\ 0 + k = k
      BY <2>1
    <3> QED BY <2>1, <3>1
  <2> QED BY <2>1, <2>2
<1>2. ASSUME NEW k \in 1..Len(b)
      PROVE  /\ m + k \in 1..Len(a) /\ a[m + k].op = b[k].op
             /\ b[k].op # "close" => a[m + k] = b[k]
             /\ \A i \in 1..Len(b) : i < k => m + i < m + k
  <2>1. m + k \in 1..Len(a) /\ \A i \in 1..Len(b) : i < k => m + i < m + k
    BY <1>1
  <2>2. Same(a[m + k], b[k])
    BY <1>1
  <2> QED BY <2>1, <2>2, AlikeIs
<1>3. ASSUME NEW k \in 1..Len(b), NEW j \in 1..Len(a), m + k < j, a[j].op = "close"
      PROVE  \E i \in 1..Len(b) : /\ k < i /\ b[i].op = "close"
                                  /\ b[i].path = a[j].path /\ b[i].content = a[j].content
  <2>1. j - m \in 1..Len(b) /\ k < j - m /\ m + (j - m) = j
    BY <1>1, <1>3
  <2>2. Same(a[j], b[j - m])
    BY <1>1, <2>1
  <2>3. b[j - m].op = "close" /\ b[j - m].path = a[j].path /\ b[j - m].content = a[j].content
    BY <1>3, <2>2, AlikeIs
  <2> QED BY <2>1, <2>3
<1>4. ASSUME NEW k \in 1..Len(b), Pending(ce, b[k])
      PROVE  Pending(cl, a[m + k]) /\ a[m + k] = b[k]
  <2>1. b[k].op # "close"
    BY <1>4 DEF Pending
  <2> QED BY <1>2, <1>4, <2>1
<1>5. Homed(b)
  <2>1. SUFFICES ASSUME NEW k \in 1..Len(b), b[k].op = "member"
                 PROVE  \E j \in 1..Len(b) : k < j /\ b[j].op = "close" /\ b[j].path = b[k].path
    BY DEF Homed
  <2>2. a[m + k].op = "member" /\ a[m + k] = b[k] /\ m + k \in 1..Len(a)
    BY <1>2, <2>1
  <2>3. PICK j \in 1..Len(a) : m + k < j /\ a[j].op = "close" /\ a[j].path = b[k].path
    BY <2>2 DEF Homed
  <2> QED BY <1>3, <2>3
<1>6. Cleared(b, ce)
  <2>1. SUFFICES ASSUME NEW i \in 1..Len(b), NEW k \in 1..Len(b), i < k, Pending(ce, b[k])
                 PROVE  Clear(b[i], b[k])
    BY DEF Cleared
  <2>2. Clear(a[m + i], b[k])
    BY <1>2, <1>4, <2>1 DEF Cleared
  <2>3. Same(a[m + i], b[i])
    BY <1>1
  <2> QED BY <2>2, <2>3, ClearAlike
<1>7. Vowed(b, ce, N)
  <2>1. SUFFICES ASSUME NEW k \in 1..Len(b), Pending(ce, b[k]), b[k].op # "leg"
                 PROVE  \E j \in 1..Len(b) :
                          /\ k < j /\ b[j].op = "close"
                          /\ HoldsAt(b[j].content, b[j].path, Spot(b[k]), What(b[k]))
                          /\ Alone(N, b[j].path, Spot(b[k]))
    BY DEF Vowed
  <2>2. PICK j \in 1..Len(a) : /\ m + k < j /\ a[j].op = "close"
                               /\ HoldsAt(a[j].content, a[j].path, Spot(b[k]), What(b[k]))
                               /\ Alone(M, a[j].path, Spot(b[k]))
    BY <1>2, <1>4, <2>1 DEF Vowed
  <2>3. PICK i \in 1..Len(b) : /\ k < i /\ b[i].op = "close"
                               /\ b[i].path = a[j].path /\ b[i].content = a[j].content
    BY <1>3, <2>2
  <2>4. Alone(N, a[j].path, Spot(b[k]))
    BY <2>1, <2>2 DEF Alone
  <2> QED BY <2>2, <2>3, <2>4
<1> QED BY <1>5, <1>6, <1>7

LEMMA RestAlike ==
  ASSUME IInv, AtTask
  PROVE  /\ EndAlike(agenda, 1, Rest, 0) /\ Len(agenda) \in Nat \ {0} /\ Head(agenda) = agenda[1]
         /\ \A i \in 1..Len(agenda) - 1 : Tail(agenda)[i] = agenda[i + 1]
         /\ Len(Tail(agenda)) = Len(agenda) - 1 /\ Rest \in Seq(Task(cur))
<1>1. PICK owned \in BOOLEAN : Formed(agenda, owned, cur)
  BY DEF IInv, AgendaInv
<1>2. /\ Head(agenda) = agenda[1] /\ Len(agenda) \in Nat \ {0} /\ Rest \in Seq(Task(cur))
      /\ Len(Rest) = Len(agenda) - 1 /\ \A i \in 1..Len(agenda) - 1 : Rest[i] = agenda[i + 1]
  BY <1>1, FirstOf DEF AtTask, Rest
<1>3. /\ 1 \in 0..Len(agenda) /\ 0 \in 0..Len(Rest) /\ Len(agenda) - 1 = Len(Rest) - 0
      /\ Len(Rest) \in Nat
  BY <1>2
<1>4. ASSUME NEW k \in 1..Len(agenda) - 1 PROVE Same(agenda[1 + k], Rest[0 + k])
  <2>1. 1 + k = k + 1 /\ 0 + k = k
    BY <1>2
  <2> QED BY <1>2, <2>1 DEF Same
<1> QED BY <1>2, <1>3, <1>4 DEF EndAlike, Rest

\* After the head, or more, is done: what was emitted or opened meanwhile is
\* clear of what is left, since the head was.
LEMMA TasksLeft ==
  ASSUME IInv, AtTask, claim # None, TasksInv, NEW b, NEW m \in 1..Len(agenda),
         EndAlike(agenda, m, b, 0), NEW ce, NEW N,
         \A t : Pending(ce, t) => Pending(claim, t),
         \A t \in Task(cur) : Pending(ce, t) /\ t.op = "member" /\ Clear(Head(agenda), t) =>
           \A e \in N : e \in Emit \cup Shut(agenda) \/ ~Comparable(e, Spot(t))
  PROVE  /\ Bare(b) /\ Homed(b) /\ Cleared(b, ce) /\ Vowed(b, ce, N)
         /\ \A k \in 1..Len(b) : Pending(ce, b[k]) =>
              b[k] \in Task(cur) /\ b[k].op = "member" /\ Clear(Head(agenda), b[k])
<1>1. /\ Len(agenda) \in Nat \ {0} /\ Head(agenda) = agenda[1] /\ agenda \in Seq(Task(cur))
      /\ \A i \in 1..Len(agenda) - 1 : Tail(agenda)[i] = agenda[i + 1]
      /\ Len(Tail(agenda)) = Len(agenda) - 1
  BY RestAlike, TypedAgenda
<1>2. /\ Len(b) \in Nat /\ Len(agenda) - m = Len(b)
      /\ \A k \in 1..Len(b) : Same(agenda[m + k], b[k])
  <2>1. /\ Len(b) \in Nat /\ Len(agenda) - m = Len(b) - 0
        /\ \A k \in 1..Len(agenda) - m : Same(agenda[m + k], b[0 + k])
    BY DEF EndAlike
  <2>2. ASSUME NEW k \in 1..Len(b) PROVE Same(agenda[m + k], b[k])
    <3>1. k \in 1..Len(agenda) - m /\ 0 + k = k
      BY <1>1, <2>1
    <3> QED BY <2>1, <3>1
  <2>3. Len(agenda) - m = Len(b)
    <3>1. Len(b) - 0 = Len(b)
      BY <2>1
    <3> QED BY <2>1, <3>1
  <2> QED BY <2>1, <2>2, <2>3
<1>3. ASSUME NEW k \in 1..Len(b)
      PROVE  /\ m + k \in 1..Len(agenda) /\ 1 \in 1..Len(agenda) /\ 1 < m + k
             /\ agenda[m + k].op \notin {"unit", "leg"} /\ agenda[m + k] \in Task(cur)
  <2>1. /\ m + k \in 1..Len(agenda) /\ 1 \in 1..Len(agenda) /\ 1 < m + k
        /\ (m + k) - 1 \in 1..Len(Tail(agenda)) /\ ((m + k) - 1) + 1 = m + k
        /\ (m + k) - 1 \in 1..Len(agenda) - 1
    BY <1>1, <1>2
  <2>2. Tail(agenda)[(m + k) - 1] = agenda[m + k]
    BY <1>1, <2>1
  <2>3. agenda[m + k].op \notin {"unit", "leg"}
    BY <2>1, <2>2 DEF TasksInv, Bare
  <2> QED BY <1>1, <2>1, <2>3, ElementOfSeq
<1>4. Bare(b)
  <2>1. \A k \in 1..Len(b) : agenda[m + k].op = b[k].op
    BY <1>2, AlikeIs
  <2> QED BY <1>3, <2>1 DEF Bare
<1>5. ASSUME NEW k \in 1..Len(b), Pending(ce, b[k])
      PROVE  b[k] \in Task(cur) /\ b[k].op = "member" /\ Clear(Head(agenda), b[k])
  <2>1. b[k].op = "member"
    BY <1>4, <1>5 DEF Pending, Bare
  <2>2. Same(agenda[m + k], b[k])
    BY <1>2
  <2>3. agenda[m + k] = b[k]
    BY <2>1, <2>2, AlikeIs
  <2>4. Clear(agenda[1], agenda[m + k])
    BY <1>3, <1>5, <2>3 DEF TasksInv, Cleared
  <2> QED BY <1>1, <1>3, <2>1, <2>3, <2>4
<1>6. \A k \in 1..Len(b), e \in N : Pending(ce, b[k]) /\ e \notin Emit \cup Shut(agenda) =>
        ~Comparable(e, Spot(b[k]))
  BY <1>5
<1>7. Homed(agenda) /\ Cleared(agenda, claim) /\ Vowed(agenda, claim, Emit \cup Shut(agenda))
  BY DEF TasksInv
<1>8. Homed(b) /\ Cleared(b, ce) /\ Vowed(b, ce, N)
  BY <1>6, <1>7, TasksEnd
<1> QED BY <1>4, <1>5, <1>8

-----------------------------------------------------------------------------
(* What is put before it is clear too *)

LEMMA ConcatIs ==
  ASSUME NEW T, NEW s \in Seq(T), NEW b \in Seq(T)
  PROVE  /\ Len(s) \in Nat /\ Len(b) \in Nat /\ Len(s \o b) = Len(s) + Len(b)
         /\ \A i \in 1..Len(s) : i \in 1..Len(s \o b) /\ (s \o b)[i] = s[i]
         /\ \A i \in 1..Len(b) : Len(s) + i \in 1..Len(s \o b) /\ (s \o b)[Len(s) + i] = b[i]
         /\ \A k \in 1..Len(s \o b) : k \in 1..Len(s) \/ \E i \in 1..Len(b) : k = Len(s) + i
<1> DEFINE c == s \o b
<1>1. /\ Len(s) \in Nat /\ Len(b) \in Nat /\ Len(c) = Len(s) + Len(b)
      /\ \A i \in 1..Len(s) + Len(b) : c[i] = IF i <= Len(s) THEN s[i] ELSE b[i - Len(s)]
  BY LenProperties, ConcatProperties
<1> HIDE DEF c
<1>2. \A i \in 1..Len(s) : i \in 1..Len(c) /\ c[i] = s[i]
  BY <1>1
<1>3. ASSUME NEW i \in 1..Len(b) PROVE Len(s) + i \in 1..Len(c) /\ c[Len(s) + i] = b[i]
  <2>1. /\ Len(s) + i \in 1..Len(s) + Len(b) /\ ~(Len(s) + i <= Len(s))
        /\ (Len(s) + i) - Len(s) = i
    BY <1>1
  <2> QED BY <1>1, <2>1
<1>4. ASSUME NEW k \in 1..Len(c), k \notin 1..Len(s)
      PROVE  \E i \in 1..Len(b) : k = Len(s) + i
  <2>1. k - Len(s) \in 1..Len(b) /\ k = Len(s) + (k - Len(s))
    BY <1>1, <1>4
  <2> QED BY <2>1
<1>5. /\ Len(s) \in Nat /\ Len(b) \in Nat /\ Len(c) = Len(s) + Len(b)
      /\ \A i \in 1..Len(s) : i \in 1..Len(c) /\ c[i] = s[i]
      /\ \A i \in 1..Len(b) : Len(s) + i \in 1..Len(c) /\ c[Len(s) + i] = b[i]
      /\ \A k \in 1..Len(c) : k \in 1..Len(s) \/ \E i \in 1..Len(b) : k = Len(s) + i
  BY <1>1, <1>2, <1>3, <1>4
<1> QED BY <1>5 DEF c

LEMMA SpotIs ==
  ASSUME NEW r \in Seq(Name), NEW t \in Task(r), t.op \in {"unit", "leg", "member"}
  PROVE  /\ Spot(t) \in Seq(Name) /\ Spot(t) \in Tree(r) /\ t.path \in Tree(r) /\ t.path \in Seq(Name)
         /\ t.op # "unit" => Spot(t) \in Below(t.path)
<1>1. t.path \in Tree(r) /\ t.path \in Seq(Name) /\ t.path \in Tree(t.path)
  BY TaskIs DEF Tree
<1>2. CASE t.op = "unit"
  BY <1>1, <1>2 DEF Spot
<1>3. CASE t.op = "leg"
  <2>1. LegName[Kind[t.content]] \in Name
    BY <1>3, TaskIs, ExpansionAssumption DEF HasLeg
  <2>2. Spot(t) = Append(t.path, LegName[Kind[t.content]])
    BY <1>3 DEF Spot, LegPath
  <2>3. Spot(t) \in Below(r) /\ Spot(t) \in Below(t.path)
    BY <1>1, <2>1, <2>2, DeeperByOne
  <2> QED BY <1>1, <2>3 DEF Tree, Below
<1>4. CASE t.op = "member"
  <2>1. t.member.name \in Seq(Name) \ {<<>>}
    BY <1>4, TaskIs
  <2>2. Spot(t) = t.path \o t.member.name
    BY <1>4 DEF Spot
  <2>3. Spot(t) \in Below(r) /\ Spot(t) \in Below(t.path)
    BY <1>1, <2>1, <2>2, Deeper
  <2> QED BY <1>1, <2>3 DEF Tree, Below
<1> QED BY <1>2, <1>3, <1>4

\* Siblings lie one in the other as their names do.
LEMMA Siblings ==
  ASSUME NEW p \in Seq(Name), NEW a \in Seq(Name), NEW b \in Seq(Name)
  PROVE  /\ Under(p \o a, p \o b) => IsStrictPrefix(KeyOf(a), KeyOf(b))
         /\ p \o a = p \o b => a = b
         /\ a # <<>> /\ b # <<>> /\ Comparable(p \o a, p \o b) => Head(a) = Head(b)
<1> DEFINE s == p \o a
           t == p \o b
<1>1. /\ Len(p) \in Nat /\ Len(a) \in Nat /\ Len(b) \in Nat
      /\ s \in Seq(Name) /\ t \in Seq(Name)
      /\ Len(s) = Len(p) + Len(a) /\ Len(t) = Len(p) + Len(b)
      /\ \A i \in 1..Len(a) : Len(p) + i \in 1..Len(s) /\ s[Len(p) + i] = a[i]
      /\ \A i \in 1..Len(b) : Len(p) + i \in 1..Len(t) /\ t[Len(p) + i] = b[i]
  <2>1. \A c \in Seq(Name) :
          /\ Len(p) \in Nat /\ Len(c) \in Nat /\ Len(p \o c) = Len(p) + Len(c)
          /\ \A i \in 1..Len(c) : Len(p) + i \in 1..Len(p \o c) /\ (p \o c)[Len(p) + i] = c[i]
    BY ConcatIs
  <2>2. s \in Seq(Name) /\ t \in Seq(Name)
    OBVIOUS
  <2>3. /\ Len(s) = Len(p) + Len(a)
        /\ \A i \in 1..Len(a) : Len(p) + i \in 1..Len(s) /\ s[Len(p) + i] = a[i]
    BY <2>1
  <2>4. /\ Len(t) = Len(p) + Len(b)
        /\ \A i \in 1..Len(b) : Len(p) + i \in 1..Len(t) /\ t[Len(p) + i] = b[i]
    BY <2>1
  <2> QED BY <2>1, <2>2, <2>3, <2>4
<1> HIDE DEF s, t
<1>2. Under(s, t) => Len(a) < Len(b) /\ \A i \in 1..Len(a) : b[i] = a[i]
  <2> SUFFICES ASSUME Under(s, t) PROVE Len(a) < Len(b) /\ \A i \in 1..Len(a) : b[i] = a[i]
    OBVIOUS
  <2>1. Len(s) < Len(t) /\ \A i \in 1..Len(s) : t[i] = s[i]
    BY <1>1, UnderIs
  <2>2. Len(a) < Len(b)
    BY <1>1, <2>1
  <2>3. ASSUME NEW i \in 1..Len(a) PROVE b[i] = a[i]
    <3>1. i \in 1..Len(b)
      BY <1>1, <2>2
    <3> QED BY <1>1, <2>1, <3>1
  <2> QED BY <2>2, <2>3
<1>3. ASSUME Len(a) < Len(b), \A i \in 1..Len(a) : b[i] = a[i]
      PROVE  IsStrictPrefix(KeyOf(a), KeyOf(b))
  <2>1. KeyOf(a) \in Seq(Name) /\ KeyOf(b) \in Seq(Name)
    BY KeysArePaths
  <2>2. /\ DOMAIN a = 1..Len(a) /\ DOMAIN b = 1..Len(b)
    BY LenProperties
  <2>3. /\ Len(KeyOf(a)) = Len(a) /\ Len(KeyOf(b)) = Len(b)
        /\ \A i \in 1..Len(a) : KeyOf(a)[i] = Key[a[i]]
        /\ \A i \in 1..Len(b) : KeyOf(b)[i] = Key[b[i]]
    <3>1. DOMAIN KeyOf(a) = 1..Len(a) /\ DOMAIN KeyOf(b) = 1..Len(b)
      BY <2>2 DEF KeyOf
    <3>2. Len(KeyOf(a)) = Len(a) /\ Len(KeyOf(b)) = Len(b)
      BY <1>1, <2>1, <3>1, LenProperties
    <3> QED BY <2>2, <3>2 DEF KeyOf
  <2>4. \A i \in 1..Len(a) : i \in 1..Len(b)
    BY <1>1, <1>3
  <2>5. /\ Len(KeyOf(a)) < Len(KeyOf(b))
        /\ \A i \in 1..Len(KeyOf(a)) : KeyOf(b)[i] = KeyOf(a)[i]
    BY <1>3, <2>3, <2>4
  <2>6. Under(KeyOf(a), KeyOf(b))
    BY <2>1, <2>5, UnderIs
  <2> QED BY <2>6 DEF Under
<1>4. s = t => a = b
  <2> SUFFICES ASSUME s = t PROVE a = b
    OBVIOUS
  <2>1. Len(a) = Len(b)
    BY <1>1
  <2>2. \A i \in 1..Len(a) : a[i] = b[i]
    BY <1>1, <2>1
  <2> QED BY <2>1, <2>2, SeqEqual
<1>5. ASSUME a # <<>>, b # <<>>, Comparable(s, t) PROVE Head(a) = Head(b)
  <2>1. Len(a) > 0 /\ Len(b) > 0
    BY <1>1, <1>5, EmptySeq
  <2>2. 1 \in 1..Len(a) /\ 1 \in 1..Len(b) /\ Head(a) = a[1] /\ Head(b) = b[1]
    BY <1>1, <1>5, <2>1, HeadTailProperties
  <2>3. CASE s = t
    BY <1>4, <2>3
  <2>4. CASE Under(s, t)
    BY <1>2, <2>2, <2>4
  <2>5. CASE Under(t, s)
    <3>1. Len(t) < Len(s) /\ \A i \in 1..Len(t) : s[i] = t[i]
      BY <1>1, <2>5, UnderIs
    <3> QED BY <1>1, <2>2, <3>1
  <2> QED BY <1>5, <2>3, <2>4, <2>5 DEF Comparable
<1>6. /\ Under(s, t) => IsStrictPrefix(KeyOf(a), KeyOf(b))
      /\ s = t => a = b
      /\ a # <<>> /\ b # <<>> /\ Comparable(s, t) => Head(a) = Head(b)
  BY <1>2, <1>3, <1>4, <1>5
<1> QED BY <1>6 DEF s, t

LEMMA TaskPushed ==
  ASSUME NEW r, NEW b \in Seq(Task(r)), NEW t \in Task(r), t.op \in {"unit", "leg"},
         NEW ce, NEW N, Bare(b), Homed(b), Cleared(b, ce), Vowed(b, ce, N),
         \A k \in 1..Len(b) : Pending(ce, b[k]) => Clear(t, b[k]),
         t.op = "unit" => \E j \in 1..Len(b) :
                            /\ b[j].op = "close"
                            /\ HoldsAt(b[j].content, b[j].path, t.path, t.content)
                            /\ Alone(N, b[j].path, t.path)
  PROVE  LET a == <<t>> \o b
         IN Bare(Tail(a)) /\ Homed(a) /\ Cleared(a, ce) /\ Vowed(a, ce, N)
<1> DEFINE a == <<t>> \o b
<1>1. /\ Len(b) \in Nat /\ Len(a) = 1 + Len(b) /\ Tail(a) = b
      /\ 1 \in 1..Len(a) /\ a[1] = t
      /\ \A i \in 1..Len(b) : 1 + i \in 1..Len(a) /\ 1 < 1 + i /\ a[1 + i] = b[i]
      /\ \A k \in 1..Len(a) : k = 1 \/ \E i \in 1..Len(b) : k = 1 + i
  <2>1. <<t>> \in Seq(Task(r)) /\ Len(<<t>>) = 1 /\ <<t>>[1] = t /\ 1..1 = {1} /\ Tail(a) = b
    OBVIOUS
  <2>2. /\ Len(b) \in Nat /\ Len(a) = 1 + Len(b)
        /\ 1 \in 1..Len(a) /\ a[1] = t
        /\ \A i \in 1..Len(b) : 1 + i \in 1..Len(a) /\ a[1 + i] = b[i]
        /\ \A k \in 1..Len(a) : k = 1 \/ \E i \in 1..Len(b) : k = 1 + i
    <3>1. /\ Len(<<t>>) \in Nat /\ Len(b) \in Nat /\ Len(a) = Len(<<t>>) + Len(b)
          /\ \A i \in 1..Len(<<t>>) : i \in 1..Len(a) /\ a[i] = <<t>>[i]
          /\ \A i \in 1..Len(b) : Len(<<t>>) + i \in 1..Len(a) /\ a[Len(<<t>>) + i] = b[i]
          /\ \A k \in 1..Len(a) : k \in 1..Len(<<t>>) \/ \E i \in 1..Len(b) : k = Len(<<t>>) + i
      BY <2>1, ConcatIs
    <3> HIDE DEF a
    <3> QED BY <2>1, <3>1
  <2>3. \A i \in 1..Len(b) : 1 < 1 + i
    OBVIOUS
  <2> HIDE DEF a
  <2> QED BY <2>1, <2>2, <2>3
<1> HIDE DEF a
<1>2. \A i, j \in 1..Len(b) : i < j <=> 1 + i < 1 + j
  BY <1>1
<1>3. Homed(a)
  <2>1. SUFFICES ASSUME NEW k \in 1..Len(a), a[k].op = "member"
                 PROVE  \E j \in 1..Len(a) : k < j /\ a[j].op = "close" /\ a[j].path = a[k].path
    BY DEF Homed
  <2>2. PICK i \in 1..Len(b) : k = 1 + i
    BY <1>1, <2>1
  <2>3. PICK j \in 1..Len(b) : i < j /\ b[j].op = "close" /\ b[j].path = b[i].path
    BY <1>1, <2>1, <2>2 DEF Homed
  <2>4. 1 + j \in 1..Len(a) /\ a[1 + j] = b[j] /\ a[k] = b[i]
    BY <1>1, <2>2
  <2>5. k < 1 + j
    BY <1>2, <2>2, <2>3
  <2> QED BY <2>3, <2>4, <2>5, Zenon
<1>4. Cleared(a, ce)
  <2>1. SUFFICES ASSUME NEW i \in 1..Len(a), NEW k \in 1..Len(a), i < k, Pending(ce, a[k])
                 PROVE  Clear(a[i], a[k])
    BY DEF Cleared
  <2>2. k # 1
    BY <1>1, <2>1
  <2>3. PICK n \in 1..Len(b) : k = 1 + n
    BY <1>1, <2>2
  <2>4. CASE i = 1
    BY <1>1, <2>1, <2>3, <2>4
  <2>5. ASSUME NEW l \in 1..Len(b), i = 1 + l PROVE Clear(a[i], a[k])
    BY <1>1, <1>2, <2>1, <2>3, <2>5 DEF Cleared
  <2> QED BY <1>1, <2>4, <2>5
<1>5. Vowed(a, ce, N)
  <2>1. SUFFICES ASSUME NEW k \in 1..Len(a), Pending(ce, a[k]), a[k].op # "leg"
                 PROVE  \E j \in 1..Len(a) :
                          /\ k < j /\ a[j].op = "close"
                          /\ HoldsAt(a[j].content, a[j].path, Spot(a[k]), What(a[k]))
                          /\ Alone(N, a[j].path, Spot(a[k]))
    BY DEF Vowed
  <2>2. CASE k = 1
    <3>1. t.op = "unit" /\ Spot(t) = t.path /\ What(t) = t.content
      BY <1>1, <2>1, <2>2 DEF Spot, What
    <3>2. PICK j \in 1..Len(b) : /\ b[j].op = "close"
                                 /\ HoldsAt(b[j].content, b[j].path, t.path, t.content)
                                 /\ Alone(N, b[j].path, t.path)
      BY <3>1
    <3>3. 1 + j \in 1..Len(a) /\ k < 1 + j /\ a[1 + j] = b[j] /\ a[k] = t
      BY <1>1, <2>2
    <3> QED BY <3>1, <3>2, <3>3, Zenon
  <2>3. ASSUME NEW i \in 1..Len(b), k = 1 + i
        PROVE  \E j \in 1..Len(a) :
                 /\ k < j /\ a[j].op = "close"
                 /\ HoldsAt(a[j].content, a[j].path, Spot(a[k]), What(a[k]))
                 /\ Alone(N, a[j].path, Spot(a[k]))
    <3>1. PICK j \in 1..Len(b) :
            /\ i < j /\ b[j].op = "close"
            /\ HoldsAt(b[j].content, b[j].path, Spot(b[i]), What(b[i]))
            /\ Alone(N, b[j].path, Spot(b[i]))
      BY <1>1, <2>1, <2>3 DEF Vowed
    <3> QED BY <1>1, <1>2, <2>3, <3>1
  <2> QED BY <1>1, <2>2, <2>3
<1> QED BY <1>1, <1>3, <1>4, <1>5 DEF a

\* The tasks of a container are clear of each other: its members lie apart.
LEMMA MembersAreClear ==
  ASSUME Separate, NEW r \in Seq(Name), NEW u \in Task(r), u.op = "unit"
  PROVE  LET s == Tasks(u)
             n == Len(Members[u.content])
         IN /\ \A i, k \in 1..n : i < k => Clear(s[i], s[k])
            /\ \A k \in 1..n : /\ s[k] \in Task(r) /\ Spot(s[k]) \in Below(u.path)
                               /\ HoldsAt(u.content, u.path, Spot(s[k]), What(s[k]))
            /\ \A k \in 1..n, m \in DOMAIN CollisionName :
                 Append(u.path, CollisionName[m]) \in Below(u.path)
<1> DEFINE s == Tasks(u)
           ms == Members[u.content]
           n == Len(ms)
<1>1. /\ s \in Seq(Task(r)) /\ Len(s) = n + 1 /\ n \in Nat
      /\ \A i \in 1..n : s[i].op = "member" /\ s[i].path = u.path /\ s[i].member = ms[i]
  BY TasksAre
<1>2. /\ u.path \in Tree(r) /\ u.path \in Seq(Name) /\ u.path \in Tree(u.path) /\ u.content \in Content
  BY TaskIs DEF Tree
<1>3. DOMAIN ms = 1..n /\ \A i \in 1..n : ms[i].name \in Seq(Name) \ {<<>>}
  <2>1. ms \in Seq([name : Seq(Name) \ {<<>>}, content : Content \cup {Refused}])
    BY <1>2, ExpansionAssumption
  <2> HIDE DEF ms
  <2>2. DOMAIN ms = 1..n /\ \A i \in 1..n : ms[i] \in [name : Seq(Name) \ {<<>>}, content : Content \cup {Refused}]
    BY <2>1, LenProperties, ElementOfSeq
  <2> QED BY <2>2
<1>4. \A i, j \in 1..n : i # j =>
        /\ ~IsStrictPrefix(KeyOf(ms[i].name), KeyOf(ms[j].name))
        /\ ms[i].name = ms[j].name => Readable(ms[i])
  BY <1>2, <1>3 DEF Separate
<1>5. \A m \in DOMAIN CollisionName, i \in 1..n : Head(ms[i].name) # CollisionName[m]
  BY <1>2, <1>3 DEF Separate
<1>6. \A m \in DOMAIN CollisionName : CollisionName[m] \in Name
  BY ExpansionAssumption, LenProperties, ElementOfSeq
<1> HIDE DEF s, ms, n
<1>7. ASSUME NEW k \in 1..n
      PROVE  /\ s[k] \in Task(r) /\ Spot(s[k]) = u.path \o ms[k].name /\ Spot(s[k]) \in Below(u.path)
             /\ What(s[k]) = ms[k].content
  <2>1. k \in 1..Len(s)
    BY <1>1
  <2>2. s[k] \in Task(r)
    BY <1>1, <2>1, ElementOfSeq
  <2>3. Spot(s[k]) = u.path \o ms[k].name /\ What(s[k]) = ms[k].content
    BY <1>1 DEF Spot, What
  <2>4. Spot(s[k]) \in Below(u.path)
    BY <1>2, <1>3, <2>3, Deeper
  <2> QED BY <2>2, <2>3, <2>4
<1>8. ASSUME NEW k \in 1..n PROVE HoldsAt(u.content, u.path, Spot(s[k]), What(s[k]))
  BY <1>3, <1>7 DEF HoldsAt, ms
<1>9. ASSUME NEW m \in DOMAIN CollisionName PROVE Append(u.path, CollisionName[m]) \in Below(u.path)
  BY <1>2, <1>6, DeeperByOne
<1>10. ASSUME NEW i \in 1..n, NEW k \in 1..n, i < k PROVE Clear(s[i], s[k])
  <2>1. i # k /\ ms[i].name \in Seq(Name) /\ ms[k].name \in Seq(Name) /\ ms[i].name # <<>> /\ ms[k].name # <<>>
    BY <1>1, <1>3, <1>10
  <2> DEFINE x == ms[i].name
             y == ms[k].name
  <2>5. /\ Under(u.path \o x, u.path \o y) => IsStrictPrefix(KeyOf(x), KeyOf(y))
        /\ Under(u.path \o y, u.path \o x) => IsStrictPrefix(KeyOf(y), KeyOf(x))
        /\ u.path \o x = u.path \o y => x = y
    <3> HIDE DEF x, y
    <3>1. x \in Seq(Name) /\ y \in Seq(Name)
      BY <2>1 DEF x, y
    <3> QED BY <1>2, <3>1, Siblings
  <2>2. ~Under(Spot(s[i]), Spot(s[k])) /\ ~Under(Spot(s[k]), Spot(s[i]))
    BY <1>4, <1>7, <2>1, <2>5
  <2>3. Spot(s[i]) = Spot(s[k]) => \A o \in {s[i], s[k]} : o.op = "member" /\ Readable(o.member)
    <3> SUFFICES ASSUME Spot(s[i]) = Spot(s[k]) PROVE Readable(ms[i]) /\ Readable(ms[k])
      BY <1>1
    <3>1. ms[i].name = ms[k].name
      BY <1>7, <2>5
    <3> QED BY <1>4, <2>1, <3>1
  <2>4. ASSUME NEW m \in DOMAIN CollisionName
        PROVE  ~Comparable(Append(s[i].path, CollisionName[m]), Spot(s[k]))
    <3> DEFINE z == <<CollisionName[m]>>
    <3>1. z \in Seq(Name) /\ z # <<>> /\ Head(z) = CollisionName[m]
      BY <1>6
    <3>2. Append(u.path, CollisionName[m]) = u.path \o z
      BY <1>2, <1>6, AppendIsConcat
    <3>3. Head(y) # CollisionName[m] /\ y \in Seq(Name) /\ y # <<>>
      BY <1>5, <2>1
    <3>4. ~Comparable(u.path \o z, u.path \o y)
      <4> HIDE DEF y, z
      <4> QED BY <1>2, <3>1, <3>3, Siblings
    <3> QED BY <1>1, <1>7, <3>2, <3>4
  <2> QED BY <1>1, <2>2, <2>3, <2>4 DEF Clear
<1> QED BY <1>7, <1>8, <1>9, <1>10 DEF s, ms, n

LEMMA ContainerPushed ==
  ASSUME Separate, NEW r \in Seq(Name), NEW u \in Task(r), u.op = "unit",
         NEW b \in Seq(Task(r)), NEW ce, NEW N, Bare(b), Homed(b), Cleared(b, ce), Vowed(b, ce, N),
         \A k \in 1..Len(b) : Pending(ce, b[k]) =>
           b[k] \in Task(r) /\ b[k].op = "member" /\ ~Comparable(u.path, Spot(b[k])),
         \A e \in N : ~Under(u.path, e)
  PROVE  LET a == Tasks(u) \o b
         IN Bare(Tail(a)) /\ Homed(a) /\ Cleared(a, ce) /\ Vowed(a, ce, N)
<1> DEFINE s == Tasks(u)
           n == Len(Members[u.content])
           a == s \o b
<1>1. /\ s \in Seq(Task(r)) /\ Len(s) = n + 1 /\ n \in Nat
      /\ \A i \in 1..n : s[i].op = "member" /\ s[i].path = u.path
      /\ s[n + 1].op = "close" /\ s[n + 1].path = u.path /\ s[n + 1].content = u.content
  BY TasksAre
<1>2. /\ \A i, k \in 1..n : i < k => Clear(s[i], s[k])
      /\ \A k \in 1..n : /\ s[k] \in Task(r) /\ Spot(s[k]) \in Below(u.path)
                         /\ HoldsAt(u.content, u.path, Spot(s[k]), What(s[k]))
      /\ \A m \in DOMAIN CollisionName, k \in 1..n : Append(u.path, CollisionName[m]) \in Below(u.path)
  BY MembersAreClear
<1>3. u.path \in Seq(Name)
  BY TaskIs DEF Tree
<1> HIDE DEF s, n
<1>4. /\ Len(b) \in Nat /\ Len(a) = Len(s) + Len(b)
      /\ \A i \in 1..Len(s) : i \in 1..Len(a) /\ a[i] = s[i]
      /\ \A i \in 1..Len(b) : Len(s) + i \in 1..Len(a) /\ a[Len(s) + i] = b[i]
      /\ \A k \in 1..Len(a) : k \in 1..Len(s) \/ \E i \in 1..Len(b) : k = Len(s) + i
      /\ a \in Seq(Task(r)) /\ Len(a) \in Nat
  <2>1. a \in Seq(Task(r))
    BY <1>1
  <2>2. /\ Len(b) \in Nat /\ Len(a) = Len(s) + Len(b)
        /\ \A i \in 1..Len(s) : i \in 1..Len(a) /\ a[i] = s[i]
        /\ \A i \in 1..Len(b) : Len(s) + i \in 1..Len(a) /\ a[Len(s) + i] = b[i]
        /\ \A k \in 1..Len(a) : k \in 1..Len(s) \/ \E i \in 1..Len(b) : k = Len(s) + i
    <3>1. s \in Seq(Task(r))
      BY <1>1
    <3> QED BY <3>1, ConcatIs
  <2> HIDE DEF a
  <2>3. Len(a) \in Nat
    BY <2>1, LenProperties
  <2> QED BY <2>1, <2>2, <2>3
<1> HIDE DEF a
<1>5. n + 1 \in 1..Len(s) /\ \A i \in 1..n : i \in 1..Len(s) /\ i < n + 1
  BY <1>1
<1>6. /\ \A i \in 1..Len(b) : n + 1 < Len(s) + i
      /\ \A i, j \in 1..Len(b) : i < j <=> Len(s) + i < Len(s) + j
  BY <1>1, <1>4
<1>7. /\ n + 1 \in 1..Len(a) /\ a[n + 1] = s[n + 1]
      /\ \A i \in 1..n : i \in 1..Len(a) /\ a[i] = s[i]
  BY <1>4, <1>5
<1>8. \A k \in 1..Len(a) : k \in 1..n \/ k = n + 1 \/ \E i \in 1..Len(b) : k = Len(s) + i
  <2>1. \A k \in 1..Len(s) : k \in 1..n \/ k = n + 1
    BY <1>1
  <2>2. \A k \in 1..Len(a) : k \in 1..Len(s) \/ \E i \in 1..Len(b) : k = Len(s) + i
    BY <1>4
  <2> QED BY <2>1, <2>2, Zenon
<1>9. Bare(a)
  <2>1. \A k \in 1..n : a[k].op = "member"
    BY <1>1, <1>7
  <2>2. a[n + 1].op = "close"
    BY <1>1, <1>7
  <2>3. \A i \in 1..Len(b) : a[Len(s) + i].op \notin {"unit", "leg"}
    BY <1>4 DEF Bare
  <2>4. ASSUME NEW k \in 1..Len(a) PROVE a[k].op \notin {"unit", "leg"}
    BY <1>8, <2>1, <2>2, <2>3
  <2> QED BY <2>4 DEF Bare
<1>10. Bare(Tail(a))
  <2>1. a # <<>>
    BY <1>5, <1>6, <1>7, <1>8, EmptySeq
  <2>2. /\ Len(Tail(a)) = Len(a) - 1 /\ \A i \in 1..Len(a) - 1 : Tail(a)[i] = a[i + 1]
    BY <1>4, <2>1, HeadTailProperties
  <2>3. \A i \in 1..Len(a) - 1 : i + 1 \in 1..Len(a)
    BY <1>4
  <2> QED BY <1>9, <2>2, <2>3 DEF Bare
<1>11. Homed(a)
  <2>1. SUFFICES ASSUME NEW k \in 1..Len(a), a[k].op = "member"
                 PROVE  \E j \in 1..Len(a) : k < j /\ a[j].op = "close" /\ a[j].path = a[k].path
    BY DEF Homed
  <2>2. CASE k \in 1..n
    BY <1>1, <1>5, <1>6, <1>7, <1>8, <2>2
  <2>3. ASSUME NEW i \in 1..Len(b), k = Len(s) + i
        PROVE  \E j \in 1..Len(a) : k < j /\ a[j].op = "close" /\ a[j].path = a[k].path
    <3>1. PICK j \in 1..Len(b) : i < j /\ b[j].op = "close" /\ b[j].path = b[i].path
      BY <1>4, <2>1, <2>3 DEF Homed
    <3>2. Len(s) + j \in 1..Len(a) /\ k < Len(s) + j /\ a[Len(s) + j] = b[j] /\ a[k] = b[i]
      BY <1>4, <1>5, <1>6, <1>7, <1>8, <2>3, <3>1
    <3> QED BY <3>1, <3>2, Zenon
  <2>4. k # n + 1
    BY <1>1, <1>5, <1>6, <1>7, <1>8, <2>1
  <2> QED BY <1>5, <1>6, <1>7, <1>8, <2>2, <2>3, <2>4
<1>12. ASSUME NEW k \in 1..Len(b), Pending(ce, b[k]), NEW i \in 1..Len(s)
      PROVE  Clear(s[i], b[k])
  <2>1. /\ Spot(b[k]) \in Seq(Name) /\ ~Comparable(u.path, Spot(b[k]))
    <3>1. b[k] \in Task(r) /\ b[k].op = "member" /\ ~Comparable(u.path, Spot(b[k]))
      BY <1>12
    <3> QED BY <3>1, SpotIs
  <2>2. \A e \in Below(u.path) : ~Comparable(e, Spot(b[k]))
    BY <1>3, <2>1, ApartBelow DEF Tree, Below
  <2>3. CASE i = n + 1
    BY <1>1, <2>1, <2>3 DEF Clear
  <2>4. CASE i \in 1..n
    <3>1. ~Comparable(Spot(s[i]), Spot(b[k]))
      BY <1>2, <2>2, <2>4
    <3>2. \A m \in DOMAIN CollisionName : ~Comparable(Append(s[i].path, CollisionName[m]), Spot(b[k]))
      BY <1>1, <1>2, <2>2, <2>4
    <3> QED BY <1>1, <2>4, <3>1, <3>2 DEF Clear, Comparable
  <2>5. i \in 1..n \/ i = n + 1
    BY <1>1
  <2> QED BY <2>3, <2>4, <2>5
<1>13. Cleared(a, ce)
  <2>1. SUFFICES ASSUME NEW i \in 1..Len(a), NEW k \in 1..Len(a), i < k, Pending(ce, a[k])
                 PROVE  Clear(a[i], a[k])
    BY DEF Cleared
  <2>2. CASE k \in 1..n
    <3>1. i \in 1..n
      BY <1>1, <2>1, <2>2
    <3> QED BY <1>2, <1>5, <1>6, <1>7, <1>8, <2>1, <2>2, <3>1
  <2>3. k # n + 1
    BY <1>1, <1>5, <1>6, <1>7, <1>8, <2>1 DEF Pending
  <2>4. ASSUME NEW m \in 1..Len(b), k = Len(s) + m PROVE Clear(a[i], a[k])
    <3>1. Pending(ce, b[m]) /\ a[k] = b[m]
      BY <1>4, <2>1, <2>4
    <3>2. CASE i \in 1..Len(s)
      BY <1>4, <1>12, <3>1, <3>2
    <3>3. ASSUME NEW l \in 1..Len(b), i = Len(s) + l PROVE Clear(a[i], a[k])
      BY <1>4, <1>5, <1>6, <1>7, <1>8, <2>1, <2>4, <3>1, <3>3 DEF Cleared
    <3> QED BY <1>4, <3>2, <3>3
  <2> QED BY <1>5, <1>6, <1>7, <1>8, <2>2, <2>3, <2>4
<1>14. Vowed(a, ce, N)
  <2>1. SUFFICES ASSUME NEW k \in 1..Len(a), Pending(ce, a[k]), a[k].op # "leg"
                 PROVE  \E j \in 1..Len(a) :
                          /\ k < j /\ a[j].op = "close"
                          /\ HoldsAt(a[j].content, a[j].path, Spot(a[k]), What(a[k]))
                          /\ Alone(N, a[j].path, Spot(a[k]))
    BY DEF Vowed
  <2>2. CASE k \in 1..n
    <3>1. HoldsAt(u.content, u.path, Spot(a[k]), What(a[k]))
      BY <1>2, <1>5, <1>6, <1>7, <1>8, <2>2
    <3>2. Alone(N, u.path, Spot(a[k]))
      BY DEF Alone
    <3> QED BY <1>1, <1>5, <1>6, <1>7, <1>8, <2>2, <3>1, <3>2
  <2>3. k # n + 1
    BY <1>1, <1>5, <1>6, <1>7, <1>8, <2>1 DEF Pending
  <2>4. ASSUME NEW i \in 1..Len(b), k = Len(s) + i
        PROVE  \E j \in 1..Len(a) :
                 /\ k < j /\ a[j].op = "close"
                 /\ HoldsAt(a[j].content, a[j].path, Spot(a[k]), What(a[k]))
                 /\ Alone(N, a[j].path, Spot(a[k]))
    <3>1. PICK j \in 1..Len(b) :
            /\ i < j /\ b[j].op = "close"
            /\ HoldsAt(b[j].content, b[j].path, Spot(b[i]), What(b[i]))
            /\ Alone(N, b[j].path, Spot(b[i]))
      BY <1>4, <2>1, <2>4 DEF Vowed
    <3>2. Len(s) + j \in 1..Len(a) /\ k < Len(s) + j /\ a[Len(s) + j] = b[j] /\ a[k] = b[i]
      BY <1>4, <1>5, <1>6, <1>7, <1>8, <2>4, <3>1
    <3> QED BY <3>1, <3>2, Zenon
  <2> QED BY <1>5, <1>6, <1>7, <1>8, <2>2, <2>3, <2>4
<1> QED BY <1>10, <1>11, <1>13, <1>14 DEF a, s

-----------------------------------------------------------------------------
(* What a step over the head of the agenda owes *)

LEMMA Working ==
  ASSUME IInv, IInv', Sound, AtTask, Works,
         held' # None /\ held'.record.status = "removed" => held'.record.hash = None,
         cur \in DOMAIN Now' \/ Due(agenda', cur),
         TasksInv', LegInv', BondFine', OldFine', CurStrict',
         \A r \in Seq(Name) : r \notin Tree(cur) /\ Strict(Bond, r) => Strict(Bond', r)
  PROVE  Sound'
<1>1. /\ cur \in Roots /\ Now = terminal
      /\ \A q \in DOMAIN terminal : q \in Seq(Name)
  BY TaskAt, NowAfter
<1>2. /\ held' = None => Now' = terminal
      /\ held' # None => /\ held'.path \in Tree(cur)
                         /\ DOMAIN Now' = DOMAIN terminal \cup {held'.path}
                         /\ Now'[held'.path] = held'.record
      /\ \A p \in Seq(Name) : held' = None \/ p # held'.path =>
           /\ p \in DOMAIN Now' <=> p \in DOMAIN terminal
           /\ p \in DOMAIN terminal => Now'[p] = terminal[p]
           /\ Settling(p, Now)' => Settling(p, Now)
  BY NowAfter
<1>3. held' # None /\ held'.record.status \in Bearing => held'.record.hash # None
  <2> SUFFICES ASSUME held' # None, held'.record.status \in Bearing PROVE held'.record.hash \in Content
    BY ExpansionAssumption
  <2>1. Emits
    BY DEF Works, AtTask
  <2> QED BY <2>1 DEF Emits
<1>4. Shapely'
  <2>1. SUFFICES ASSUME NEW q \in DOMAIN Now'
                 PROVE  /\ Now'[q].status \in Bearing => Now'[q].hash # None
                        /\ Now'[q].status = "removed" => Now'[q].hash = None
    BY DEF Shapely
  <2>2. CASE held' # None /\ q = held'.path
    BY <1>2, <1>3, <2>2
  <2>3. CASE held' = None \/ q # held'.path
    <3>1. q \in DOMAIN terminal
      BY <1>2, <2>1, <2>3
    <3>2. Now'[q] = terminal[q]
      BY <1>1, <1>2, <2>3, <3>1
    <3> QED BY <1>1, <3>1, <3>2 DEF Sound, Shapely
  <2> QED BY <2>2, <2>3
<1>5. VisitedStrict'
  <2>1. SUFFICES ASSUME NEW r \in visited, Settling(r, Now)' PROVE Strict(Bond', r)
    BY DEF VisitedStrict, Works
  <2>2. r \in Roots /\ Place(r) < Place(cur)
    <3>1. cur # None
      BY TaskAt, ExpansionAssumption
    <3> QED BY <2>1, <3>1 DEF IInv, TypeOK, OrderInv
  <2>3. r \notin Tree(cur) /\ r \in Seq(Name)
    BY <1>1, <2>2, Apart, PlaceIs
  <2>4. Settling(r, Now)
    BY <1>2, <2>1, <2>3
  <2> QED BY <2>1, <2>3, <2>4 DEF Sound, VisitedStrict
<1>6. RecordsInv'
  <2>1. cur' = cur /\ walked' = walked /\ queue' = queue
    BY DEF Works
  <2>2. \A w \in DOMAIN terminal : w \in DOMAIN Now'
    BY <1>2
  <2> QED BY <1>1, <2>1, <2>2 DEF Sound, RecordsInv
<1> QED BY <1>4, <1>5, <1>6 DEF Sound

LEMMA CurRecorded ==
  ASSUME IInv, IInv', AtTask, Works, RecordsInv,
         Head(agenda).op = "unit" =>
           (held' # None /\ held'.path = Head(agenda).path) \/ Due(agenda', Head(agenda).path),
         Head(agenda).op = "close" => held' # None /\ held'.path = Head(agenda).path,
         \A p : Due(Rest, p) => Due(agenda', p)
  PROVE  cur \in DOMAIN Now' \/ Due(agenda', cur)
<1>1. cur # None /\ Now = terminal /\ agenda # <<>>
  BY TaskAt, NowAfter, ExpansionAssumption DEF AtTask
<1>2. held' # None => held'.path \in DOMAIN Now'
  BY NowAfter
<1>3. \A w \in DOMAIN terminal : w \in DOMAIN Now'
  BY NowAfter
<1>4. CASE cur \in DOMAIN Now
  BY <1>1, <1>3, <1>4
<1>5. CASE Due(agenda, cur)
  <2>1. PICK owned \in BOOLEAN : Formed(agenda, owned, cur)
    BY DEF IInv, AgendaInv
  <2>2. (Head(agenda).op = "close" /\ Head(agenda).path = cur) \/ Due(Rest, cur)
    BY <1>5, <2>1, DueStays DEF Rest
  <2> QED BY <1>2, <2>2
<1>6. CASE Head(agenda).op = "unit" /\ Head(agenda).path = cur
  BY <1>2, <1>6
<1> QED BY <1>1, <1>4, <1>5, <1>6 DEF RecordsInv

\* What was emitted stays so: an untouched subtree was untouched before.
LEMMA OldFineStays ==
  ASSUME IInv, IInv', AtTask, Works, OldFine, claim # None \/ Head(agenda).op = "leg",
         claim' # None, claim # None => \A q \in claim.emitted : q \in claim'.emitted
  PROVE  OldFine'
<1>1. cur' = cur /\ cur \in Seq(Name)
  BY TaskAt DEF Works
<1>2. /\ \A p \in Emit : p \in Emit'
      /\ \A p \in Below(cur) : held' # None /\ p = held'.path => p \in Emit'
  BY EmitAfter
<1>3. SUFFICES ASSUME NEW x \in Below(cur), NEW q \in Seq(Name), \A e \in Emit' : e \notin Tree(x),
                      Old'[x] # None, Under(x, q), Old'[q] # None
               PROVE  Fine(Old', Lax', q)
  BY <1>1 DEF OldFine, Untouched
<1>4. x \in Seq(Name) /\ Under(cur, x) /\ x \in Tree(x) /\ q \in Below(x) /\ q \in Tree(x)
  BY <1>3 DEF Below, Tree
<1>5. \A p \in Tree(x) : p \in Seq(Name) /\ p \in Below(cur)
  BY <1>1, <1>4, UnderIsOrder, Zenon DEF Tree, Below
<1>6. \A p \in Tree(x) : held' = None \/ p # held'.path
  BY <1>2, <1>3, <1>5
<1>7. \A p \in Tree(x) : Old'[p] = Old[p] /\ (p \in Lax' <=> p \in Lax)
  BY <1>5, <1>6, NowAfter
<1>8. Untouched(x) /\ Old[x] # None /\ Old[q] # None
  BY <1>2, <1>3, <1>4, <1>7 DEF Untouched
<1>9. Fine(Old, Lax, q)
  BY <1>3, <1>8 DEF OldFine, AtTask
<1> QED BY <1>3, <1>4, <1>7, <1>9, FineInside

\* At the unit of an entry nothing is open and nothing lost.
LEMMA TopBond ==
  ASSUME IInv, NestInv, AtTask, claim = None, Head(agenda).op = "unit"
  PROVE  /\ \A p \in Seq(Name) : Bond[p] = Old[p] /\ (p \in Exempt <=> p \in Lax)
         /\ \A p, c : ~Closing(agenda, p, c)
<1>1. Rest = <<>> /\ agenda # <<>>
  BY TaskAt DEF AtTask
<1>2. agenda \in Seq(Task(cur)) /\ Nested(agenda)
  BY TypedAgenda DEF NestInv
<1>3. \A p, c : ~Closing(agenda, p, c)
  <2>1. \A p, c : Closing(agenda, p, c) => Closing(Tail(agenda), p, c) \/ Head(agenda).op = "close"
    BY <1>1, <1>2, ClosingTail
  <2>2. Tail(agenda) = <<>>
    BY <1>1 DEF Rest
  <2> QED BY <2>1, <2>2, ClosingOne
<1>4. \A p : ~Due(agenda, p)
  BY <1>3, DueIs, Zenon
<1>5. Lost(agenda, claim, held, cur) = {}
  BY <1>1 DEF Lost
<1>6. \A p \in Seq(Name) : Bond[p] = Old[p]
  BY <1>4, <1>5, BondNow
<1> QED BY <1>3, <1>4, <1>6 DEF Exempt

\* An expansion starts over a tree in which every path is owed.
LEMMA OldFineStarts ==
  ASSUME IInv, NestInv, IInv', AtTask, Works, BondFine, claim = None, Head(agenda).op = "unit",
         held' # None => held'.path = cur
  PROVE  OldFine'
<1>1. cur' = cur /\ cur \in Seq(Name)
  BY TaskAt DEF Works
<1>2. SUFFICES ASSUME NEW x \in Below(cur), NEW q \in Seq(Name), Old'[x] # None, Under(x, q),
                      Old'[q] # None
               PROVE  Fine(Old', Lax', q)
  BY <1>1 DEF OldFine
<1>3. x \in Seq(Name) /\ Under(cur, x) /\ x \in Tree(x) /\ q \in Below(x) /\ q \in Tree(x)
  BY <1>2 DEF Below, Tree
<1>4. \A p \in Tree(x) : p \in Seq(Name) /\ p # cur
  BY <1>1, <1>3, UnderIsOrder, Zenon DEF Tree
<1>5. \A p \in Tree(x) : Old'[p] = Old[p] /\ (p \in Lax' <=> p \in Lax)
  BY <1>4, NowAfter
<1>6. \A p \in Tree(x) : Old'[p] = Bond[p] /\ (p \in Exempt => p \in Lax')
  BY <1>4, <1>5, TopBond
<1>7. Fine(Bond, Exempt, q)
  BY <1>2, <1>3, <1>6 DEF BondFine
<1> QED BY <1>2, <1>3, <1>6, <1>7, FineInside

-----------------------------------------------------------------------------
(* What the head of the agenda puts on record is owed *)

LEMMA HoldsUnder ==
  ASSUME NEW c \in Content, NEW o \in Seq(Name), NEW q, NEW h, HoldsAt(c, o, q, h)
  PROVE  q \in Seq(Name) /\ Under(o, q)
<1>1. o \in Tree(o)
  BY DEF Tree
<1>2. CASE \E i \in DOMAIN Members[c] : q = o \o Members[c][i].name /\ h = Members[c][i].content
  <2>1. PICK i \in DOMAIN Members[c] : q = o \o Members[c][i].name
    BY <1>2
  <2>2. Members[c][i].name \in Seq(Name) \ {<<>>}
    <3> DEFINE ms == Members[c]
    <3>1. ms \in Seq([name : Seq(Name) \ {<<>>}, content : Content \cup {Refused}])
      BY ExpansionAssumption
    <3>2. i \in DOMAIN ms
      BY <2>1
    <3> HIDE DEF ms
    <3>3. ms[i] \in [name : Seq(Name) \ {<<>>}, content : Content \cup {Refused}]
      BY <3>1, <3>2, LenProperties, ElementOfSeq
    <3> QED BY <3>3 DEF ms
  <2>3. q \in Below(o)
    BY <1>1, <2>1, <2>2, Deeper
  <2> QED BY <2>3 DEF Below
<1>3. CASE HasLeg(c) /\ q = LegPath(o, c) /\ h = c
  <2>1. LegName[Kind[c]] \in Name
    BY <1>3, ExpansionAssumption DEF HasLeg
  <2>2. q \in Below(o)
    BY <1>1, <1>3, <2>1, DeeperByOne DEF LegPath
  <2> QED BY <2>2 DEF Below
<1> QED BY <1>2, <1>3 DEF HoldsAt

\* o, above x, holds w at x, and the bond has nothing between them or below x.
Promised(o, x, w) ==
  /\ o \in Tree(cur) /\ x \in Below(cur) /\ Under(o, x)
  /\ Bond[o] # None /\ HoldsAt(Bond[o], o, x, w)
  /\ \A e \in Tree(x) : e \notin Emit \cup Shut(agenda) /\ Bond[e] = None
  /\ \A e \in Seq(Name) : Under(o, e) /\ Under(e, x) => Bond[e] = None

LEMMA AloneBelow ==
  ASSUME NEW M, NEW o \in Seq(Name), NEW x \in Seq(Name), Under(o, x), Alone(M, o, x)
  PROVE  /\ \A e \in Tree(x) : e \notin M /\ Under(o, e)
         /\ \A e \in Seq(Name) : Under(o, e) /\ Under(e, x) => e \notin M
<1>1. \A e \in Tree(x) : Comparable(e, x) /\ Under(o, e)
  BY UnderIsOrder, Zenon DEF Tree, Comparable
<1> QED BY <1>1 DEF Alone, Comparable

LEMMA PromiseIs ==
  ASSUME IInv, NestInv, NEW o \in Tree(cur), NEW x, NEW w, cur \in Seq(Name),
         Bond[o] \in Content, HoldsAt(Bond[o], o, x, w), Alone(Emit \cup Shut(agenda), o, x),
         claim = None => Lost(agenda, claim, held, cur) = Below(cur)
  PROVE  Promised(o, x, w)
<1>1. o \in Seq(Name) /\ x \in Seq(Name) /\ Under(o, x) /\ Bond[o] # None
  BY HoldsUnder, ExpansionAssumption DEF Tree
<1>2. x \in Below(cur)
  BY <1>1, UnderIsOrder, Zenon DEF Tree, Below
<1>3. /\ \A e \in Tree(x) : e \notin Emit \cup Shut(agenda) /\ Under(o, e)
      /\ \A e \in Seq(Name) : Under(o, e) /\ Under(e, x) => e \notin Emit \cup Shut(agenda)
  BY <1>1, AloneBelow
<1>4. ASSUME NEW e \in Seq(Name), Under(o, e), e \notin Emit \cup Shut(agenda) PROVE Bond[e] = None
  <2>1. e \in Below(cur)
    BY <1>1, <1>4, UnderIsOrder, Zenon DEF Tree, Below
  <2>2. ~Due(agenda, e)
    BY <1>4 DEF Shut
  <2>3. e \in Lost(agenda, claim, held, cur)
    BY <1>4, <2>1, BondNow
  <2> QED BY <2>2, <2>3, BondNow
<1>5. \A e \in Tree(x) : e \in Seq(Name)
  BY DEF Tree
<1> QED BY <1>1, <1>2, <1>3, <1>4, <1>5 DEF Promised

\* A unit or member under the claim has the container that holds it.
LEMMA ContainerPromises ==
  ASSUME IInv, NestInv, Sound, AtTask, claim # None, Pending(claim, Head(agenda)),
         Head(agenda).op # "leg"
  PROVE  \E o \in Tree(cur) : /\ Promised(o, Spot(Head(agenda)), What(Head(agenda)))
                              /\ Due(agenda, o)
<1>1. cur \in Seq(Name) /\ Head(agenda) = agenda[1] /\ 1 \in 1..Len(agenda)
  BY TaskAt, NestedRest DEF NestInv
<1>2. PICK j \in 1..Len(agenda) :
        /\ agenda[j].op = "close"
        /\ HoldsAt(agenda[j].content, agenda[j].path, Spot(Head(agenda)), What(Head(agenda)))
        /\ Alone(Emit \cup Shut(agenda), agenda[j].path, Spot(Head(agenda)))
  BY <1>1 DEF Sound, TasksInv, Vowed
<1> DEFINE o == agenda[j].path
<1>3. Closing(agenda, o, agenda[j].content)
  BY <1>2 DEF Closing
<1>4. o \in Tree(cur) /\ o \in Seq(Name)
  <2>1. agenda \in Seq(Task(cur)) /\ Nested(agenda)
    BY TypedAgenda DEF NestInv
  <2> QED BY <1>3, <2>1, OnceIs DEF Tree
<1>5. Bond[o] = agenda[j].content /\ Bond[o] \in Content /\ Due(agenda, o)
  BY <1>3, <1>4, BondNow
<1> HIDE DEF o
<1>6. Promised(o, Spot(Head(agenda)), What(Head(agenda)))
  BY <1>1, <1>2, <1>4, <1>5, PromiseIs DEF o
<1> QED BY <1>4, <1>5, <1>6

\* The owner of a leg holds the leg's child.
LEMMA LegPromises ==
  ASSUME IInv, NestInv, Sound, AtTask, Head(agenda).op = "leg"
  PROVE  Promised(Head(agenda).path, Spot(Head(agenda)), Head(agenda).content)
<1> DEFINE t == Head(agenda)
<1>1. /\ cur \in Seq(Name) /\ agenda # <<>> /\ t \in Task(cur)
  BY TaskAt DEF AtTask
<1>2. t.path \in Tree(cur) /\ t.path \in Seq(Name) /\ t.content \in Content /\ HasLeg(t.content)
  BY <1>1, TaskIs DEF Tree
<1>3. /\ t.path = cur \/ (claim # None /\ t.path \in Emit)
      /\ ~Due(agenda, t.path) /\ Old[t.path] = t.content
      /\ Alone(Emit \cup Shut(agenda), t.path, Spot(t))
  BY <1>1 DEF Sound, LegInv
<1>4. claim = None => Lost(agenda, claim, held, cur) = Below(cur)
  BY <1>1 DEF Lost
<1>5. t.path \notin Lost(agenda, claim, held, cur)
  <2>1. cur \notin Below(cur)
    BY <1>1, UnderIsOrder DEF Below
  <2> QED BY <1>2, <1>3, <1>4, <2>1, BondNow
<1>6. Bond[t.path] = t.content
  BY <1>2, <1>3, <1>5, BondNow
<1>7. HoldsAt(t.content, t.path, Spot(t), t.content)
  BY <1>2 DEF HoldsAt, Spot
<1> HIDE DEF t
<1>8. Promised(t.path, Spot(t), t.content)
  BY <1>1, <1>2, <1>3, <1>4, <1>6, <1>7, PromiseIs
<1> QED BY <1>8 DEF t

\* A step that puts on record, or opens, what is promised.
LEMMA Growing ==
  ASSUME IInv, IInv', NestInv, Sound, AtTask, Works, NEW o, NEW x, NEW w, Promised(o, x, w), w # None,
         claim # None \/ Head(agenda).op = "leg",
         \A p \in Seq(Name) : p \notin Tree(x) =>
           Bond'[p] = Bond[p] /\ (p \in Exempt => p \in Exempt'),
         Bond'[x] = w,
         \A q \in Below(x) : Bond'[q] # None => Fine(Bond', Exempt', q)
  PROVE  /\ BondFine' /\ CurStrict'
         /\ \A r \in Seq(Name) : r \notin Tree(cur) /\ Strict(Bond, r) => Strict(Bond', r)
<1>1. /\ cur \in Seq(Name) /\ agenda # <<>> /\ cur' = cur
  BY TaskAt DEF AtTask, Works
<1>2. o \in Seq(Name) /\ x \in Seq(Name) /\ Under(o, x) /\ (o = cur \/ Under(cur, o))
  BY DEF Promised, Tree, Below
<1>3. \A e \in Seq(Name) : ~Under(x, e) /\ e # x => e \notin Tree(x)
  BY DEF Tree
<1>4. Bond'[o] = Bond[o] /\ Bond'[o] # None
  <2>1. ~Under(x, o) /\ o # x
    BY <1>2, UnderIsOrder, Zenon
  <2> QED BY <1>2, <1>3, <2>1 DEF Promised
<1>5. ASSUME NEW e \in Seq(Name), Under(o, e), Under(e, x) PROVE Bond'[e] = None
  <2>1. ~Under(x, e) /\ e # x
    BY <1>2, <1>5, UnderIsOrder, Zenon
  <2> QED BY <1>3, <1>5, <2>1 DEF Promised
<1>6. \A q \in Seq(Name) : Bond[q] # None => Fine(Bond, Exempt, q)
  BY DEF Sound, BondFine
<1>7. HoldsAt(Bond'[o], o, x, Bond'[x])
  BY <1>4 DEF Promised
<1>8. /\ \A q \in Seq(Name) : Bond'[q] # None => Fine(Bond', Exempt', q)
      /\ \A r \in Seq(Name) : ~Under(o, r) /\ Strict(Bond, r) => Strict(Bond', r)
  <2>1. Regrowth(o, x, Bond, Bond', Exempt, Exempt')
    BY <1>4, <1>5, <1>6, <1>7 DEF Regrowth
  <2> QED BY <1>2, <2>1, Regrown
<1>9. ~Under(o, cur) /\ \A r \in Seq(Name) : r \notin Tree(cur) => ~Under(o, r)
  BY <1>1, <1>2, UnderIsOrder, Zenon DEF Tree
<1>10. Strict(Bond, cur)
  BY <1>1, ExpansionAssumption DEF Sound, CurStrict
<1>11. Strict(Bond', cur')
  BY <1>1, <1>8, <1>9, <1>10
<1> QED BY <1>8, <1>9, <1>11 DEF BondFine, CurStrict

-----------------------------------------------------------------------------
(* A unit under the claim *)

LEMMA Quiet ==
  ASSUME IInv, Sound, AtTask, Works, claim # None \/ Head(agenda).op # "unit",
         \A p \in Seq(Name) : Bond'[p] = Bond[p] /\ (Bond'[p] # None /\ p \in Exempt => p \in Exempt')
  PROVE  /\ BondFine' /\ CurStrict'
         /\ \A r \in Seq(Name) : Strict(Bond, r) => Strict(Bond', r)
<1>1. /\ cur \in Seq(Name) /\ agenda # <<>> /\ cur' = cur
  BY TaskAt DEF AtTask, Works
<1>2. /\ \A q \in Seq(Name) : Fine(Bond, Exempt, q) => Fine(Bond', Exempt', q)
      /\ \A r \in Seq(Name) : Strict(Bond, r) => Strict(Bond', r)
  BY SameBond
<1>3. Strict(Bond, cur)
  BY <1>1, ExpansionAssumption DEF Sound, CurStrict
<1> QED BY <1>1, <1>2, <1>3 DEF Sound, BondFine, CurStrict

LEMMA NestedQuiet ==
  ASSUME IInv, IInv', NestInv, NestInv', Sound, AtTask, Works, claim # None, claim' # None,
         \A p : p \in claim'.emitted <=> p \in claim.emitted,
         \A p, c : Closing(agenda', p, c) <=> Closing(agenda, p, c),
         held' # None => /\ ~Stands(held'.record)
                         /\ Bond[held'.path] = None /\ ~Due(agenda, held'.path)
  PROVE  /\ BondFine' /\ CurStrict' /\ OldFine'
         /\ \A r \in Seq(Name) : Strict(Bond, r) => Strict(Bond', r)
<1>1. \A p : p \in Emit' <=> p \in Emit \/ (p \in Below(cur) /\ held' # None /\ p = held'.path)
  BY EmitAfter
<1>2. ASSUME NEW p \in Seq(Name), held' = None \/ p # held'.path
      PROVE  Bond'[p] = Bond[p] /\ (p \in Exempt' <=> p \in Exempt)
  <2>1. p \in Emit' <=> p \in Emit
    BY <1>1, <1>2
  <2> QED BY <1>2, <2>1, NestedBond
<1>3. ASSUME NEW p \in Seq(Name), held' # None, p = held'.path
      PROVE  Bond'[p] = None /\ Bond[p] = None
  <2>1. ~Due(agenda', p)
    BY <1>3, DueIs, Zenon
  <2>2. Old'[p] = None
    BY <1>3, NowAfter
  <2> QED BY <1>3, <2>1, <2>2, BondNext
<1>4. \A p \in Seq(Name) : Bond'[p] = Bond[p] /\ (Bond'[p] # None /\ p \in Exempt => p \in Exempt')
  BY <1>2, <1>3
<1>5. OldFine'
  BY OldFineStays DEF Sound
<1> QED BY <1>4, <1>5, Quiet

LEMMA BareIs ==
  ASSUME NEW T, NEW b \in Seq(T), Bare(b), b # <<>>
  PROVE  Bare(Tail(b)) /\ Head(b).op \notin {"unit", "leg"}
<1>1. /\ Len(b) \in Nat \ {0} /\ Head(b) = b[1]
      /\ Len(Tail(b)) = Len(b) - 1 /\ \A i \in 1..Len(b) - 1 : Tail(b)[i] = b[i + 1]
  BY EmptySeq, LenProperties, HeadTailProperties
<1>2. 1 \in 1..Len(b) /\ \A i \in 1..Len(b) - 1 : i + 1 \in 1..Len(b)
  BY <1>1
<1> QED BY <1>1, <1>2 DEF Bare

LEMMA UnitPromised ==
  ASSUME IInv, NestInv, Sound, AtTask, claim # None, Head(agenda).op = "unit"
  PROVE  \E o \in Tree(cur) : /\ Promised(o, Head(agenda).path, Head(agenda).content)
                              /\ Due(agenda, o)
<1>1. /\ Pending(claim, Head(agenda)) /\ Head(agenda).op # "leg"
      /\ Spot(Head(agenda)) = Head(agenda).path /\ What(Head(agenda)) = Head(agenda).content
  BY DEF Pending, Spent, Spot, What
<1> QED BY <1>1, ContainerPromises

\* What is left after a unit is clear of its tree.
LEMMA UnitTasks ==
  ASSUME IInv, NestInv, Sound, AtTask, claim # None, Head(agenda).op = "unit", NEW ce, NEW N,
         \A k : k \in claim.claimed => k \in ce.claimed,
         \A e \in N : e \in Emit \cup Shut(agenda) \/ e \in Tree(Head(agenda).path)
  PROVE  /\ Rest \in Seq(Task(cur)) /\ Rest # <<>>
         /\ Bare(Rest) /\ Homed(Rest) /\ Cleared(Rest, ce) /\ Vowed(Rest, ce, N)
         /\ Bare(Tail(Rest)) /\ Head(Rest).op # "leg"
         /\ \A k \in 1..Len(Rest) : Pending(ce, Rest[k]) =>
              /\ Rest[k] \in Task(cur) /\ Rest[k].op = "member"
              /\ ~Comparable(Head(agenda).path, Spot(Rest[k]))
<1> DEFINE u == Head(agenda)
<1>1. /\ EndAlike(agenda, 1, Rest, 0) /\ 1 \in 1..Len(agenda) /\ Rest \in Seq(Task(cur))
      /\ u \in Task(cur) /\ cur \in Seq(Name) /\ Rest # <<>>
  <2>1. EndAlike(agenda, 1, Rest, 0) /\ Len(agenda) \in Nat \ {0} /\ Rest \in Seq(Task(cur))
    BY RestAlike
  <2>2. u \in Task(cur) /\ cur \in Seq(Name) /\ Rest # <<>>
    BY TaskAt
  <2> QED BY <2>1, <2>2
<1>2. u.path \in Seq(Name)
  BY <1>1, TaskIs DEF Tree
<1>3. \A t : Pending(ce, t) => Pending(claim, t)
  BY DEF Pending, Spent
<1>4. ASSUME NEW t \in Task(cur), t.op = "member", Clear(u, t)
      PROVE  ~Comparable(u.path, Spot(t)) /\ Spot(t) \in Seq(Name)
  <2>1. Spot(u) = u.path /\ ~Under(Spot(u), Spot(t)) /\ ~Under(Spot(t), Spot(u)) /\ Spot(u) # Spot(t)
    BY <1>4 DEF Clear, Spot
  <2>2. Spot(t) \in Seq(Name)
    BY <1>1, <1>4, SpotIs
  <2> QED BY <2>1, <2>2 DEF Comparable
<1>5. ASSUME NEW t \in Task(cur), t.op = "member", Clear(u, t), NEW e \in N
      PROVE  e \in Emit \cup Shut(agenda) \/ ~Comparable(e, Spot(t))
  <2>1. ~Comparable(u.path, Spot(t)) /\ Spot(t) \in Seq(Name)
    BY <1>4, <1>5
  <2> QED BY <1>2, <2>1, ApartBelow
<1>6. TasksInv
  BY DEF Sound
<1>7. /\ Bare(Rest) /\ Homed(Rest) /\ Cleared(Rest, ce) /\ Vowed(Rest, ce, N)
      /\ \A k \in 1..Len(Rest) : Pending(ce, Rest[k]) =>
           Rest[k] \in Task(cur) /\ Rest[k].op = "member" /\ Clear(u, Rest[k])
  BY <1>1, <1>3, <1>5, <1>6, TasksLeft
<1>8. Bare(Tail(Rest)) /\ Head(Rest).op # "leg"
  BY <1>1, <1>7, BareIs
<1> QED BY <1>1, <1>4, <1>7, <1>8

\* A unit under the claim is put on record with its own content, and what lies
\* below it is kept as it was or not at all.
LEMMA NestedUnit ==
  ASSUME IInv, IInv', NestInv, NestInv', Sound, AtTask, Works, claim # None, claim' # None,
         Head(agenda).op = "unit", Head(agenda).content \in Content,
         held' # None, held'.path = Head(agenda).path,
         Stands(held'.record), held'.record.hash = Head(agenda).content,
         \A p : p \in claim.emitted => p \in claim'.emitted,
         \A p : p \in claim'.emitted => p \in claim.emitted \/ p \in Below(Head(agenda).path),
         \A p, c : Closing(agenda', p, c) <=> Closing(agenda, p, c),
         \/ \A q \in Below(Head(agenda).path) : q \notin claim'.emitted \/ q \in claim.emitted
         \/ /\ Old[Head(agenda).path] = Head(agenda).content
            /\ Head(agenda).path \in Lax => Head(agenda).path \in Lax'
            /\ \A q \in Below(Head(agenda).path) : q \in claim'.emitted \/ Old[q] = None
  PROVE  /\ BondFine' /\ CurStrict' /\ OldFine'
         /\ \A r \in Seq(Name) : r \notin Tree(cur) /\ Strict(Bond, r) => Strict(Bond', r)
         /\ \A e \in Emit' : e \in Emit \/ e \in Tree(Head(agenda).path)
<1> DEFINE x == Head(agenda).path
           w == Head(agenda).content
<1>1. PICK o \in Tree(cur) : Promised(o, x, w)
  BY UnitPromised
<1>2. /\ x \in Seq(Name) /\ x \in Below(cur) /\ x \in Tree(x) /\ Below(x) \subseteq Tree(x)
      /\ \A e \in Tree(x) : e \in Seq(Name) /\ e \notin Emit \cup Shut(agenda) /\ Bond[e] = None
  BY <1>1 DEF Promised, Below, Tree
<1>3. /\ Emit = claim.emitted
      /\ \A p : p \in Emit' <=> p \in claim'.emitted \/ (p \in Below(cur) /\ p = x)
  BY EmitAfter
<1>4. \A p \in Seq(Name) : p \notin Tree(x) =>
        Bond'[p] = Bond[p] /\ (p \in Exempt => p \in Exempt')
  <2>1. SUFFICES ASSUME NEW p \in Seq(Name), p \notin Tree(x)
                 PROVE  Bond'[p] = Bond[p] /\ (p \in Exempt => p \in Exempt')
    OBVIOUS
  <2>2. p # held'.path /\ (p \in Emit' <=> p \in Emit)
    BY <1>2, <1>3, <2>1
  <2> QED BY <2>2, NestedBond
<1>5. \A e \in Tree(x) : ~Due(agenda', e)
  <2>1. \A e \in Tree(x) : ~Due(agenda, e)
    BY <1>2 DEF Shut
  <2> QED BY <2>1, DueIs, Zenon
<1>6. Old'[x] = w /\ \A p \in Seq(Name) : p # x => Old'[p] = Old[p] /\ (p \in Lax' <=> p \in Lax)
  BY NowAfter
<1>7. Bond'[x] = w
  BY <1>2, <1>3, <1>5, <1>6, BondNext
<1>8. cur' = cur
  BY DEF Works
<1>9. \A p \in Below(x) : Bond'[p] = IF p \in claim'.emitted THEN Old[p] ELSE None
  <2>1. SUFFICES ASSUME NEW p \in Below(x)
                 PROVE  Bond'[p] = IF p \in claim'.emitted THEN Old[p] ELSE None
    OBVIOUS
  <2>2. p \in Seq(Name) /\ p \in Tree(x) /\ p # x /\ p \in Below(cur)
    BY <1>2, TaskAt, UnderIsOrder, Zenon DEF Below, Tree
  <2> QED BY <1>3, <1>5, <1>6, <1>8, <2>2, BondNext
<1>10. ASSUME NEW q \in Below(x), Bond'[q] # None PROVE Fine(Bond', Exempt', q)
  <2>1. q \in Tree(x) /\ q \in claim'.emitted /\ q \notin claim.emitted /\ Old[q] # None
    BY <1>2, <1>3, <1>9, <1>10
  <2>2. /\ Old[x] = w /\ (x \in Lax => x \in Lax')
        /\ \A p \in Below(x) : p \in claim'.emitted \/ Old[p] = None
    BY <2>1
  <2>3. Untouched(x)
    BY <1>2 DEF Untouched
  <2>4. w # None
    BY ExpansionAssumption
  <2>5. Fine(Old, Lax, q)
    BY <1>2, <2>1, <2>2, <2>3, <2>4 DEF Sound, OldFine, Below
  <2>6. \A p \in Tree(x) : Bond'[p] = Old[p] /\ (p \in Lax => p \in Exempt')
    <3>1. SUFFICES ASSUME NEW p \in Tree(x) PROVE Bond'[p] = Old[p] /\ (p \in Lax => p \in Exempt')
      OBVIOUS
    <3>2. p = x \/ p \in Below(x)
      BY DEF Tree, Below
    <3>3. p \in Lax => p \in Lax'
      BY <1>2, <1>6, <2>2
    <3>4. Bond'[p] = Old[p]
      BY <1>7, <1>9, <2>2, <3>2
    <3> QED BY <1>5, <3>3, <3>4 DEF Exempt
  <2> QED BY <1>2, <1>7, <2>4, <2>5, <2>6, FineInside
<1>11. OldFine'
  BY OldFineStays DEF Sound
<1>12. \A e \in Emit' : e \in Emit \/ e \in Tree(x)
  BY <1>2, <1>3
<1>13. w # None
  BY ExpansionAssumption
<1> HIDE DEF x, w
<1>14. /\ BondFine' /\ CurStrict'
       /\ \A r \in Seq(Name) : r \notin Tree(cur) /\ Strict(Bond, r) => Strict(Bond', r)
  BY <1>1, <1>4, <1>7, <1>10, <1>13, Growing
<1> QED BY <1>11, <1>12, <1>14 DEF x

\* A task that is done, and what is left is clear.
LEMMA DoneSound ==
  ASSUME IInv, IInv', NestInv, Sound, AtTask, Works, claim # None, claim' # None, agenda' = Rest,
         Head(agenda).op # "reconcile",
         Bare(Rest), Homed(Rest), Cleared(Rest, claim'), Vowed(Rest, claim', Emit' \cup Shut(Rest)),
         held' # None => held'.record.status # "removed",
         Head(agenda).op \in {"unit", "close"} => held' # None /\ held'.path = Head(agenda).path,
         BondFine', OldFine', CurStrict',
         \A r \in Seq(Name) : r \notin Tree(cur) /\ Strict(Bond, r) => Strict(Bond', r)
  PROVE  Sound'
<1>1. Rest \in Seq(Task(cur)) /\ Rest # <<>>
  <2>1. Rest \in Seq(Task(cur))
    BY RestAlike
  <2> QED BY <2>1, TaskAt
<1>2. Bare(Tail(Rest)) /\ Head(Rest).op # "leg"
  BY <1>1, BareIs
<1>3. TasksInv' /\ LegInv'
  BY <1>2 DEF TasksInv, LegInv
<1>4. cur \in DOMAIN Now' \/ Due(agenda', cur)
  BY CurRecorded DEF Sound
<1> QED BY <1>3, <1>4, Working

\* A unit under the claim that is done.
LEMMA UnitSound ==
  ASSUME IInv, IInv', NestInv, Sound, AtTask, Works, claim # None, claim' # None, agenda' = Rest,
         Head(agenda).op = "unit", \A k : k \in claim.claimed => k \in claim'.claimed,
         held' # None, held'.path = Head(agenda).path, held'.record.status # "removed",
         \A e \in Emit' : e \in Emit \/ e \in Tree(Head(agenda).path),
         BondFine', OldFine', CurStrict',
         \A r \in Seq(Name) : r \notin Tree(cur) /\ Strict(Bond, r) => Strict(Bond', r)
  PROVE  Sound'
<1>1. Shut(Rest) = Shut(agenda)
  <2>1. agenda \in Seq(Task(cur)) /\ Nested(agenda) /\ agenda # <<>>
    BY TypedAgenda DEF NestInv, AtTask
  <2>2. \A p : Due(Rest, p) <=> Due(agenda, p)
    BY <2>1, ClosingTail, DueIs, Zenon DEF Rest
  <2> QED BY <2>2 DEF Shut
<1>2. \A e \in Emit' \cup Shut(Rest) : e \in Emit \cup Shut(agenda) \/ e \in Tree(Head(agenda).path)
  BY <1>1
<1>3. Bare(Rest) /\ Homed(Rest) /\ Cleared(Rest, claim') /\ Vowed(Rest, claim', Emit' \cup Shut(Rest))
  <2>1. \A ce, N :
          /\ \A k : k \in claim.claimed => k \in ce.claimed
          /\ \A e \in N : e \in Emit \cup Shut(agenda) \/ e \in Tree(Head(agenda).path)
          => Bare(Rest) /\ Homed(Rest) /\ Cleared(Rest, ce) /\ Vowed(Rest, ce, N)
    BY UnitTasks
  <2> QED BY <1>2, <2>1
<1> QED BY <1>3, DoneSound

\* The closes that are due outlive a unit.
LEMMA ClosingRest ==
  ASSUME IInv, NestInv, AtTask, Head(agenda).op # "close"
  PROVE  \A p, c : Closing(Rest, p, c) <=> Closing(agenda, p, c)
<1>1. agenda \in Seq(Task(cur)) /\ Nested(agenda) /\ agenda # <<>>
  BY TypedAgenda DEF NestInv, AtTask
<1> QED BY <1>1, ClosingTail DEF Rest

LEMMA SkipIs ==
  ASSUME IInv, Skip
  PROVE  LET u == Head(agenda)
         IN /\ AtTask /\ u.op = "unit" /\ Works /\ agenda' = Rest
            /\ held' # None /\ held'.path = u.path /\ held'.record = terminal[u.path]
            /\ u.path \in DOMAIN terminal /\ u.content \in Content
            /\ held'.record.status \in Bearing /\ held'.record.hash = u.content
            /\ u.path \in Tree(cur) /\ (claim = None => u.path = cur /\ claim' = None)
<1> DEFINE u == Head(agenda)
<1>1. AtTask /\ u.op = "unit"
  BY DEF Skip, Doing, AtTask
<1>2. /\ Skippable(u.path, u.content)
      /\ held' = [path |-> u.path, record |-> terminal[u.path]]
      /\ claim = None => claim' = None
      /\ agenda' = Rest
      /\ UNCHANGED <<disk, run, dedup, expanded, book>>
  BY DEF Skip
<1>3. u.path \in Tree(cur) /\ u.content \in Content /\ (claim = None => u.path = cur)
  BY <1>1, UnitIs
<1>4. /\ u.path \in DOMAIN terminal /\ terminal[u.path].hash = u.content
      /\ terminal[u.path] \in Record /\ terminal[u.path].status \in Bearing
      /\ u.path \in DOMAIN mirror /\ mirror[u.path] = u.content /\ u.path \in Seq(Name)
  BY <1>1, <1>2, TaskAt DEF Skippable, Live, Intact
<1>5. Emits /\ held'.path = u.path /\ held'.record = terminal[u.path]
  BY <1>1, <1>2, <1>3, <1>4, TaskAt DEF Emits, Held, disk, Rested
<1>6. held' # None
  BY <1>5, ExpansionAssumption DEF Emits
<1>7. Works
  BY <1>1, <1>2, <1>5, TaskAt DEF Works, AtTask, disk, run, book
<1> QED BY <1>1, <1>2, <1>3, <1>4, <1>5, <1>6, <1>7

\* What a skip under the claim keeps.
LEMMA SkipClaims ==
  ASSUME IInv, IInv', Skip, claim # None
  PROVE  LET u == Head(agenda)
             kept == {q \in DOMAIN terminal : Under(u.path, q)}
         IN /\ claim' # None
            /\ \A p : p \in claim.emitted => p \in claim'.emitted
            /\ \A k : k \in claim.claimed => k \in claim'.claimed
            /\ \A k : k \in claim'.claimed => k \in claim.claimed \/ \E q \in kept : k = KeyOf(q)
            /\ \A p : p \in claim'.emitted => p \in claim.emitted \/ p \in kept
            /\ \/ claim'.emitted = claim.emitted /\ ~HasChildren(u.content)
               \/ \A p : p \in kept => p \in claim'.emitted
<1> DEFINE u == Head(agenda)
           kept == {q \in DOMAIN terminal : Under(u.path, q)}
           keys == IF HasLeg(u.content) THEN {KeyOf(q) : q \in kept} ELSE {}
<1>1. AtTask /\ u.op = "unit" /\ Works /\ agenda' = Rest
  BY SkipIs
<1>2. claim' = IF ~HasChildren(u.content) THEN claim
               ELSE [claim EXCEPT !.emitted = @ \cup kept, !.claimed = @ \cup keys]
  BY DEF Skip
<1>3. claim \in Claim
  BY <1>1, TaskAt
<1>4. \A k \in keys : \E q \in kept : k = KeyOf(q)
  OBVIOUS
<1>5. CASE ~HasChildren(u.content)
  BY <1>2, <1>5
<1>6. CASE HasChildren(u.content)
  <2> HIDE DEF kept, keys
  <2>1. claim' = [claim EXCEPT !.emitted = @ \cup kept, !.claimed = @ \cup keys]
    BY <1>2, <1>6
  <2>2. claim'.emitted = claim.emitted \cup kept /\ claim'.claimed = claim.claimed \cup keys
    BY <1>3, <2>1 DEF Claim
  <2>3. claim' # None
    <3>1. Rest # <<>> /\ Formed(Rest, TRUE, cur)
      BY <1>1, TaskAt
    <3>2. claim' = None => Formed(Rest, FALSE, cur)
      BY <1>1 DEF IInv, AgendaInv, Works
    <3>3. Formed(Rest, FALSE, cur) => Head(Rest).op \in {"unit", "leg", "retire"} /\ Len(Rest) = 1
      BY <3>1, AloneIs
    <3>4. Head(Rest) = Rest[1] /\ 1 \in DOMAIN Rest
      BY <3>1, FirstOf
    <3>5. Len(Rest) = 1 => Rest[1].op = "reconcile"
      BY <3>1, <3>4 DEF Formed
    <3> QED BY <3>2, <3>3, <3>4, <3>5
  <2> QED BY <1>4, <2>2, <2>3 DEF kept, u
<1> QED BY <1>5, <1>6

LEMMA NestedSkip ==
  ASSUME IInv, IInv', NestInv, NestInv', Sound, Skip, claim # None
  PROVE  Sound'
<1> DEFINE u == Head(agenda)
           kept == {q \in DOMAIN terminal : Under(u.path, q)}
<1>1. /\ AtTask /\ u.op = "unit" /\ Works /\ agenda' = Rest
      /\ held' # None /\ held'.path = u.path /\ held'.record = terminal[u.path]
      /\ u.path \in DOMAIN terminal /\ u.content \in Content
      /\ held'.record.status \in Bearing /\ held'.record.hash = u.content
      /\ u.path \in Tree(cur)
  BY SkipIs
<1>2. /\ claim' # None
      /\ \A p : p \in claim.emitted => p \in claim'.emitted
      /\ \A k : k \in claim.claimed => k \in claim'.claimed
      /\ \A p : p \in claim'.emitted => p \in claim.emitted \/ p \in kept
      /\ claim'.emitted = claim.emitted \/ \A p : p \in kept => p \in claim'.emitted
  BY SkipClaims
<1>3. Now = terminal /\ Old[u.path] = u.content /\ Stands(held'.record)
  <2>1. Now = terminal
    BY <1>1, NowAfter
  <2>2. Stands(terminal[u.path]) /\ u.path \in Seq(Name)
    BY <1>1, ExpansionAssumption DEF Stands, Tree
  <2> QED BY <1>1, <2>1, <2>2, HoldingIs DEF Old
<1>4. u.path \in Lax => u.path \in Lax'
  <2>1. Now'[u.path] = terminal[u.path] /\ u.path \in DOMAIN Now'
    BY <1>1, NowAfter
  <2>2. \A p : EverOccupied(p)' = EverOccupied(p)
    BY <1>1, NowAfter
  <2> QED BY <1>3, <2>1, <2>2 DEF Lax, LaxIn
<1>5. \A p, c : Closing(agenda', p, c) <=> Closing(agenda, p, c)
  BY <1>1, ClosingRest
<1>6. /\ \A p : p \in claim'.emitted => p \in claim.emitted \/ p \in Below(u.path)
      /\ \/ \A q \in Below(u.path) : q \notin claim'.emitted \/ q \in claim.emitted
         \/ /\ Old[u.path] = u.content
            /\ u.path \in Lax => u.path \in Lax'
            /\ \A q \in Below(u.path) : q \in claim'.emitted \/ Old[q] = None
  <2>1. \A q \in kept : q \in Below(u.path)
    BY <1>1, TaskAt DEF Below
  <2>2. \A q \in Below(u.path) : q \in kept \/ Old[q] = None
    BY <1>3, HoldingIs DEF Old, Below
  <2> QED BY <1>2, <1>3, <1>4, <2>1, <2>2
<1> HIDE DEF u, kept
<1>7. /\ BondFine' /\ CurStrict' /\ OldFine'
      /\ \A r \in Seq(Name) : r \notin Tree(cur) /\ Strict(Bond, r) => Strict(Bond', r)
      /\ \A e \in Emit' : e \in Emit \/ e \in Tree(u.path)
  BY <1>1, <1>2, <1>3, <1>5, <1>6, NestedUnit DEF u
<1>8. held'.record.status # "removed"
  BY <1>1 DEF Bearing
<1> QED BY <1>1, <1>2, <1>7, <1>8, UnitSound DEF u

\* A unit under the claim whose record is put in place, without a leg or what
\* it may hold.
LEMMA UnitConverted ==
  ASSUME IInv, IInv', NestInv, NestInv', Sound, AtTask, Works, claim # None, claim' # None,
         Head(agenda).op = "unit", agenda' = Rest,
         held' # None, held'.path = Head(agenda).path,
         held'.record.hash = Head(agenda).content, held'.record.status # "removed",
         claim'.emitted = claim.emitted, \A k : k \in claim.claimed => k \in claim'.claimed
  PROVE  Sound'
<1>1. \A p, c : Closing(agenda', p, c) <=> Closing(agenda, p, c)
  BY ClosingRest
<1>2. Head(agenda).content \in Content /\ Head(agenda).path \in Seq(Name)
  BY UnitIs DEF Tree
<1>3. CASE Stands(held'.record)
  <2>1. \A p : p \in claim'.emitted <=> p \in claim.emitted
    OBVIOUS
  <2>2. /\ BondFine' /\ CurStrict' /\ OldFine'
        /\ \A r \in Seq(Name) : r \notin Tree(cur) /\ Strict(Bond, r) => Strict(Bond', r)
        /\ \A e \in Emit' : e \in Emit \/ e \in Tree(Head(agenda).path)
    BY <1>1, <1>2, <1>3, <2>1, NestedUnit
  <2> QED BY <2>2, UnitSound
<1>4. CASE ~Stands(held'.record)
  <2>1. PICK o \in Tree(cur) : Promised(o, Head(agenda).path, Head(agenda).content)
    BY UnitPromised
  <2>2. /\ Head(agenda).path \in Tree(Head(agenda).path)
        /\ Bond[Head(agenda).path] = None /\ ~Due(agenda, Head(agenda).path)
    BY <1>2, <2>1 DEF Promised, Tree, Shut
  <2>3. /\ BondFine' /\ CurStrict' /\ OldFine'
        /\ \A r \in Seq(Name) : Strict(Bond, r) => Strict(Bond', r)
    BY <1>1, <1>4, <2>2, NestedQuiet
  <2>4. \A e \in Emit' : e \in Emit \/ e \in Tree(Head(agenda).path)
    BY <2>2, EmitAfter
  <2> QED BY <2>3, <2>4, UnitSound
<1> QED BY <1>3, <1>4

LEMMA ConvertIs ==
  ASSUME IInv, NEW u, u.path \in Tree(cur), u.content \in Content, Rested, Convert(u)
  PROVE  /\ Emits /\ held' # None /\ held'.path = u.path /\ held'.record.hash = u.content
         /\ held'.record.status \in {"text", "failed"}
         /\ ~Loaded(u) => held'.record.status = "failed"
<1>1. /\ Emits /\ held'.path = u.path /\ held'.record.hash = u.content
      /\ ~Loaded(u) => held'.record.status = "failed"
  BY Converting
<1>2. held'.record.status \in {"text", "failed"}
  BY DEF Convert, Fails, Write, Refuse
<1> QED BY <1>1, <1>2, ExpansionAssumption DEF Emits

\* What a unit that is neither skipped nor opened puts on record.
LEMMA RecordingIs ==
  ASSUME IInv, GuardFails \/ Borrow \/ Leaf \/ Primary
  PROVE  LET u == Head(agenda)
         IN /\ AtTask /\ u.op = "unit" /\ Works /\ u.content \in Content /\ u.path \in Tree(cur)
            /\ claim = None => u.path = cur
            /\ held' # None /\ held'.path = u.path /\ held'.record.hash = u.content
            /\ held'.record.status \in {"text", "borrowed", "failed"}
            /\ Borrow <=> held'.record.status = "borrowed" /\ Kind[u.content] = "leaf"
            /\ Primary => HasLeg(u.content) /\ (~Loaded(u) => held'.record.status = "failed")
            /\ Leaf => Kind[u.content] = "leaf" /\ held'.record.status \in {"text", "failed"}
            /\ GuardFails => held'.record.status = "failed" /\ Kind[u.content] = "container"
<1> DEFINE u == Head(agenda)
<1>1. AtTask /\ u.op = "unit"
  BY DEF GuardFails, Borrow, Leaf, Primary, Doing, AtTask
<1>2. u.path \in Tree(cur) /\ u.content \in Content /\ (claim = None => u.path = cur) /\ Rested
  BY <1>1, UnitIs, TaskAt
<1>3. UNCHANGED <<source, terminal, run, expanded, book>>
  BY DEF GuardFails, Borrow, Leaf, Primary
<1>4. /\ GuardFails => Refuse(u.path, "failed", u.content) /\ Kind[u.content] = "container"
      /\ Borrow => Write(u.path, "borrowed", u.content) /\ Kind[u.content] = "leaf"
      /\ Leaf => Convert(u) /\ Kind[u.content] = "leaf"
      /\ Primary => HasLeg(u.content) /\ (Convert(u) \/ (Loaded(u) /\ Write(u.path, "borrowed", u.content)))
  BY DEF GuardFails, Borrow, Leaf, Primary, Fails
<1> HIDE DEF u
<1>5. ASSUME Refuse(u.path, "failed", u.content)
      PROVE  Emits /\ held'.path = u.path /\ held'.record = [status |-> "failed", hash |-> u.content]
  BY <1>2, <1>5, Refusing DEF Status, Bearing
<1>6. ASSUME Write(u.path, "borrowed", u.content)
      PROVE  Emits /\ held'.path = u.path /\ held'.record = [status |-> "borrowed", hash |-> u.content]
  <2>1. "borrowed" \in Status
    BY DEF Status, Bearing
  <2> QED BY <1>2, <1>6, <2>1, Writing
<1>7. Convert(u) => /\ Emits /\ held'.path = u.path /\ held'.record.hash = u.content
                    /\ held'.record.status \in {"text", "failed"}
                    /\ ~Loaded(u) => held'.record.status = "failed"
  BY <1>2, ConvertIs
<1>8. /\ Emits /\ held'.path = u.path /\ held'.record.hash = u.content
      /\ held'.record.status \in {"text", "borrowed", "failed"}
  BY <1>4, <1>5, <1>6, <1>7
<1>9. held' # None
  BY <1>8, ExpansionAssumption DEF Emits
<1>10. Works
  BY <1>1, <1>3, <1>8, TaskAt DEF Works, AtTask, run, book
<1>11. /\ Borrow <=> held'.record.status = "borrowed" /\ Kind[u.content] = "leaf"
       /\ Primary => HasLeg(u.content) /\ (~Loaded(u) => held'.record.status = "failed")
       /\ Leaf => Kind[u.content] = "leaf" /\ held'.record.status \in {"text", "failed"}
       /\ GuardFails => held'.record.status = "failed" /\ Kind[u.content] = "container"
  BY <1>4, <1>5, <1>6, <1>7 DEF HasLeg
<1> QED BY <1>1, <1>2, <1>8, <1>9, <1>10, <1>11 DEF u

LEMMA NestedRecording ==
  ASSUME IInv, IInv', NestInv, NestInv', Sound, GuardFails \/ Borrow \/ Leaf, claim # None
  PROVE  Sound'
<1>1. claim' = claim /\ agenda' = Rest
  BY DEF GuardFails, Borrow, Leaf
<1>2. held'.record.status # "removed"
  BY RecordingIs
<1> QED BY <1>1, <1>2, RecordingIs, UnitConverted

LEMMA NestedPrimary ==
  ASSUME IInv, IInv', NestInv, NestInv', Sound, Primary, claim # None
  PROVE  Sound'
<1> DEFINE u == Head(agenda)
           key == KeyOf(LegPath(u.path, u.content))
           claims == Loaded(u) /\ claim # None /\ ~Occupied(u.path)
           collides == Occupied(u.path) \/ (claim # None /\ key \in claim.claimed)
           leg == [op |-> "leg", path |-> u.path, content |-> u.content]
<1>1. /\ AtTask /\ u.op = "unit" /\ Works /\ u.content \in Content /\ u.path \in Tree(cur)
      /\ held' # None /\ held'.path = u.path /\ held'.record.hash = u.content
      /\ HasLeg(u.content) /\ held'.record.status # "removed"
  BY RecordingIs
<1>2. /\ claim' = IF claims THEN [claim EXCEPT !.claimed = @ \cup {key}] ELSE claim
      /\ agenda' = IF Loaded(u) /\ ~collides THEN <<leg>> \o Rest ELSE Rest
  BY DEF Primary
<1>3. claim \in Claim /\ cur \in Seq(Name) /\ Rest \in Seq(Task(cur))
  BY <1>1, TaskAt, RestAlike
<1>4. key \in Seq(Name) /\ leg \in Task(cur) /\ leg.op = "leg" /\ leg.path = u.path /\ leg.content = u.content
  <2>1. LegName[Kind[u.content]] \in Name
    BY <1>1, ExpansionAssumption DEF HasLeg
  <2>2. LegPath(u.path, u.content) \in Seq(Name)
    BY <1>1, <2>1 DEF LegPath, Tree
  <2>3. leg \in Task(cur)
    BY <1>1 DEF Task
  <2> QED BY <2>2, <2>3, KeysArePaths
<1> HIDE DEF key, collides
<1>5. claim' # None /\ claim'.emitted = claim.emitted /\ \A k : k \in claim.claimed => k \in claim'.claimed
  <2>1. CASE claims
    <3>1. claim' = [claim EXCEPT !.claimed = @ \cup {key}]
      BY <1>2, <2>1
    <3>2. claim' \in Claim /\ claim'.emitted = claim.emitted /\ claim'.claimed = claim.claimed \cup {key}
      BY <1>3, <1>4, <3>1 DEF Claim
    <3> QED BY <3>2, ExpansionAssumption
  <2>2. CASE ~claims
    BY <1>2, <2>2
  <2> QED BY <2>1, <2>2
<1> HIDE DEF leg, u, claims
<1>6. CASE ~(Loaded(u) /\ ~collides)
  BY <1>1, <1>2, <1>5, <1>6, UnitConverted DEF u
<1>7. CASE Loaded(u) /\ ~collides
  <2>1. agenda' = <<leg>> \o Rest
    BY <1>2, <1>7
  <2>2. /\ agenda' \in Seq(Task(cur)) /\ agenda' # <<>> /\ Head(agenda') = leg /\ Tail(agenda') = Rest
        /\ \A p, c : Closing(agenda', p, c) <=> Closing(Rest, p, c)
    BY <1>3, <1>4, <2>1, ClosingPushed
  <2>3. \A p, c : Closing(agenda', p, c) <=> Closing(agenda, p, c)
    BY <1>1, <2>2, ClosingRest DEF u
  <2>4. Stands(held'.record) /\ u.path \in Seq(Name)
    BY <1>1, ExpansionAssumption DEF Stands, Tree
  <2>5. \A p : p \in claim'.emitted <=> p \in claim.emitted
    BY <1>5
  <2>6. /\ BondFine' /\ CurStrict' /\ OldFine'
        /\ \A r \in Seq(Name) : r \notin Tree(cur) /\ Strict(Bond, r) => Strict(Bond', r)
        /\ \A e \in Emit' : e \in Emit \/ e \in Tree(u.path)
    BY <1>1, <1>5, <2>3, <2>4, <2>5, NestedUnit DEF u
  <2>7. PICK o \in Tree(cur) : Promised(o, u.path, u.content)
    BY <1>1, UnitPromised DEF u
  <2>8. Shut(agenda') = Shut(agenda) /\ \A p : Due(agenda', p) <=> Due(agenda, p)
    <3>1. \A p : Due(agenda', p) <=> Due(agenda, p)
      BY <2>3, DueIs, Zenon
    <3> QED BY <3>1 DEF Shut
  <2>9. /\ \A e \in Tree(u.path) : e \notin Emit \cup Shut(agenda)
        /\ u.path \in Below(cur) /\ u.path \in Tree(u.path)
    BY <2>4, <2>7 DEF Promised, Tree
  <2>10. TasksInv'
    <3> DEFINE N == Emit' \cup Shut(agenda')
    <3>1. \A e \in N : e \in Emit \cup Shut(agenda) \/ e \in Tree(u.path)
      BY <2>6, <2>8
    <3>2. \A ce, M : /\ \A k : k \in claim.claimed => k \in ce.claimed
                     /\ \A e \in M : e \in Emit \cup Shut(agenda) \/ e \in Tree(Head(agenda).path)
                     => /\ Bare(Rest) /\ Homed(Rest) /\ Cleared(Rest, ce) /\ Vowed(Rest, ce, M)
                        /\ \A k \in 1..Len(Rest) : Pending(ce, Rest[k]) =>
                             /\ Rest[k] \in Task(cur) /\ Rest[k].op = "member"
                             /\ ~Comparable(Head(agenda).path, Spot(Rest[k]))
      BY <1>1, UnitTasks DEF u
    <3>3. /\ Bare(Rest) /\ Homed(Rest) /\ Cleared(Rest, claim') /\ Vowed(Rest, claim', N)
          /\ \A k \in 1..Len(Rest) : Pending(claim', Rest[k]) =>
               /\ Rest[k] \in Task(cur) /\ Rest[k].op = "member"
               /\ ~Comparable(u.path, Spot(Rest[k]))
      BY <1>5, <3>1, <3>2 DEF u
    <3>4. Spot(leg) \in Tree(u.path)
      <4>1. Spot(leg) \in Below(u.path)
        BY <1>3, <1>4, SpotIs
      <4> QED BY <4>1 DEF Tree, Below
    <3>5. ASSUME NEW k \in 1..Len(Rest), Pending(claim', Rest[k]) PROVE Clear(leg, Rest[k])
      <4>1. /\ Rest[k] \in Task(cur) /\ Rest[k].op = "member" /\ ~Comparable(u.path, Spot(Rest[k]))
        BY <3>3, <3>5
      <4>2. Spot(Rest[k]) \in Seq(Name)
        BY <1>3, <4>1, SpotIs
      <4>3. ~Comparable(Spot(leg), Spot(Rest[k]))
        BY <2>4, <3>4, <4>1, <4>2, ApartBelow
      <4> QED BY <1>4, <4>3 DEF Clear, Comparable
    <3> HIDE DEF N
    <3>6. Bare(Tail(agenda')) /\ Homed(agenda') /\ Cleared(agenda', claim') /\ Vowed(agenda', claim', N)
      <4>1. \A ce, M :
              /\ Bare(Rest) /\ Homed(Rest) /\ Cleared(Rest, ce) /\ Vowed(Rest, ce, M)
              /\ \A k \in 1..Len(Rest) : Pending(ce, Rest[k]) => Clear(leg, Rest[k])
              => LET a == <<leg>> \o Rest
                 IN Bare(Tail(a)) /\ Homed(a) /\ Cleared(a, ce) /\ Vowed(a, ce, M)
        BY <1>3, <1>4, TaskPushed
      <4> QED BY <2>1, <3>3, <3>5, <4>1
    <3> QED BY <3>6 DEF TasksInv, N
  <2>11. LegInv'
    <3>1. Old'[u.path] = u.content
      BY <1>1, <2>4, NowAfter
    <3>2. u.path \in Emit'
      BY <1>1, <1>5, <2>9, EmitAfter
    <3>3. ~Due(agenda', u.path)
      BY <2>8, <2>9 DEF Shut, Tree
    <3>4. ASSUME NEW e \in Emit' \cup Shut(agenda'), Under(u.path, e) PROVE FALSE
      <4>1. e \in Seq(Name)
        <5>1. e \in Shut(agenda') => e \in Seq(Name)
          BY DEF Shut
        <5>2. e \in Emit' => e \in claim'.emitted \/ e \in Below(cur)
          BY <1>1, <1>5, EmitAfter
        <5>3. claim.emitted \subseteq Seq(Name)
          BY <1>3 DEF Claim
        <5> QED BY <1>5, <5>1, <5>2, <5>3 DEF Below
      <4>2. e \in Tree(u.path) /\ e # u.path
        BY <2>4, <3>4, <4>1, UnderIsOrder DEF Tree
      <4>3. e \notin Emit \cup Shut(agenda)
        BY <2>9, <4>2
      <4>4. e \in Emit' => e \in Emit \/ e = u.path
        BY <1>1, <1>5, EmitAfter
      <4> QED BY <2>8, <4>2, <4>3, <4>4
    <3>5. Alone(Emit' \cup Shut(agenda'), u.path, Spot(leg))
      BY <3>4 DEF Alone
    <3> QED BY <1>4, <1>5, <2>2, <3>1, <3>2, <3>3, <3>5 DEF LegInv
  <2>12. cur \in DOMAIN Now' \/ Due(agenda', cur)
    <3>1. \A p : Due(Rest, p) => Due(agenda', p)
      BY <2>2, DueIs, Zenon
    <3> QED BY <1>1, <3>1, CurRecorded DEF u, Sound
  <2> QED BY <1>1, <2>6, <2>10, <2>11, <2>12, Working
<1> QED BY <1>6, <1>7

\* The first task of a container that is opened.
LEMMA FirstOfTasks ==
  ASSUME NEW r \in Seq(Name), NEW u \in Task(r), u.op = "unit", NEW b \in Seq(Task(r))
  PROVE  /\ Tasks(u) \o b \in Seq(Task(r)) /\ Tasks(u) \o b # <<>>
         /\ Head(Tasks(u) \o b).op \in {"member", "close"}
<1> DEFINE s == Tasks(u)
           n == Len(Members[u.content])
           a == s \o b
<1>1. /\ s \in Seq(Task(r)) /\ Len(s) = n + 1 /\ n \in Nat
      /\ \A i \in 1..n : s[i].op = "member"
      /\ s[n + 1].op = "close"
  BY TasksAre
<1> HIDE DEF s, n
<1>2. a \in Seq(Task(r)) /\ \A i \in 1..Len(s) : i \in 1..Len(a) /\ a[i] = s[i]
  <2>1. a \in Seq(Task(r))
    BY <1>1
  <2>2. \A i \in 1..Len(s) : i \in 1..Len(a) /\ a[i] = s[i]
    BY <1>1, ConcatIs
  <2> QED BY <2>1, <2>2
<1> HIDE DEF a
<1>3. 1 \in 1..Len(s) /\ (1 \in 1..n \/ 1 = n + 1)
  BY <1>1
<1>4. a # <<>> /\ Head(a) = a[1]
  BY <1>2, <1>3, EmptySeq
<1>5. a \in Seq(Task(r)) /\ a # <<>> /\ Head(a).op \in {"member", "close"}
  BY <1>1, <1>2, <1>3, <1>4
<1> QED BY <1>5 DEF a, s

LEMMA OpenIs ==
  ASSUME IInv, Open
  PROVE  LET u == Head(agenda)
             after == IF claim = None THEN <<[op |-> "reconcile"]>> \o Rest ELSE Rest
         IN /\ AtTask /\ u.op = "unit" /\ Works /\ u.content \in Content /\ u.path \in Tree(cur)
            /\ u \in Task(cur) /\ cur \in Seq(Name)
            /\ claim' = IF claim = None THEN NewClaim(u.path) ELSE claim
            /\ claim = None => u.path = cur
            /\ \/ /\ agenda' = after
                  /\ held' # None /\ held'.path = u.path /\ held'.record.hash = u.content
                  /\ held'.record.status = "failed"
               \/ agenda' = Tasks(u) \o after /\ held' = None
<1> DEFINE u == Head(agenda)
           after == IF claim = None THEN <<[op |-> "reconcile"]>> \o Rest ELSE Rest
<1>1. AtTask /\ u.op = "unit"
  BY DEF Open, Doing, AtTask
<1>2. /\ claim' = IF claim = None THEN NewClaim(u.path) ELSE claim
      /\ \/ Refuse(u.path, "failed", u.content) /\ agenda' = after
         \/ agenda' = Tasks(u) \o after /\ UNCHANGED <<mirror, held>>
      /\ UNCHANGED <<source, terminal, run, dedup, expanded, book>>
  BY DEF Open, Fails
<1>3. /\ u.path \in Tree(cur) /\ u.content \in Content /\ (claim = None => u.path = cur)
      /\ u \in Task(cur) /\ cur \in Seq(Name)
  BY <1>1, UnitIs, TaskAt
<1> HIDE DEF after, u
<1>4. ASSUME Refuse(u.path, "failed", u.content)
      PROVE  /\ Emits /\ held' # None /\ held'.path = u.path
             /\ held'.record.hash = u.content /\ held'.record.status = "failed"
  <2>1. Emits /\ held'.path = u.path /\ held'.record = [status |-> "failed", hash |-> u.content]
    BY <1>1, <1>3, <1>4, TaskAt, Refusing DEF Status, Bearing
  <2> QED BY <2>1, ExpansionAssumption DEF Emits
<1>5. Works
  BY <1>1, <1>2, <1>4, TaskAt DEF Works, AtTask, run, book
<1>6. held = None
  BY <1>1 DEF AtTask
<1> QED BY <1>1, <1>2, <1>3, <1>4, <1>5, <1>6 DEF u, after

LEMMA NestedOpening ==
  ASSUME Separate, IInv, IInv', NestInv, NestInv', Sound, Open, claim # None
  PROVE  Sound'
<1> DEFINE u == Head(agenda)
           x == u.path
           w == u.content
<1>1. /\ AtTask /\ u.op = "unit" /\ Works /\ w \in Content /\ x \in Tree(cur)
      /\ u \in Task(cur) /\ cur \in Seq(Name) /\ claim' = claim
      /\ \/ /\ agenda' = Rest
            /\ held' # None /\ held'.path = x /\ held'.record.hash = w
            /\ held'.record.status = "failed"
         \/ agenda' = Tasks(u) \o Rest /\ held' = None
  BY OpenIs
<1> HIDE DEF u, x, w
<1>2. CASE agenda' = Rest /\ held' # None /\ held'.path = x /\ held'.record.hash = w
           /\ held'.record.status = "failed"
  BY <1>1, <1>2, UnitConverted DEF u, x, w
<1>3. CASE agenda' = Tasks(u) \o Rest /\ held' = None
  <2>1. Rest \in Seq(Task(cur)) /\ x \in Seq(Name)
    BY <1>1, RestAlike DEF Tree
  <2>2. \A p, c : Closing(agenda', p, c) <=> Closing(agenda, p, c) \/ (x = p /\ w = c)
    <3>1. \A p, c : Closing(agenda', p, c) <=> Closing(Rest, p, c) \/ (x = p /\ w = c)
      BY <1>1, <1>3, <2>1, ClosingTasks DEF x, w
    <3>2. \A p, c : Closing(Rest, p, c) <=> Closing(agenda, p, c)
      BY <1>1, ClosingRest DEF u
    <3> QED BY <3>1, <3>2
  <2>3. PICK o \in Tree(cur) : Promised(o, x, w)
    BY <1>1, UnitPromised DEF u, x, w
  <2>4. /\ \A e \in Tree(x) : e \notin Emit \cup Shut(agenda) /\ Bond[e] = None
        /\ x \in Tree(x)
    BY <2>1, <2>3 DEF Promised, Tree
  <2>5. \A p : p \in Emit' <=> p \in Emit
    BY <1>1, <1>3, EmitAfter
  <2>6. ASSUME NEW p \in Seq(Name), p # x
        PROVE  Bond'[p] = Bond[p] /\ (p \in Exempt' <=> p \in Exempt)
    <3>1. \A c : Closing(agenda', p, c) <=> Closing(agenda, p, c)
      BY <2>2, <2>6
    <3> QED BY <1>1, <1>3, <2>5, <3>1, NestedBond
  <2>7. Bond'[x] = w
    <3>1. Closing(agenda', x, w)
      BY <2>2
    <3> QED BY <2>1, <3>1, BondNext
  <2>8. w # None
    BY <1>1, ExpansionAssumption
  <2>9. \A p \in Seq(Name) : p \notin Tree(x) => Bond'[p] = Bond[p] /\ (p \in Exempt => p \in Exempt')
    BY <2>4, <2>6
  <2>10. \A q \in Below(x) : Bond'[q] = None
    <3>1. SUFFICES ASSUME NEW q \in Below(x) PROVE Bond'[q] = None
      OBVIOUS
    <3>2. q \in Seq(Name) /\ q # x /\ q \in Tree(x)
      BY <2>1, UnderIsOrder DEF Below, Tree
    <3> QED BY <2>4, <2>6, <3>2
  <2>11. /\ BondFine' /\ CurStrict'
         /\ \A r \in Seq(Name) : r \notin Tree(cur) /\ Strict(Bond, r) => Strict(Bond', r)
    BY <1>1, <2>3, <2>7, <2>8, <2>9, <2>10, Growing
  <2>12. OldFine'
    BY <1>1, OldFineStays DEF Sound
  <2>13. /\ \A p : Due(agenda', p) <=> Due(agenda, p) \/ p = x
         /\ \A e \in Shut(agenda') : e \in Shut(agenda) \/ e = x
    <3>1. \A p : Due(agenda', p) <=> Due(agenda, p) \/ p = x
      BY <2>2, DueIs
    <3> QED BY <3>1 DEF Shut
  <2>14. TasksInv'
    <3> DEFINE N == Emit' \cup Shut(agenda')
    <3>1. \A e \in N : e \in Emit \cup Shut(agenda) \/ e \in Tree(x)
      BY <2>4, <2>5, <2>13
    <3>2. \A M : (\A e \in M : e \in Emit \cup Shut(agenda) \/ e \in Tree(Head(agenda).path))
                 => /\ Bare(Rest) /\ Homed(Rest) /\ Cleared(Rest, claim) /\ Vowed(Rest, claim, M)
                    /\ \A k \in 1..Len(Rest) : Pending(claim, Rest[k]) =>
                         /\ Rest[k] \in Task(cur) /\ Rest[k].op = "member"
                         /\ ~Comparable(Head(agenda).path, Spot(Rest[k]))
      BY <1>1, UnitTasks DEF u
    <3>3. /\ Bare(Rest) /\ Homed(Rest) /\ Cleared(Rest, claim) /\ Vowed(Rest, claim, N)
          /\ \A k \in 1..Len(Rest) : Pending(claim, Rest[k]) =>
               /\ Rest[k] \in Task(cur) /\ Rest[k].op = "member"
               /\ ~Comparable(u.path, Spot(Rest[k]))
      BY <3>1, <3>2 DEF u, x
    <3>4. ASSUME NEW e \in N, Under(x, e) PROVE FALSE
      <4>1. e \in Seq(Name)
        <5>1. e \in Shut(agenda') => e \in Seq(Name)
          BY DEF Shut
        <5>2. e \in Emit' => e \in claim.emitted /\ claim \in Claim
          BY <1>1, <1>3, EmitAfter, TaskAt
        <5> QED BY <5>1, <5>2 DEF Claim
      <4>2. e \in Tree(x) /\ e # x
        BY <2>1, <3>4, <4>1, UnderIsOrder DEF Tree
      <4> QED BY <2>4, <2>5, <2>13, <4>2
    <3> HIDE DEF N
    <3>5. \A M : /\ Vowed(Rest, claim, M) /\ \A e \in M : ~Under(u.path, e)
                 => LET a == Tasks(u) \o Rest
                    IN Bare(Tail(a)) /\ Homed(a) /\ Cleared(a, claim) /\ Vowed(a, claim, M)
      BY <1>1, <2>1, <3>3, ContainerPushed
    <3>6. Bare(Tail(agenda')) /\ Homed(agenda') /\ Cleared(agenda', claim) /\ Vowed(agenda', claim, N)
      BY <1>3, <3>3, <3>4, <3>5 DEF x
    <3> QED BY <1>1, <3>6 DEF TasksInv, N
  <2>15. LegInv'
    <3>1. Head(agenda').op \in {"member", "close"}
      BY <1>1, <1>3, <2>1, FirstOfTasks
    <3> QED BY <3>1 DEF LegInv
  <2>16. cur \in DOMAIN Now' \/ Due(agenda', cur)
    <3>1. \A p : Due(Rest, p) => Due(agenda', p)
      BY <1>1, <2>13, ClosingRest, DueIs DEF u
    <3>2. Due(agenda', x)
      BY <2>13
    <3> QED BY <1>1, <3>1, <3>2, CurRecorded DEF u, x, Sound
  <2> QED BY <1>1, <1>3, <2>11, <2>12, <2>14, <2>15, <2>16, Working
<1> QED BY <1>1, <1>2, <1>3

-----------------------------------------------------------------------------
(* An entry that claims its namespace *)

LEMMA OnlyReconcile ==
  LET a == <<[op |-> "reconcile"]>>
  IN /\ a # <<>> /\ Head(a).op = "reconcile" /\ \A r : a \in Seq(Task(r))
     /\ \A p, c : ~Closing(a, p, c)
     /\ Bare(a) /\ Bare(Tail(a)) /\ Homed(a) /\ \A ce, N : Cleared(a, ce) /\ Vowed(a, ce, N)
     /\ \A ce : \A k \in 1..Len(a) : ~Pending(ce, a[k])
<1> DEFINE t == [op |-> "reconcile"]
           a == <<t>>
<1>1. /\ a # <<>> /\ Head(a) = t /\ Len(a) = 1 /\ a[1] = t /\ 1..Len(a) = {1} /\ Tail(a) = <<>>
      /\ t.op = "reconcile" /\ Len(<<>>) = 0
  OBVIOUS
<1>2. \A r : a \in Seq(Task(r))
  <2>1. \A r : t \in Task(r)
    BY DEF Task
  <2> QED BY <2>1
<1> HIDE DEF a
<1>3. \A k \in 1..Len(a) : a[k].op = "reconcile"
  BY <1>1
<1> HIDE DEF t
<1>4. \A p, c : ~Closing(a, p, c)
  BY <1>3 DEF Closing
<1>5. \A ce : \A k \in 1..Len(a) : ~Pending(ce, a[k])
  BY <1>3 DEF Pending
<1>6. Bare(a) /\ Homed(a)
  BY <1>3 DEF Bare, Homed
<1>7. Bare(Tail(a))
  BY <1>1 DEF Bare
<1>8. ASSUME NEW ce PROVE Cleared(a, ce) /\ \A N : Vowed(a, ce, N)
  <2>1. \A k \in 1..Len(a) : ~Pending(ce, a[k])
    BY <1>5
  <2>2. Cleared(a, ce)
    BY <2>1 DEF Cleared
  <2>3. \A N : Vowed(a, ce, N)
    BY <2>1 DEF Vowed
  <2> QED BY <2>2, <2>3
<1> QED BY <1>1, <1>2, <1>4, <1>5, <1>6, <1>7, <1>8 DEF a, t

\* All that lies below an entry is lost when it claims its namespace.
LEMMA TopClaimed ==
  ASSUME IInv, IInv', NestInv, NestInv', Sound, AtTask, Works, claim = None, Head(agenda).op = "unit",
         claim' = NewClaim(cur), held' = None \/ held'.path = cur,
         \A p, c : Closing(agenda', p, c) => p = cur
  PROVE  /\ BondFine' /\ CurStrict' /\ OldFine' /\ claim' # None
         /\ \A r \in Seq(Name) : r \notin Tree(cur) /\ Strict(Bond, r) => Strict(Bond', r)
         /\ \A p : p \notin Emit'
<1>1. /\ cur \in Roots /\ cur \in Seq(Name) /\ cur' = cur
      /\ claim' # None /\ claim'.emitted = {} /\ cur \notin Below(cur)
  BY TaskAt, NewClaimIs, UnderIsOrder DEF Works, Below
<1>2. \A p : p \notin Emit'
  BY <1>1, EmitAfter
<1>3. \A p : Due(agenda', p) => p = cur
  BY DueIs
<1>4. ASSUME NEW p \in Seq(Name), p \notin Tree(cur)
      PROVE  Bond'[p] = Bond[p] /\ (p \in Exempt => p \in Exempt')
  <2>1. p # cur /\ p \notin Below(cur)
    BY <1>4 DEF Tree, Below
  <2>2. Old'[p] = Old[p] /\ (p \in Lax' <=> p \in Lax)
    BY <2>1, NowAfter
  <2>3. Bond'[p] = Old'[p]
    BY <1>1, <1>3, <2>1, BondNext
  <2> QED BY <1>3, <2>1, <2>2, <2>3, TopBond DEF Exempt
<1>5. ASSUME NEW p \in Below(cur) PROVE Bond'[p] = None
  <2>1. p \in Seq(Name) /\ p # cur
    BY <1>1, UnderIsOrder DEF Below
  <2> QED BY <1>1, <1>2, <1>3, <2>1, BondNext
<1>6. \A q \in Seq(Name) : Bond[q] # None => Fine(Bond, Exempt, q)
  BY DEF Sound, BondFine
<1>7. /\ \A q \in Seq(Name) : Bond'[q] # None => Fine(Bond', Exempt', q)
      /\ Strict(Bond', cur)
      /\ \A s \in Seq(Name) : s \notin Tree(cur) /\ Strict(Bond, s) => Strict(Bond', s)
  <2>1. /\ \A p \in Seq(Name) : p \notin Tree(cur) => Bond'[p] = Bond[p]
        /\ \A p \in Seq(Name) : p \notin Tree(cur) /\ p \in Exempt => p \in Exempt'
        /\ \A p \in Below(cur) : Bond'[p] = None
    BY <1>4, <1>5
  <2>2. Emptying(cur, Bond, Bond', Exempt, Exempt')
    BY <1>6, <2>1 DEF Emptying
  <2> QED BY <1>1, <2>2, Emptied
<1>8. OldFine'
  BY OldFineStarts DEF Sound
<1> QED BY <1>1, <1>2, <1>7, <1>8 DEF BondFine, CurStrict

LEMMA TopOpening ==
  ASSUME Separate, IInv, IInv', NestInv, NestInv', Sound, Open, claim = None
  PROVE  Sound'
<1> DEFINE u == Head(agenda)
           after == <<[op |-> "reconcile"]>>
<1>1. /\ AtTask /\ u.op = "unit" /\ Works /\ u.content \in Content
      /\ u \in Task(cur) /\ cur \in Seq(Name) /\ claim' = NewClaim(cur) /\ u.path = cur
      /\ \/ /\ agenda' = after
            /\ held' # None /\ held'.path = cur /\ held'.record.status = "failed"
         \/ agenda' = Tasks(u) \o after /\ held' = None
  <2>1. AtTask
    BY OpenIs
  <2>2. Rest = <<>>
    BY <2>1, TaskAt
  <2>3. <<[op |-> "reconcile"]>> \o Rest = after
    BY <2>2
  <2> QED BY <2>3, OpenIs
<1>2. /\ after # <<>> /\ Head(after).op = "reconcile" /\ after \in Seq(Task(cur))
      /\ \A p, c : ~Closing(after, p, c)
      /\ Bare(after) /\ Bare(Tail(after)) /\ Homed(after)
      /\ \A ce, N : Cleared(after, ce) /\ Vowed(after, ce, N)
      /\ \A ce : \A k \in 1..Len(after) : ~Pending(ce, after[k])
  BY OnlyReconcile
<1> HIDE DEF after, u
<1>3. ASSUME held' = None \/ held'.path = cur, \A p, c : Closing(agenda', p, c) => p = cur
      PROVE  /\ BondFine' /\ CurStrict' /\ OldFine' /\ claim' # None
             /\ \A r \in Seq(Name) : r \notin Tree(cur) /\ Strict(Bond, r) => Strict(Bond', r)
             /\ \A p : p \notin Emit'
  BY <1>1, <1>3, TopClaimed DEF u
<1>4. CASE agenda' = after /\ held' # None /\ held'.path = cur /\ held'.record.status = "failed"
  <2>1. TasksInv' /\ LegInv'
    BY <1>2, <1>4 DEF TasksInv, LegInv
  <2>2. cur \in DOMAIN Now'
    BY <1>1, <1>4, NowAfter
  <2> QED BY <1>1, <1>2, <1>3, <1>4, <2>1, <2>2, Working
<1>5. CASE agenda' = Tasks(u) \o after /\ held' = None
  <2>1. \A p, c : Closing(agenda', p, c) <=> cur = p /\ u.content = c
    BY <1>1, <1>2, <1>5, ClosingTasks
  <2>2. Due(agenda', cur) /\ \A p : Due(agenda', p) => p = cur
    BY <2>1, DueIs
  <2>3. /\ BondFine' /\ CurStrict' /\ OldFine' /\ claim' # None
        /\ \A r \in Seq(Name) : r \notin Tree(cur) /\ Strict(Bond, r) => Strict(Bond', r)
        /\ \A p : p \notin Emit'
    BY <1>3, <1>5, <2>1
  <2>4. TasksInv'
    <3> DEFINE N == Emit' \cup Shut(agenda')
    <3>1. \A e \in N : ~Under(u.path, e)
      BY <1>1, <2>2, <2>3, UnderIsOrder DEF Shut
    <3> HIDE DEF N
    <3>2. ASSUME NEW ce, NEW M, \A e \in M : ~Under(u.path, e)
          PROVE  LET a == Tasks(u) \o after
                 IN Bare(Tail(a)) /\ Homed(a) /\ Cleared(a, ce) /\ Vowed(a, ce, M)
      <4>1. Cleared(after, ce) /\ Vowed(after, ce, M)
        BY <1>2
      <4>2. \A k \in 1..Len(after) : Pending(ce, after[k]) =>
              /\ after[k] \in Task(cur) /\ after[k].op = "member"
              /\ ~Comparable(u.path, Spot(after[k]))
        BY <1>2
      <4> QED BY <1>1, <1>2, <3>2, <4>1, <4>2, ContainerPushed
    <3>3. /\ Bare(Tail(agenda')) /\ Homed(agenda') /\ Cleared(agenda', claim')
          /\ Vowed(agenda', claim', N)
      BY <1>5, <3>1, <3>2
    <3> QED BY <3>3 DEF TasksInv, N
  <2>5. LegInv'
    <3>1. Head(agenda').op \in {"member", "close"}
      BY <1>1, <1>2, <1>5, FirstOfTasks
    <3> QED BY <3>1 DEF LegInv
  <2> QED BY <1>1, <1>5, <2>2, <2>3, <2>4, <2>5, Working
<1> QED BY <1>1, <1>4, <1>5

-----------------------------------------------------------------------------
(* A leg *)

LEMMA LegIs ==
  ASSUME IInv, Leg
  PROVE  LET t == Head(agenda)
         IN /\ AtTask /\ t.op = "leg" /\ Works /\ t \in Task(cur)
            /\ t.content \in Content /\ HasLeg(t.content)
            /\ Spot(t) \in Below(cur) /\ Spot(t) \in Below(t.path)
            /\ claim = None => claim' = NewClaim(cur) /\ agenda' = <<[op |-> "reconcile"]>>
            /\ claim # None => claim' = claim /\ agenda' = Rest
            /\ held' # None => /\ held'.path = Spot(t) /\ held'.record.hash = t.content
                               /\ held'.record.status \in {"text", "failed"}
<1> DEFINE t == Head(agenda)
           child == LegPath(t.path, t.content)
<1>1. AtTask /\ t.op = "leg"
  BY DEF Leg, Doing, AtTask
<1>2. /\ \/ Write(child, "text", t.content)
         \/ Refuse(child, "failed", t.content)
         \/ UNCHANGED <<mirror, held>>
      /\ claim' = IF claim = None THEN NewClaim(t.path) ELSE claim
      /\ agenda' = IF claim = None THEN <<[op |-> "reconcile"]>> \o Rest ELSE Rest
      /\ UNCHANGED <<source, terminal, run, dedup, expanded, visited, moved, killed>>
  BY DEF Leg, Fails
<1>3. /\ t \in Task(cur) /\ t.path \in Tree(cur) /\ t.content \in Content /\ HasLeg(t.content)
      /\ claim = None => t.path = cur /\ Rest = <<>>
      /\ cur \in Seq(Name)
  BY <1>1, TaskAt, TaskIs
<1>4. child = Spot(t)
  BY <1>1 DEF Spot
<1> HIDE DEF child, t
<1>5. child \in Below(cur) /\ child \in Below(t.path) /\ child \in Tree(cur)
  <2>1. LegName[Kind[t.content]] \in Name
    BY <1>3, ExpansionAssumption DEF HasLeg
  <2>2. child \in Below(cur)
    BY <1>3, <2>1, DeeperByOne DEF LegPath, child
  <2>3. child \in Below(t.path)
    BY <1>1, <1>3, <1>4, SpotIs
  <2> QED BY <2>2, <2>3 DEF Below, Tree
<1>6. Write(child, "text", t.content) =>
        Emits /\ held'.path = child /\ held'.record = [status |-> "text", hash |-> t.content]
  <2>1. "text" \in Status
    BY DEF Status, Bearing
  <2> QED BY <1>1, <1>3, <1>5, <2>1, TaskAt, Writing
<1>7. Refuse(child, "failed", t.content) =>
        Emits /\ held'.path = child /\ held'.record = [status |-> "failed", hash |-> t.content]
  <2>1. "failed" \in Status \ Bearing
    BY DEF Status, Bearing
  <2> QED BY <1>1, <1>3, <1>5, <2>1, TaskAt, Refusing
<1>8. /\ Emits \/ UNCHANGED <<mirror, held>>
      /\ held' # None => /\ held'.path = child /\ held'.record.hash = t.content
                         /\ held'.record.status \in {"text", "failed"}
  BY <1>1, <1>2, <1>6, <1>7 DEF AtTask
<1>9. Works
  BY <1>1, <1>2, <1>8, TaskAt DEF Works, AtTask, run
<1>10. claim = None => <<[op |-> "reconcile"]>> \o Rest = <<[op |-> "reconcile"]>>
  BY <1>3
<1> QED BY <1>1, <1>2, <1>3, <1>4, <1>5, <1>8, <1>9, <1>10 DEF t

\* A leg changes the bond of its child alone.
LEMMA LegBond ==
  ASSUME IInv, IInv', NestInv, NestInv', Sound, Leg
  PROVE  LET t == Head(agenda)
         IN /\ claim' # None
            /\ \A p \in Seq(Name) : held' = None \/ p # Spot(t) =>
                 Bond'[p] = Bond[p] /\ (p \in Exempt => p \in Exempt')
            /\ held' # None => Bond'[Spot(t)] = t.content
            /\ \A p, c : Closing(agenda', p, c) <=> Closing(agenda, p, c)
            /\ \A e \in Emit' : e \in Emit \/ e = Spot(t)
            /\ claim # None => \A q \in claim.emitted : q \in claim'.emitted
<1> DEFINE t == Head(agenda)
           x == Spot(t)
<1>1. /\ AtTask /\ t.op = "leg" /\ Works /\ t.content \in Content /\ HasLeg(t.content)
      /\ x \in Below(cur) /\ cur' = cur /\ cur \in Seq(Name)
      /\ claim = None => claim' = NewClaim(cur) /\ agenda' = <<[op |-> "reconcile"]>>
      /\ claim # None => claim' = claim /\ agenda' = Rest
      /\ held' # None => held'.path = x /\ held'.record.hash = t.content
  BY LegIs, TaskAt DEF Works
<1>2. x \in Seq(Name) /\ x \in Tree(x) /\ Promised(t.path, x, t.content)
  <2>1. Promised(t.path, x, t.content)
    BY <1>1, LegPromises
  <2> QED BY <1>1, <2>1 DEF Below, Tree
<1> HIDE DEF t, x
<1>3. claim' # None /\ (claim = None => claim'.emitted = {})
  BY <1>1, NewClaimIs
<1>4. \A p, c : Closing(agenda', p, c) <=> Closing(agenda, p, c)
  <2>1. CASE claim # None
    BY <1>1, <2>1, ClosingRest DEF t
  <2>2. CASE claim = None
    <3>1. \A p, c : ~Closing(agenda', p, c)
      BY <1>1, <2>2, OnlyReconcile
    <3>2. \A p, c : ~Closing(agenda, p, c)
      <4>1. agenda \in Seq(Task(cur)) /\ Nested(agenda) /\ agenda # <<>> /\ Tail(agenda) = <<>>
        BY <1>1, <2>2, TypedAgenda, TaskAt DEF NestInv, AtTask, Rest
      <4>2. \A p, c : Closing(agenda, p, c) => Closing(Tail(agenda), p, c)
        BY <1>1, <4>1, ClosingTail DEF t
      <4> QED BY <4>1, <4>2, ClosingOne
    <3> QED BY <3>1, <3>2
  <2> QED BY <2>1, <2>2
<1>5. \A p : Due(agenda', p) <=> Due(agenda, p)
  BY <1>4, DueIs, Zenon
<1>6. /\ Emit = IF claim = None THEN {} ELSE claim.emitted
      /\ \A p : p \in Emit' <=> p \in Emit \/ (p \in Below(cur) /\ held' # None /\ p = x)
  BY <1>1, <1>3, EmitAfter
<1>7. ASSUME NEW p \in Seq(Name), held' = None \/ p # x
      PROVE  Bond'[p] = Bond[p] /\ (p \in Exempt => p \in Exempt')
  <2>1. CASE claim # None
    BY <1>1, <1>3, <1>4, <1>6, <1>7, <2>1, NestedBond
  <2>2. CASE claim = None
    <3>1. Old'[p] = Old[p] /\ (p \in Lax' <=> p \in Lax)
      BY <1>1, <1>7, NowAfter
    <3>2. Lost(agenda, claim, held, cur) = Below(cur)
      BY <1>1, <2>2 DEF Lost, AtTask, t
    <3>3. p \in Lost(agenda', claim', held', cur') <=> p \in Below(cur)
      <4>1. Lost(agenda', claim', held', cur') = Below(cur) \ Emit'
        BY <1>1, <1>3, BondNext
      <4> QED BY <1>6, <1>7, <2>2, <4>1
    <3>4. Bond'[p] = Bond[p]
      <4>1. agenda \in Seq(Task(cur)) /\ Nested(agenda) /\ agenda' \in Seq(Task(cur')) /\ Nested(agenda')
        BY TypedAgenda, PrimedAgenda DEF NestInv
      <4>2. ~Due(agenda, p)
        <5>1. ~Due(agenda', p)
          BY <1>1, <2>2, OnlyReconcile, DueIs
        <5> QED BY <1>5, <5>1
      <4> QED BY <1>5, <3>1, <3>2, <3>3, <4>2, BondNow, BondNext
    <3> QED BY <1>5, <3>1, <3>4 DEF Exempt
  <2> QED BY <2>1, <2>2
<1>8. ASSUME held' # None PROVE Bond'[x] = t.content
  <2>1. ~Due(agenda', x)
    BY <1>2, <1>5 DEF Promised, Shut
  <2>2. x \in Emit'
    BY <1>1, <1>6, <1>8
  <2>3. Old'[x] = t.content
    <3>1. Stands(held'.record)
      BY <1>1, <1>8, ExpansionAssumption DEF Stands
    <3> QED BY <1>1, <1>2, <1>8, <3>1, NowAfter
  <2>4. x \notin Lost(agenda', claim', held', cur')
    BY <1>2, <1>3, <2>2, BondNext
  <2> QED BY <1>2, <2>1, <2>3, <2>4, BondNext
<1>9. claim # None => \A q \in claim.emitted : q \in claim'.emitted
  BY <1>1
<1> QED BY <1>3, <1>4, <1>6, <1>7, <1>8, <1>9 DEF t, x

LEMMA LegSound ==
  ASSUME IInv, IInv', NestInv, NestInv', Sound, Leg
  PROVE  Sound'
<1> DEFINE t == Head(agenda)
           x == Spot(t)
<1>1. /\ AtTask /\ t.op = "leg" /\ Works /\ t.content \in Content /\ HasLeg(t.content)
      /\ x \in Below(cur) /\ cur' = cur /\ cur \in Seq(Name)
      /\ claim = None => claim' = NewClaim(cur) /\ agenda' = <<[op |-> "reconcile"]>>
      /\ claim # None => claim' = claim /\ agenda' = Rest
      /\ held' # None => /\ held'.path = x /\ held'.record.hash = t.content
                         /\ held'.record.status \in {"text", "failed"}
  BY LegIs, TaskAt DEF Works
<1>2. /\ claim' # None
      /\ \A p \in Seq(Name) : held' = None \/ p # x =>
           Bond'[p] = Bond[p] /\ (p \in Exempt => p \in Exempt')
      /\ held' # None => Bond'[x] = t.content
      /\ \A p, c : Closing(agenda', p, c) <=> Closing(agenda, p, c)
      /\ \A e \in Emit' : e \in Emit \/ e = x
      /\ claim # None => \A q \in claim.emitted : q \in claim'.emitted
  BY LegBond
<1>3. Promised(t.path, x, t.content) /\ t.content # None
  BY <1>1, LegPromises, ExpansionAssumption
<1>4. /\ BondFine' /\ CurStrict'
      /\ \A r \in Seq(Name) : r \notin Tree(cur) /\ Strict(Bond, r) => Strict(Bond', r)
  <2>1. CASE held' = None
    BY <1>1, <1>2, <2>1, Quiet
  <2>2. CASE held' # None
    <3>1. x \in Seq(Name) /\ x \in Tree(x)
      BY <1>1 DEF Below, Tree
    <3>2. \A q \in Below(x) : Bond'[q] = None
      <4>1. \A q \in Below(x) : q \in Seq(Name) /\ q # x /\ q \in Tree(x)
        BY <3>1, UnderIsOrder DEF Below, Tree
      <4> QED BY <1>2, <1>3, <4>1 DEF Promised
    <3>3. \A p \in Seq(Name) : p \notin Tree(x) => Bond'[p] = Bond[p] /\ (p \in Exempt => p \in Exempt')
      BY <1>2, <3>1
    <3> HIDE DEF t, x
    <3> QED BY <1>1, <1>2, <1>3, <2>2, <3>2, <3>3, Growing DEF t
  <2> QED BY <2>1, <2>2
<1>5. OldFine'
  BY <1>1, <1>2, OldFineStays DEF Sound
<1>6. CASE claim # None
  <2>1. \A p : Due(Rest, p) <=> Due(agenda, p)
    BY <1>1, <1>2, <1>6, DueIs, Zenon
  <2>2. \A e \in Emit' \cup Shut(Rest) : e \in Emit \cup Shut(agenda) \/ e = x
    BY <1>2, <2>1 DEF Shut
  <2>3. Bare(Rest) /\ Homed(Rest) /\ Cleared(Rest, claim') /\ Vowed(Rest, claim', Emit' \cup Shut(Rest))
    <3>1. EndAlike(agenda, 1, Rest, 0) /\ 1 \in 1..Len(agenda)
      <4>1. EndAlike(agenda, 1, Rest, 0) /\ Len(agenda) \in Nat \ {0}
        BY <1>1, RestAlike
      <4> QED BY <4>1
    <3>2. ASSUME NEW v \in Task(cur), v.op = "member", Clear(t, v) PROVE ~Comparable(x, Spot(v))
      <4>1. ~Under(x, Spot(v)) /\ ~Under(Spot(v), x) /\ x # Spot(v)
        BY <1>1, <3>2 DEF Clear
      <4> QED BY <4>1 DEF Comparable
    <3>3. ASSUME NEW N, \A e \in N : e \in Emit \cup Shut(agenda) \/ e = x
          PROVE  Bare(Rest) /\ Homed(Rest) /\ Cleared(Rest, claim) /\ Vowed(Rest, claim, N)
      <4>1. \A v \in Task(cur) : Pending(claim, v) /\ v.op = "member" /\ Clear(Head(agenda), v) =>
              \A e \in N : e \in Emit \cup Shut(agenda) \/ ~Comparable(e, Spot(v))
        BY <3>2, <3>3
      <4> QED BY <1>1, <1>6, <3>1, <4>1, TasksLeft DEF Sound
    <3> QED BY <1>1, <1>6, <2>2, <3>3
  <2>4. held' # None => held'.record.status # "removed"
    BY <1>1
  <2> QED BY <1>1, <1>2, <1>4, <1>5, <1>6, <2>3, <2>4, DoneSound
<1>7. CASE claim = None
  <2> DEFINE after == <<[op |-> "reconcile"]>>
  <2>1. /\ after # <<>> /\ Head(after).op = "reconcile"
        /\ Bare(Tail(after)) /\ Homed(after)
        /\ \A ce, N : Cleared(after, ce) /\ Vowed(after, ce, N)
    BY OnlyReconcile
  <2>2. agenda' = after
    BY <1>1, <1>7
  <2> HIDE DEF after
  <2>3. TasksInv' /\ LegInv'
    BY <2>1, <2>2 DEF TasksInv, LegInv
  <2>4. cur \in DOMAIN Now' \/ Due(agenda', cur)
    <3>1. Rest = <<>>
      BY <1>1, <1>7, TaskAt
    <3>2. \A p : ~Due(Rest, p)
      BY <3>1, ClosingOne, DueIs, Zenon
    <3> QED BY <1>1, <3>2, CurRecorded DEF Sound
  <2> QED BY <1>1, <1>4, <1>5, <2>3, <2>4, Working
<1> QED BY <1>6, <1>7

-----------------------------------------------------------------------------
(* A member *)

\* What is left of the agenda when a member is done, or its container fails.
LEMMA MemberEnd ==
  ASSUME IInv, NestInv, AtTask, Head(agenda).op = "member", NEW b, b \in {Rest, Capped}
  PROVE  /\ b \in Seq(Task(cur)) /\ b # <<>>
         /\ \A p, c : Closing(b, p, c) <=> Closing(agenda, p, c)
         /\ \E m \in 1..Len(agenda) : EndAlike(agenda, m, b, 0)
<1>1. /\ claim # None /\ Formed(agenda, TRUE, cur) /\ Formed(Rest, TRUE, cur) /\ Rest # <<>>
      /\ Nested(agenda) /\ Len(agenda) \in Nat \ {0} /\ Head(agenda) = agenda[1]
  BY MemberIs, RestAlike DEF NestInv
<1>2. CASE b = Rest
  <2>1. EndAlike(agenda, 1, Rest, 0) /\ Rest \in Seq(Task(cur)) /\ 1 \in 1..Len(agenda)
    BY <1>1, RestAlike
  <2>2. \A p, c : Closing(Rest, p, c) <=> Closing(agenda, p, c)
    BY ClosingRest
  <2> QED BY <1>1, <1>2, <2>1, <2>2
<1>3. CASE b = Capped
  <2>1. Formed(Capped, TRUE, cur) /\ Capped # <<>> /\ Head(Capped).op = "close"
    BY <1>1, CappedIs
  <2>2. PICK m \in 0..Len(agenda) :
          /\ Len(Capped) = Len(agenda) - m
          /\ \A k \in 1..Len(Capped) : Same(agenda[m + k], Capped[k])
    BY <1>1, CappedIs
  <2>3. Capped \in Seq(Task(cur)) /\ Len(Capped) \in Nat \ {0} /\ Head(Capped) = Capped[1]
    BY <2>1, FirstOf DEF Formed
  <2>4. m # 0
    <3>1. m = 0 => Same(agenda[1], Capped[1])
      BY <1>1, <2>2, <2>3
    <3>2. Same(agenda[1], Capped[1]) => agenda[1].op = Capped[1].op
      BY SameIs
    <3> QED BY <1>1, <2>1, <2>3, <3>1, <3>2
  <2>5. m \in 1..Len(agenda)
    BY <1>1, <2>4
  <2>6. EndAlike(agenda, m, Capped, 0)
    <3>1. Len(agenda) \in Nat /\ Len(Capped) \in Nat /\ 0 \in 0..Len(Capped) /\ m \in 0..Len(agenda)
      BY <1>1, <2>3
    <3>2. Len(Capped) - 0 = Len(agenda) - m /\ \A k \in 1..Len(agenda) - m : 0 + k = k
      BY <1>1, <2>2, <2>3
    <3> QED BY <2>2, <3>1, <3>2 DEF EndAlike
  <2>7. \A p, c : Closing(Capped, p, c) <=> Closing(agenda, p, c)
    BY <1>1, ClosingCapped
  <2> QED BY <1>3, <2>1, <2>3, <2>5, <2>6, <2>7
<1> QED BY <1>2, <1>3

\* What the end of the agenda keeps when a member is done, or its container
\* fails.
LEMMA MemberTasks ==
  ASSUME IInv, NestInv, Sound, AtTask, Head(agenda).op = "member", NEW b, b \in {Rest, Capped},
         NEW ce, NEW N,
         \A t : Pending(ce, t) => Pending(claim, t),
         \A v \in Task(cur) : Pending(ce, v) /\ v.op = "member" /\ Clear(Head(agenda), v) =>
           \A e \in N : e \in Emit \cup Shut(agenda) \/ ~Comparable(e, Spot(v))
  PROVE  /\ Bare(b) /\ Homed(b) /\ Cleared(b, ce) /\ Vowed(b, ce, N)
         /\ \A k \in 1..Len(b) : Pending(ce, b[k]) =>
              b[k] \in Task(cur) /\ b[k].op = "member" /\ Clear(Head(agenda), b[k])
         /\ \A p, c : Closing(b, p, c) <=> Closing(agenda, p, c)
         /\ Bare(Tail(b)) /\ Head(b).op # "leg" /\ b \in Seq(Task(cur)) /\ b # <<>>
<1>1. claim # None
  BY MemberIs
<1>2. /\ b \in Seq(Task(cur)) /\ b # <<>>
      /\ \A p, c : Closing(b, p, c) <=> Closing(agenda, p, c)
      /\ \E m \in 1..Len(agenda) : EndAlike(agenda, m, b, 0)
  BY MemberEnd
<1>3. PICK m \in 1..Len(agenda) : EndAlike(agenda, m, b, 0)
  BY <1>2
<1>4. /\ Bare(b) /\ Homed(b) /\ Cleared(b, ce) /\ Vowed(b, ce, N)
      /\ \A k \in 1..Len(b) : Pending(ce, b[k]) =>
           b[k] \in Task(cur) /\ b[k].op = "member" /\ Clear(Head(agenda), b[k])
  BY <1>1, <1>3, TasksLeft DEF Sound
<1>5. Bare(Tail(b)) /\ Head(b).op # "leg"
  BY <1>2, <1>4, BareIs
<1> QED BY <1>2, <1>4, <1>5

\* A member that is refused, under its own name or a synthetic one.
LEMMA RefusalSound ==
  ASSUME IInv, IInv', NestInv, NestInv', Sound, AtTask, Works, Head(agenda).op = "member",
         claim' # None, claim'.emitted = claim.emitted, claim'.claimed = claim.claimed,
         agenda' = Rest \/ agenda' = Capped,
         held' # None => /\ held'.record.hash = None /\ held'.record.status # "removed"
                         /\ Bond[held'.path] = None /\ ~Due(agenda, held'.path)
                         /\ \A v \in Task(cur) : v.op = "member" /\ Clear(Head(agenda), v)
                                                   => ~Comparable(held'.path, Spot(v))
  PROVE  Sound'
<1>1. claim # None
  BY MemberIs
<1>2. \A t : Pending(claim', t) => Pending(claim, t)
  BY DEF Pending, Spent
<1>3. \A p : p \in Emit' <=> p \in Emit \/ (p \in Below(cur) /\ held' # None /\ p = held'.path)
  BY <1>1, EmitAfter
<1>4. \A p, c : Closing(agenda', p, c) <=> Closing(agenda, p, c)
  <2>1. ASSUME NEW b \in {Rest, Capped} PROVE \A p, c : Closing(b, p, c) <=> Closing(agenda, p, c)
    BY MemberTasks
  <2> QED BY <2>1
<1>5. \A p : Due(agenda', p) <=> Due(agenda, p)
  BY <1>4, DueIs, Zenon
<1>6. Shut(agenda') = Shut(agenda)
  BY <1>5 DEF Shut
<1>7. /\ Bare(Tail(agenda')) /\ Homed(agenda') /\ Cleared(agenda', claim')
      /\ Vowed(agenda', claim', Emit' \cup Shut(agenda')) /\ Head(agenda').op # "leg"
  <2>1. \A v \in Task(cur) : v.op = "member" /\ Clear(Head(agenda), v) =>
          \A e \in Emit' \cup Shut(agenda') : e \in Emit \cup Shut(agenda) \/ ~Comparable(e, Spot(v))
    BY <1>3, <1>6
  <2>2. ASSUME NEW b \in {Rest, Capped}, NEW ce, NEW N,
               \A t : Pending(ce, t) => Pending(claim, t),
               \A v \in Task(cur) : v.op = "member" /\ Clear(Head(agenda), v) =>
                 \A e \in N : e \in Emit \cup Shut(agenda) \/ ~Comparable(e, Spot(v))
        PROVE  /\ Bare(Tail(b)) /\ Homed(b) /\ Cleared(b, ce) /\ Vowed(b, ce, N)
               /\ Head(b).op # "leg"
    <3>1. \A v \in Task(cur) : Pending(ce, v) /\ v.op = "member" /\ Clear(Head(agenda), v) =>
            \A e \in N : e \in Emit \cup Shut(agenda) \/ ~Comparable(e, Spot(v))
      BY <2>2
    <3> QED BY <2>2, <3>1, MemberTasks
  <2>3. agenda' \in {Rest, Capped}
    OBVIOUS
  <2> QED BY <1>2, <2>1, <2>2, <2>3
<1>8. TasksInv' /\ LegInv'
  BY <1>7 DEF TasksInv, LegInv
<1>9. /\ BondFine' /\ CurStrict' /\ OldFine'
      /\ \A r \in Seq(Name) : Strict(Bond, r) => Strict(Bond', r)
  <2>1. held' # None => ~Stands(held'.record)
    BY DEF Stands
  <2>2. \A p : p \in claim'.emitted <=> p \in claim.emitted
    OBVIOUS
  <2> QED BY <1>1, <1>4, <2>1, <2>2, NestedQuiet
<1>10. cur \in DOMAIN Now' \/ Due(agenda', cur)
  <2>1. \A p : Due(Rest, p) => Due(agenda', p)
    BY <1>5, ClosingRest, DueIs, Zenon
  <2> QED BY <2>1, CurRecorded DEF Sound
<1> QED BY <1>8, <1>9, <1>10, Working

\* A member that may not be read.
LEMMA RefusedIs ==
  ASSUME IInv, NestInv, Sound, MemberRefused \/ MemberOverruns
  PROVE  /\ AtTask /\ Head(agenda).op = "member" /\ Works /\ claim # None
         /\ claim' = claim /\ (agenda' = Rest \/ agenda' = Capped)
         /\ held' # None => /\ held'.path \in Seq(Name) /\ held'.record.hash = None
                            /\ held'.record.status # "removed"
                            /\ Bond[held'.path] = None /\ ~Due(agenda, held'.path)
                            /\ \A v \in Task(cur) : v.op = "member" /\ Clear(Head(agenda), v)
                                                      => ~Comparable(held'.path, Spot(v))
<1> DEFINE t == Head(agenda)
           z == ChildPath(t)
<1>1. AtTask /\ t.op = "member"
  BY DEF MemberRefused, MemberOverruns, Doing, AtTask
<1>2. /\ (Refuse(z, "failed", None) /\ ~Readable(t.member)) \/ UNCHANGED <<mirror, held>>
      /\ claim' = claim /\ (agenda' = Rest \/ agenda' = Capped)
      /\ UNCHANGED <<source, terminal, run, dedup, book>>
  BY DEF MemberRefused, MemberOverruns, Fails, Readable, Inflates
<1>3. z \in Tree(cur) /\ claim # None /\ z = Spot(t) /\ t \in Task(cur) /\ cur \in Seq(Name)
  BY <1>1, MemberIs, TaskAt DEF ChildPath, Spot
<1> HIDE DEF z, t
<1>4. ASSUME Refuse(z, "failed", None)
      PROVE  Emits /\ held'.path = z /\ held'.record = [status |-> "failed", hash |-> None]
  BY <1>1, <1>3, <1>4, TaskAt, Refusing DEF Status, Bearing
<1>5. Works
  BY <1>1, <1>2, <1>4, TaskAt DEF Works, AtTask, run, book
<1>6. ASSUME held' # None
      PROVE  /\ held'.path \in Seq(Name) /\ held'.record.hash = None
             /\ held'.record.status # "removed"
             /\ Bond[held'.path] = None /\ ~Due(agenda, held'.path)
             /\ \A v \in Task(cur) : v.op = "member" /\ Clear(t, v) => ~Comparable(held'.path, Spot(v))
  <2>1. Refuse(z, "failed", None) /\ ~Readable(t.member)
    BY <1>1, <1>2, <1>6 DEF AtTask
  <2>2. Pending(claim, t)
    BY <1>1, <2>1 DEF Pending, Spent
  <2>3. PICK o \in Tree(cur) : Promised(o, z, What(t))
    BY <1>1, <1>3, <2>2, ContainerPromises DEF t
  <2>4. Bond[z] = None /\ ~Due(agenda, z)
    BY <1>3, <2>3 DEF Promised, Tree, Shut
  <2>5. \A v : Clear(t, v) => ~Comparable(z, Spot(v))
    BY <1>1, <1>3, <2>1 DEF Clear, Comparable
  <2> QED BY <1>3, <1>4, <2>1, <2>4, <2>5 DEF Tree
<1> QED BY <1>1, <1>2, <1>3, <1>5, <1>6 DEF t

LEMMA RefusedSound ==
  ASSUME IInv, IInv', NestInv, NestInv', Sound, MemberRefused \/ MemberOverruns
  PROVE  Sound'
BY RefusedIs, RefusalSound

LEMMA NextName ==
  ASSUME NEW p \in Seq(Name), NEW a \in Name
  PROVE  LET z == Append(p, a)
         IN /\ z \in Seq(Name) /\ Under(p, z) /\ z[Len(z)] = a /\ z = p \o <<a>>
            /\ \A n \in Seq(Name) : ~(Under(p, n) /\ Under(n, z))
<1> DEFINE z == Append(p, a)
<1>1. /\ z \in Seq(Name) /\ Len(p) \in Nat /\ Len(z) = Len(p) + 1 /\ z[Len(p) + 1] = a
      /\ \A i \in 1..Len(p) : z[i] = p[i]
  BY LenProperties, AppendProperties
<1>2. z = p \o <<a>>
  BY AppendIsConcat
<1> HIDE DEF z
<1>3. Under(p, z)
  BY <1>1, UnderIs
<1>4. ASSUME NEW n \in Seq(Name), Under(p, n), Under(n, z) PROVE FALSE
  <2>1. Len(p) < Len(n) /\ Len(n) < Len(z) /\ Len(n) \in Nat
    BY <1>1, <1>4, UnderIs
  <2> QED BY <1>1, <2>1
<1> QED BY <1>1, <1>2, <1>3, <1>4 DEF z

\* Nothing lies under the synthetic name of a refused alias.
LEMMA CollisionIsBare ==
  ASSUME Separate, IInv, NestInv, Sound, AtTask, Head(agenda).op = "member",
         NEW n \in DOMAIN CollisionName
  PROVE  LET z == Append(Head(agenda).path, CollisionName[n])
         IN z \in Tree(cur) /\ Bond[z] = None /\ ~Due(agenda, z)
<1> DEFINE o == Head(agenda).path
           a == CollisionName[n]
           z == Append(o, a)
<1>1. /\ claim # None /\ o \in Tree(cur) /\ o \in Seq(Name) /\ cur \in Seq(Name)
      /\ Head(agenda) = agenda[1] /\ 1 \in 1..Len(agenda)
  BY MemberIs, TaskAt, NestedRest DEF Tree, NestInv
<1>2. a \in Name
  <2>1. CollisionName \in Seq(Name)
    BY ExpansionAssumption
  <2> QED BY <2>1, LenProperties, ElementOfSeq
<1>3. PICK j \in 1..Len(agenda) : agenda[j].op = "close" /\ agenda[j].path = o
  BY <1>1 DEF Sound, TasksInv, Homed
<1> DEFINE c == agenda[j].content
<1>4. Closing(agenda, o, c)
  BY <1>3 DEF Closing
<1> HIDE DEF o, a, z, c
<1>5. /\ z \in Seq(Name) /\ Under(o, z) /\ z[Len(z)] = a /\ z = o \o <<a>>
      /\ \A e \in Seq(Name) : ~(Under(o, e) /\ Under(e, z))
  BY <1>1, <1>2, NextName DEF z
<1>6. z \in Tree(cur)
  BY <1>1, <1>5, UnderIsOrder, Zenon DEF Tree
<1>7. Bond[o] = c /\ c \in Content /\ Kind[c] = "container" /\ Due(agenda, o)
  BY <1>1, <1>4, BondNow
<1>8. z \notin Roots
  BY <1>5 DEF Separate, a
<1>9. Nearest(Bond, o, z) /\ Bond[o] # None /\ o \notin Exempt
  BY <1>5, <1>7, ExpansionAssumption DEF Nearest, Exempt
<1>10. ~HoldsAt(c, o, z, Bond[z])
  <2>1. SUFFICES ASSUME HoldsAt(c, o, z, Bond[z]) PROVE FALSE
    OBVIOUS
  <2>2. PICK i \in DOMAIN Members[c] : z = o \o Members[c][i].name
    BY <1>7, <2>1 DEF HoldsAt, HasLeg
  <2> DEFINE b == Members[c][i].name
  <2>3. b \in Seq(Name) \ {<<>>}
    <3> DEFINE ms == Members[c]
    <3>1. ms \in Seq([name : Seq(Name) \ {<<>>}, content : Content \cup {Refused}]) /\ i \in DOMAIN ms
      BY <1>7, <2>2, ExpansionAssumption
    <3> HIDE DEF ms
    <3>2. ms[i] \in [name : Seq(Name) \ {<<>>}, content : Content \cup {Refused}]
      BY <3>1, LenProperties, ElementOfSeq
    <3> QED BY <3>2 DEF ms
  <2>4. Head(b) # a
    BY <1>7, <2>2 DEF Separate, a
  <2> HIDE DEF b
  <2>5. <<a>> \in Seq(Name) /\ <<a>> # <<>> /\ Head(<<a>>) = a
    BY <1>2
  <2>6. o \o b = o \o <<a>>
    BY <1>5, <2>2 DEF b
  <2>7. <<a>> = b
    BY <1>1, <2>3, <2>5, <2>6, Siblings
  <2> QED BY <2>4, <2>5, <2>7
<1>11. Bond[z] = None
  <2>1. Bond[z] # None => Fine(Bond, Exempt, z)
    BY <1>5 DEF Sound, BondFine
  <2> QED BY <1>1, <1>7, <1>8, <1>9, <1>10, <2>1 DEF Fine
<1>12. ~Due(agenda, z)
  <2>1. \A d : ~Closing(agenda, z, d)
    <3>1. \A d : Closing(agenda, z, d) => Bond[z] = d /\ d \in Content
      BY <1>5, BondNow
    <3> QED BY <1>11, <3>1, ExpansionAssumption
  <2> QED BY <2>1, DueIs
<1> QED BY <1>6, <1>11, <1>12 DEF z, o, a

\* The member is dispatched: the tasks behind its unit.
LEMMA DispatchedTasks ==
  ASSUME IInv, NestInv, Sound, AtTask, Head(agenda).op = "member",
         KeyOf(ChildPath(Head(agenda))) \notin claim.claimed, NEW unit \in Task(cur),
         unit.op = "unit", unit.path = ChildPath(Head(agenda)),
         unit.content = Head(agenda).member.content,
         NEW ce, \A k : k \in ce.claimed <=> k \in claim.claimed \/ k = KeyOf(ChildPath(Head(agenda))),
         NEW N, N = Emit \cup Shut(agenda)
  PROVE  LET a == <<unit>> \o Rest
         IN Bare(Tail(a)) /\ Homed(a) /\ Cleared(a, ce) /\ Vowed(a, ce, N)
<1> DEFINE t == Head(agenda)
           z == ChildPath(t)
<1>1. z = Spot(t) /\ z = Spot(unit) /\ claim # None /\ cur \in Seq(Name)
  BY MemberIs, TaskAt DEF ChildPath, Spot
<1>2. \A v : Pending(ce, v) => Pending(claim, v)
  BY DEF Pending, Spent
<1>3. /\ Bare(Rest) /\ Homed(Rest) /\ Cleared(Rest, ce) /\ Vowed(Rest, ce, N)
      /\ \A k \in 1..Len(Rest) : Pending(ce, Rest[k]) =>
           Rest[k] \in Task(cur) /\ Rest[k].op = "member" /\ Clear(t, Rest[k])
      /\ Rest \in Seq(Task(cur))
  <2>1. \A e \in N : e \in Emit \cup Shut(agenda)
    OBVIOUS
  <2>2. ASSUME NEW b, b = Rest
        PROVE  /\ Bare(b) /\ Homed(b) /\ Cleared(b, ce) /\ Vowed(b, ce, N)
               /\ \A k \in 1..Len(b) : Pending(ce, b[k]) =>
                    b[k] \in Task(cur) /\ b[k].op = "member" /\ Clear(t, b[k])
               /\ b \in Seq(Task(cur))
    <3>1. b \in {Rest, Capped}
      BY <2>2
    <3>2. \A v \in Task(cur) : Pending(ce, v) /\ v.op = "member" /\ Clear(Head(agenda), v) =>
            \A e \in N : e \in Emit \cup Shut(agenda) \/ ~Comparable(e, Spot(v))
      BY <2>1
    <3> QED BY <1>2, <3>1, <3>2, MemberTasks
  <2> QED BY <2>2
<1>4. Pending(claim, t)
  BY <1>1 DEF Pending, Spent
<1>5. \E j \in 1..Len(Rest) :
        /\ Rest[j].op = "close"
        /\ HoldsAt(Rest[j].content, Rest[j].path, z, t.member.content)
        /\ Alone(N, Rest[j].path, z)
  <2>1. /\ Len(agenda) \in Nat \ {0} /\ Head(agenda) = agenda[1] /\ Len(Rest) = Len(agenda) - 1
        /\ \A i \in 1..Len(agenda) - 1 : Rest[i] = agenda[i + 1]
    BY RestAlike DEF Rest
  <2>2. PICK j \in 1..Len(agenda) :
          /\ 1 < j /\ agenda[j].op = "close"
          /\ HoldsAt(agenda[j].content, agenda[j].path, Spot(t), What(t))
          /\ Alone(Emit \cup Shut(agenda), agenda[j].path, Spot(t))
    <3>1. 1 \in 1..Len(agenda) /\ t = agenda[1] /\ t.op # "leg"
      BY <2>1
    <3> HIDE DEF t
    <3> QED BY <1>1, <1>4, <3>1 DEF Sound, TasksInv, Vowed
  <2>3. j - 1 \in 1..Len(agenda) - 1 /\ (j - 1) + 1 = j
    BY <2>1, <2>2
  <2>4. Rest[j - 1] = agenda[j] /\ j - 1 \in 1..Len(Rest)
    BY <2>1, <2>3
  <2>5. What(t) = t.member.content
    BY DEF What
  <2> QED BY <1>1, <2>2, <2>4, <2>5
<1>6. ASSUME NEW k \in 1..Len(Rest), Pending(ce, Rest[k]) PROVE Clear(unit, Rest[k])
  <2> DEFINE v == Rest[k]
  <2>1. v.op = "member" /\ Clear(t, v)
    BY <1>3, <1>6
  <2>2. /\ ~Under(z, Spot(v)) /\ ~Under(Spot(v), z)
        /\ z = Spot(v) => Readable(v.member)
    BY <1>1, <2>1 DEF Clear
  <2>3. z # Spot(v)
    <3>1. ~Spent(ce, v)
      BY <1>6 DEF Pending
    <3> QED BY <2>1, <2>2, <3>1 DEF Spent
  <2> HIDE DEF v
  <2>4. Clear(unit, v)
    BY <1>1, <2>2, <2>3 DEF Clear
  <2> QED BY <2>4 DEF v
<1> HIDE DEF t, z
<1>7. \E j \in 1..Len(Rest) :
        /\ Rest[j].op = "close"
        /\ HoldsAt(Rest[j].content, Rest[j].path, unit.path, unit.content)
        /\ Alone(N, Rest[j].path, unit.path)
  BY <1>5 DEF t, z
<1> QED BY <1>1, <1>3, <1>6, <1>7, TaskPushed

\* A member that may be read is refused as an alias, or dispatched.
LEMMA MemberDoes ==
  ASSUME Separate, IInv, NestInv, Sound, Member
  PROVE  LET t == Head(agenda)
             key == KeyOf(ChildPath(t))
             unit == [op |-> "unit", path |-> ChildPath(t), content |-> t.member.content,
                      depth |-> t.depth, chain |-> t.chain]
         IN /\ AtTask /\ t.op = "member" /\ Works /\ claim # None /\ Readable(t.member)
            /\ claim' # None /\ claim'.emitted = claim.emitted
            /\ unit \in Task(cur) /\ unit.op = "unit" /\ unit.path = ChildPath(t)
            /\ unit.content = t.member.content
            /\ \/ /\ agenda' = Rest /\ claim'.claimed = claim.claimed
                  /\ held' # None /\ held'.path \in Seq(Name) /\ held'.record.hash = None
                  /\ held'.record.status # "removed"
                  /\ Bond[held'.path] = None /\ ~Due(agenda, held'.path)
                  /\ \A v : Clear(t, v) => ~Comparable(held'.path, Spot(v))
               \/ /\ agenda' = <<unit>> \o Rest /\ held' = None
                  /\ key \notin claim.claimed
                  /\ \A k : k \in claim'.claimed <=> k \in claim.claimed \/ k = key
                  /\ Head(agenda') = unit /\ agenda' # <<>>
                  /\ \A p, c : Closing(agenda', p, c) <=> Closing(Rest, p, c)
<1> DEFINE t == Head(agenda)
           child == ChildPath(t)
           key == KeyOf(child)
           n == claim.collisions + 1
           unit == [op |-> "unit", path |-> child, content |-> t.member.content,
                    depth |-> t.depth, chain |-> t.chain]
<1>1. AtTask /\ t.op = "member"
  BY DEF Member, Doing, AtTask
<1>2. /\ Inflates(t)
      /\ \/ /\ n \in DOMAIN CollisionName
            /\ claim' = [claim EXCEPT !.collisions = n]
            /\ Refuse(Append(t.path, CollisionName[n]), "failed", None)
            /\ agenda' = Rest
         \/ /\ key \notin claim.claimed
            /\ claim' = [claim EXCEPT !.claimed = @ \cup {key}]
            /\ agenda' = <<unit>> \o Rest
            /\ UNCHANGED <<mirror, held>>
      /\ UNCHANGED <<source, terminal, run, dedup, book>>
  BY DEF Member, Fails
<1>3. /\ t.path \in Tree(cur) /\ child \in Tree(cur) /\ t.depth \in Nat /\ t.chain \in SUBSET Content
      /\ t.member.content \in Content \cup {Refused}
      /\ claim # None /\ claim \in Claim /\ cur \in Seq(Name)
  BY <1>1, MemberIs, TaskAt
<1>4. t.member.content \in Content
  BY <1>2, <1>3 DEF Inflates
<1>5. /\ key \in Seq(Name) /\ unit \in Task(cur) /\ unit.op = "unit" /\ unit.path = child
      /\ unit.content = t.member.content
  <2> HIDE DEF child
  <2>1. key \in Seq(Name)
    BY <1>3, KeysArePaths DEF Tree
  <2>2. unit \in Task(cur)
    BY <1>3, <1>4 DEF Task
  <2> QED BY <2>1, <2>2
<1>8. Readable(t.member)
  <2>1. Cap \in Nat /\ Cap =< MaxMember
    BY ExpansionAssumption DEF Cap, IInv, TypeOK
  <2>2. Size[t.member.content] \in Nat /\ MaxMember \in Nat
    BY <1>4, ExpansionAssumption
  <2> QED BY <1>2, <2>1, <2>2 DEF Inflates, Readable
<1> HIDE DEF unit, n
<1>6. CASE /\ n \in DOMAIN CollisionName
           /\ claim' = [claim EXCEPT !.collisions = n]
           /\ Refuse(Append(t.path, CollisionName[n]), "failed", None)
           /\ agenda' = Rest
  <2> DEFINE z == Append(t.path, CollisionName[n])
  <2> HIDE DEF key, child
  <2>1. z \in Tree(cur) /\ Bond[z] = None /\ ~Due(agenda, z)
    BY <1>1, <1>6, CollisionIsBare
  <2>2. n \in 0..Len(CollisionName)
    <3>1. CollisionName \in Seq(Name) /\ DOMAIN CollisionName = 1..Len(CollisionName)
      BY ExpansionAssumption, LenProperties
    <3> QED BY <1>6, <3>1
  <2>3. claim' \in Claim /\ claim'.claimed = claim.claimed /\ claim'.emitted = claim.emitted
    BY <1>3, <1>6, <2>2 DEF Claim
  <2>4. claim' # None
    BY <2>3, ExpansionAssumption
  <2>5. \A v : Clear(t, v) => ~Comparable(z, Spot(v))
    BY <1>1, <1>6 DEF Clear
  <2> HIDE DEF z, t
  <2>6. Emits /\ held'.path = z /\ held'.record = [status |-> "failed", hash |-> None]
    <3>1. Refuse(z, "failed", None) /\ "failed" \in Status \ Bearing /\ Rested
      BY <1>1, <1>6, TaskAt DEF Status, Bearing, z
    <3> QED BY <2>1, <3>1, Refusing
  <2>7. Works
    BY <1>1, <1>2, <2>6, TaskAt DEF Works, AtTask, run, book
  <2>8. z \in Seq(Name) /\ held' # None
    BY <2>1, <2>6, ExpansionAssumption DEF Tree, Emits
  <2> QED BY <1>1, <1>3, <1>5, <1>6, <1>8, <2>1, <2>3, <2>4, <2>5, <2>6, <2>7, <2>8 DEF t, child, unit
<1>7. CASE /\ key \notin claim.claimed
           /\ claim' = [claim EXCEPT !.claimed = @ \cup {key}]
           /\ agenda' = <<unit>> \o Rest
           /\ UNCHANGED <<mirror, held>>
  <2>1. /\ claim' \in Claim /\ claim'.emitted = claim.emitted
        /\ \A k : k \in claim'.claimed <=> k \in claim.claimed \/ k = key
    <3> HIDE DEF key
    <3>1. claim' \in Claim /\ claim'.emitted = claim.emitted /\ claim'.claimed = claim.claimed \cup {key}
      BY <1>3, <1>5, <1>7 DEF Claim
    <3> QED BY <3>1
  <2>2. claim' # None
    BY <2>1, ExpansionAssumption
  <2>3. Works /\ held' = None
    BY <1>1, <1>2, <1>7, TaskAt DEF Works, AtTask, run, book
  <2>4. /\ Head(agenda') = unit /\ agenda' # <<>>
        /\ \A p, c : Closing(agenda', p, c) <=> Closing(Rest, p, c)
    <3>1. Rest \in Seq(Task(cur))
      BY <1>1, RestAlike
    <3> QED BY <1>5, <1>7, <3>1, ClosingPushed
  <2> QED BY <1>1, <1>3, <1>5, <1>7, <1>8, <2>1, <2>2, <2>3, <2>4 DEF key, child, t, unit
<1> QED BY <1>2, <1>6, <1>7

LEMMA MemberSound ==
  ASSUME Separate, IInv, IInv', NestInv, NestInv', Sound, Member
  PROVE  Sound'
<1> DEFINE t == Head(agenda)
           key == KeyOf(ChildPath(t))
           unit == [op |-> "unit", path |-> ChildPath(t), content |-> t.member.content,
                    depth |-> t.depth, chain |-> t.chain]
<1>1. /\ AtTask /\ t.op = "member" /\ Works /\ claim # None
      /\ claim' # None /\ claim'.emitted = claim.emitted
      /\ unit \in Task(cur) /\ unit.op = "unit" /\ unit.path = ChildPath(t)
      /\ unit.content = t.member.content
  BY MemberDoes
<1>2. \/ /\ agenda' = Rest /\ claim'.claimed = claim.claimed
         /\ held' # None /\ held'.record.hash = None /\ held'.record.status # "removed"
         /\ Bond[held'.path] = None /\ ~Due(agenda, held'.path)
         /\ \A v : Clear(t, v) => ~Comparable(held'.path, Spot(v))
      \/ /\ agenda' = <<unit>> \o Rest /\ held' = None
         /\ key \notin claim.claimed
         /\ \A k : k \in claim'.claimed <=> k \in claim.claimed \/ k = key
         /\ Head(agenda') = unit /\ agenda' # <<>>
         /\ \A p, c : Closing(agenda', p, c) <=> Closing(Rest, p, c)
  BY MemberDoes
<1> HIDE DEF t, key, unit
<1>3. CASE /\ agenda' = Rest /\ claim'.claimed = claim.claimed
           /\ held' # None /\ held'.record.hash = None /\ held'.record.status # "removed"
           /\ Bond[held'.path] = None /\ ~Due(agenda, held'.path)
           /\ \A v : Clear(t, v) => ~Comparable(held'.path, Spot(v))
  BY <1>1, <1>3, RefusalSound DEF t
<1>4. CASE /\ agenda' = <<unit>> \o Rest /\ held' = None
           /\ key \notin claim.claimed
           /\ \A k : k \in claim'.claimed <=> k \in claim.claimed \/ k = key
           /\ Head(agenda') = unit /\ agenda' # <<>>
           /\ \A p, c : Closing(agenda', p, c) <=> Closing(Rest, p, c)
  <2>1. Emit' = Emit
    <3>1. \A p : p \in Emit' <=> p \in claim'.emitted
      BY <1>1, <1>4, EmitAfter
    <3> QED BY <1>1, <1>4, <3>1, EmitAfter
  <2>2. \A p, c : Closing(agenda', p, c) <=> Closing(agenda, p, c)
    BY <1>1, <1>4, ClosingRest DEF t
  <2>3. \A p : Due(agenda', p) <=> Due(agenda, p)
    BY <2>2, DueIs, Zenon
  <2>4. Shut(agenda') = Shut(agenda)
    BY <2>3 DEF Shut
  <2>5. TasksInv'
    <3>1. ASSUME NEW ce, \A k : k \in ce.claimed <=> k \in claim.claimed \/ k = key,
                 NEW N, N = Emit \cup Shut(agenda)
          PROVE  LET a == <<unit>> \o Rest
                 IN Bare(Tail(a)) /\ Homed(a) /\ Cleared(a, ce) /\ Vowed(a, ce, N)
      BY <1>1, <1>4, <3>1, DispatchedTasks DEF t, key
    <3>2. /\ Bare(Tail(agenda')) /\ Homed(agenda') /\ Cleared(agenda', claim')
          /\ Vowed(agenda', claim', Emit' \cup Shut(agenda'))
      BY <1>4, <2>1, <2>4, <3>1
    <3> QED BY <3>2 DEF TasksInv
  <2>6. LegInv'
    BY <1>1, <1>4 DEF LegInv
  <2>7. /\ BondFine' /\ CurStrict' /\ OldFine'
         /\ \A r \in Seq(Name) : Strict(Bond, r) => Strict(Bond', r)
    BY <1>1, <1>4, <2>2, NestedQuiet
  <2>8. cur \in DOMAIN Now' \/ Due(agenda', cur)
    <3>1. \A p : Due(Rest, p) => Due(agenda', p)
      BY <1>4, DueIs, Zenon
    <3> QED BY <1>1, <1>4, <3>1, CurRecorded DEF t, Sound
  <2> QED BY <1>1, <1>4, <2>5, <2>6, <2>7, <2>8, Working
<1> QED BY <1>2, <1>3, <1>4

-----------------------------------------------------------------------------
(* The end of a container, and of an expansion *)

\* The record of a container is put in place when its members are done.
LEMMA CloseIs ==
  ASSUME IInv, NestInv, Close
  PROVE  LET t == Head(agenda)
             x == t.path
         IN /\ AtTask /\ t.op = "close" /\ Works /\ held' # None
            /\ agenda' = Rest /\ claim' = claim /\ claim # None
            /\ x \in Tree(cur) /\ x \in Seq(Name) /\ cur \in Seq(Name)
            /\ t.content \in Content /\ Kind[t.content] = "container"
            /\ held'.path = x /\ held'.record.hash = t.content
            /\ held'.record.status \in {"text", "capped"}
            /\ ~Due(Rest, x)
            /\ \A p, c : Closing(agenda, p, c) <=> Closing(Rest, p, c) \/ (x = p /\ t.content = c)
<1> DEFINE t == Head(agenda)
           x == t.path
<1>1. AtTask /\ t.op = "close"
  BY DEF Close, Doing, AtTask
<1>2. /\ Refuse(t.path, "capped", t.content) \/ Write(t.path, "text", t.content)
      /\ agenda' = Rest /\ claim' = claim
      /\ UNCHANGED <<source, terminal, run, dedup, claim, expanded, book>>
  BY DEF Close
<1>3. /\ x \in Tree(cur) /\ x \in Seq(Name) /\ t.content \in Content
      /\ claim # None /\ Rest # <<>> /\ cur \in Seq(Name)
  BY <1>1, TaskAt, TaskIs DEF Tree
<1>4. /\ Emits /\ held'.path = x /\ held'.record.hash = t.content
      /\ held'.record.status \in {"text", "capped"}
  <2>1. "text" \in Status /\ "capped" \in Status \ Bearing
    BY DEF Status, Bearing
  <2> HIDE DEF t
  <2>2. CASE Refuse(t.path, "capped", t.content)
    <3>1. Emits /\ held'.path = x /\ held'.record = [status |-> "capped", hash |-> t.content]
      BY <1>1, <1>3, <2>1, <2>2, TaskAt, Refusing
    <3> QED BY <3>1
  <2>3. CASE Write(t.path, "text", t.content)
    <3>1. Emits /\ held'.path = x /\ held'.record = [status |-> "text", hash |-> t.content]
      BY <1>1, <1>3, <2>1, <2>3, TaskAt, Writing
    <3> QED BY <3>1
  <2> QED BY <1>2, <2>2, <2>3
<1>5. Works /\ held' # None
  BY <1>1, <1>2, <1>4, TaskAt, ExpansionAssumption DEF Works, Emits, AtTask, run, book
<1>6. agenda \in Seq(Task(cur)) /\ Nested(agenda) /\ agenda # <<>>
  BY <1>1, TypedAgenda DEF NestInv, AtTask
<1>7. /\ \A p, c : Closing(agenda, p, c) <=> Closing(Rest, p, c) \/ (x = p /\ t.content = c)
      /\ ~Due(Rest, x)
  BY <1>1, <1>6, ClosingTail DEF Rest
<1>8. Kind[t.content] = "container"
  <2>1. Closing(agenda, x, t.content)
    BY <1>7
  <2> QED BY <1>6, <2>1, OnceIs
<1> QED BY <1>1, <1>2, <1>3, <1>4, <1>5, <1>7, <1>8

\* The container was bound to its content while it was open.
LEMMA CloseSound ==
  ASSUME IInv, IInv', NestInv, NestInv', Sound, Close
  PROVE  Sound'
<1> DEFINE t == Head(agenda)
           x == t.path
<1>1. /\ AtTask /\ t.op = "close" /\ Works /\ held' # None
      /\ agenda' = Rest /\ claim' = claim /\ claim # None
      /\ x \in Tree(cur) /\ x \in Seq(Name) /\ cur \in Seq(Name)
      /\ t.content \in Content /\ Kind[t.content] = "container"
      /\ held'.path = x /\ held'.record.hash = t.content
      /\ held'.record.status \in {"text", "capped"}
      /\ ~Due(Rest, x)
      /\ \A p, c : Closing(agenda, p, c) <=> Closing(Rest, p, c) \/ (x = p /\ t.content = c)
  BY CloseIs
<1> HIDE DEF t, x
<1>2. \A p : p # x => (Due(agenda, p) <=> Due(Rest, p))
  BY <1>1, DueIs, Zenon
<1>3. /\ Emit = claim.emitted
      /\ \A p : p \in Emit' <=> p \in Emit \/ (p \in Below(cur) /\ p = x)
  BY <1>1, EmitAfter
<1>4. ASSUME NEW p \in Seq(Name), p # x
       PROVE  Bond'[p] = Bond[p] /\ (p \in Exempt => p \in Exempt')
  <2>1. Old'[p] = Old[p] /\ (p \in Lax' <=> p \in Lax)
    BY <1>1, <1>4, NowAfter
  <2>2. p \in Emit' <=> p \in Emit
    BY <1>3, <1>4
  <2>3. cur' = cur
    BY <1>1 DEF Works
  <2>4. agenda' \in Seq(Task(cur')) /\ Nested(agenda')
    BY PrimedAgenda DEF NestInv
  <2>5. \A c : Closing(agenda, p, c) <=> Closing(agenda', p, c)
    BY <1>1, <1>4
  <2>6. Bond'[p] = Bond[p]
    <3>1. /\ Lost(agenda, claim, held, cur) = Below(cur) \ Emit
          /\ Lost(agenda', claim', held', cur') = Below(cur) \ Emit'
      BY <1>1, <2>3, BondNow, BondNext
    <3>2. (IF p \in Lost(agenda, claim, held, cur) THEN None ELSE Old[p]) =
          (IF p \in Lost(agenda', claim', held', cur') THEN None ELSE Old'[p])
      BY <2>1, <2>2, <3>1
    <3>3. CASE ~Due(agenda, p)
      <4>1. ~Due(agenda', p)
        BY <1>1, <1>2, <1>4, <3>3
      <4> QED BY <3>2, <3>3, <4>1, BondNow, BondNext
    <3>4. CASE Due(agenda, p)
      <4>1. PICK c : Closing(agenda, p, c)
        BY <3>4, DueIs
      <4>2. Closing(agenda', p, c)
        BY <2>5, <4>1
      <4> QED BY <4>1, <4>2, BondNow, BondNext
    <3> QED BY <3>3, <3>4
  <2> QED BY <1>1, <1>2, <1>4, <2>1, <2>6 DEF Exempt
<1>5. Bond'[x] = t.content /\ Bond[x] = t.content /\ Due(agenda, x) /\ x \notin Exempt
  <2>1. Closing(agenda, x, t.content)
    BY <1>1
  <2>2. Bond[x] = t.content /\ Due(agenda, x)
    BY <1>1, <2>1, BondNow
  <2>3. Stands(held'.record)
    BY <1>1, ExpansionAssumption DEF Stands, Bearing
  <2>4. Old'[x] = t.content
    BY <1>1, <2>3, NowAfter
  <2>5. x \notin Lost(agenda', claim', held', cur')
    <3>1. Lost(agenda', claim', held', cur') = Below(cur') \ Emit' /\ cur' = cur
      BY <1>1, BondNext DEF Works
    <3> QED BY <1>3, <3>1
  <2>6. Bond'[x] = t.content
    BY <1>1, <2>4, <2>5, BondNext
  <2> QED BY <2>2, <2>6 DEF Exempt
<1>6. /\ BondFine' /\ CurStrict'
       /\ \A r \in Seq(Name) : Strict(Bond, r) => Strict(Bond', r)
  BY <1>1, <1>4, <1>5, Quiet
<1>7. OldFine'
  BY <1>1, OldFineStays DEF Sound
<1>8. Bare(Rest) /\ Homed(Rest) /\ Cleared(Rest, claim') /\ Vowed(Rest, claim', Emit' \cup Shut(Rest))
  <2>1. EndAlike(agenda, 1, Rest, 0) /\ 1 \in 1..Len(agenda)
    <3>1. EndAlike(agenda, 1, Rest, 0) /\ Len(agenda) \in Nat \ {0}
      BY <1>1, RestAlike
    <3> QED BY <3>1
  <2>2. \A e \in Emit' \cup Shut(Rest) : e \in Emit \cup Shut(agenda)
    <3>1. x \in Shut(agenda)
      BY <1>1, <1>5 DEF Shut
    <3> QED BY <1>2, <1>3, <3>1 DEF Shut
  <2>3. ASSUME NEW N, \A e \in N : e \in Emit \cup Shut(agenda)
        PROVE  Bare(Rest) /\ Homed(Rest) /\ Cleared(Rest, claim) /\ Vowed(Rest, claim, N)
    BY <1>1, <2>1, <2>3, TasksLeft DEF Sound
  <2> QED BY <1>1, <2>2, <2>3
<1> QED BY <1>1, <1>6, <1>7, <1>8, DoneSound DEF t, x

\* A step that retires, or sets out to: left is what is still to be retired.
Ends(left) ==
  /\ AtTask /\ Works /\ Head(agenda).op \in {"reconcile", "retire"} /\ Rest = <<>> /\ claim' = None
  /\ agenda' = IF left = {} THEN <<>> ELSE <<[op |-> "retire", left |-> left]>>
  /\ held' # None => /\ held'.record.hash = None
                     /\ held'.path \in Lost(agenda, claim, held, cur)
  /\ \A p \in left : p \in Lost(agenda, claim, held, cur)
  /\ \A p \in Seq(Name) :
       (IF p \in left THEN None ELSE Old'[p]) =
         IF p \in Lost(agenda, claim, held, cur) THEN None ELSE Old[p]

\* It changes nothing that is bound.
LEMMA EndBond ==
  ASSUME IInv, IInv', NestInv, NestInv', NEW left, Ends(left)
  PROVE  /\ cur' = cur /\ cur \in Seq(Name) /\ agenda # <<>>
         /\ agenda' # <<>> => Head(agenda').op = "retire" /\ Head(agenda').left = left
         /\ Lost(agenda', claim', held', cur') = left
         /\ \A p : ~Due(agenda, p) /\ ~Due(agenda', p)
         /\ \A p \in Seq(Name) : Bond'[p] = Bond[p]
<1> USE DEF Ends
<1>1. cur' = cur /\ cur \in Seq(Name) /\ agenda # <<>>
  BY TaskAt DEF Works, AtTask
<1>2. /\ agenda' # <<>> => Head(agenda').op = "retire" /\ Head(agenda').left = left
      /\ Lost(agenda', claim', held', cur') = left
  <2> DEFINE t == [op |-> "retire", left |-> left]
  <2>1. t.op = "retire" /\ t.left = left /\ Head(<<t>>) = t /\ <<t>> # <<>>
    OBVIOUS
  <2> HIDE DEF t
  <2>2. agenda' = IF left = {} THEN <<>> ELSE <<t>>
    BY DEF t
  <2> QED BY <2>1, <2>2 DEF Lost
<1>3. \A p : ~Due(agenda, p) /\ ~Due(agenda', p)
  <2>1. \A p, c : ~Closing(agenda, p, c)
    <3>1. agenda \in Seq(Task(cur)) /\ Nested(agenda) /\ Tail(agenda) = <<>>
      BY TypedAgenda DEF NestInv, Rest, AtTask
    <3>2. \A p, c : Closing(agenda, p, c) => Closing(Tail(agenda), p, c)
      BY <1>1, <3>1, ClosingTail
    <3>3. \A p, c : ~Closing(Tail(agenda), p, c)
      <4> HIDE DEF Ends
      <4> QED BY <3>1, ClosingOne
    <3> QED BY <3>2, <3>3
  <2>2. \A p, c : ~Closing(agenda', p, c)
    <3> DEFINE t == [op |-> "retire", left |-> left]
    <3>1. t.op # "close"
      OBVIOUS
    <3> HIDE DEF t
    <3>2. agenda' = <<>> \/ agenda' = <<t>>
      BY DEF t
    <3> QED BY <3>1, <3>2, ClosingOne
  <2> QED BY <2>1, <2>2, DueIs
<1>4. \A p \in Seq(Name) : Bond'[p] = Bond[p]
  BY <1>2, <1>3, BondNow, BondNext
<1> QED BY <1>1, <1>2, <1>3, <1>4

LEMMA EndSound ==
  ASSUME IInv, IInv', NestInv, NestInv', Sound, NEW left, Ends(left)
  PROVE  Sound'
<1> USE DEF Ends
<1>1. /\ cur' = cur /\ cur \in Seq(Name) /\ agenda # <<>>
      /\ agenda' # <<>> => Head(agenda').op = "retire" /\ Head(agenda').left = left
      /\ Lost(agenda', claim', held', cur') = left
      /\ \A p : ~Due(agenda, p) /\ ~Due(agenda', p)
      /\ \A p \in Seq(Name) : Bond'[p] = Bond[p]
  BY EndBond
<1>2. ASSUME NEW p \in Seq(Name), Bond'[p] # None, p \in Exempt PROVE p \in Exempt'
  <2>1. held' = None \/ p # held'.path
    <3>1. SUFFICES ASSUME held' # None, p = held'.path PROVE FALSE
      OBVIOUS
    <3>2. Old'[p] = None
      BY <3>1, NowAfter DEF Stands
    <3> QED BY <1>1, <1>2, <3>2, BondNext
  <2>2. p \in Lax'
    BY <1>2, <2>1, NowAfter DEF Exempt
  <2> QED BY <1>1, <2>2 DEF Exempt
<1>3. /\ BondFine' /\ CurStrict'
      /\ \A r \in Seq(Name) : Strict(Bond, r) => Strict(Bond', r)
  <2>1. claim # None \/ Head(agenda).op # "unit"
    OBVIOUS
  <2> QED BY <1>1, <1>2, <2>1, Quiet
<1>4. TasksInv' /\ LegInv' /\ OldFine'
  BY <1>1 DEF TasksInv, LegInv, OldFine
<1>5. cur \in DOMAIN Now' \/ Due(agenda', cur)
  <2>1. \A p : ~Due(Rest, p)
    BY ClosingOne, DueIs, Zenon
  <2> QED BY <2>1, CurRecorded DEF Sound
<1> QED BY <1>3, <1>4, <1>5, Working

LEMMA ReconcileEnds ==
  ASSUME IInv, IInv', NestInv, NestInv', Sound, Reconcile
  PROVE  \E left : Ends(left)
<1>1. AtTask /\ Head(agenda).op = "reconcile"
  BY DEF Reconcile, Doing, AtTask
<1>2. /\ claim' = None /\ held' = None
      /\ agenda' = IF Stale = {} THEN Rest ELSE <<[op |-> "retire", left |-> Stale]>> \o Rest
      /\ UNCHANGED <<disk, run, dedup, expanded, held, book>>
  BY <1>1 DEF Reconcile, AtTask
<1>3. /\ claim # None /\ claim.prefix = cur /\ Formed(agenda, TRUE, cur)
      /\ \A q \in DOMAIN terminal : q \in Seq(Name) /\ terminal[q] \in Record
  BY <1>1, TaskAt
<1>4. Rest = <<>>
  <2>1. /\ Head(agenda) = agenda[1] /\ 1 \in DOMAIN agenda /\ Len(agenda) \in Nat
        /\ Rest \in Seq(Task(cur)) /\ Len(Rest) = Len(agenda) - 1
    BY <1>1, <1>3, FirstOf DEF AtTask, Rest
  <2>2. Len(agenda) = 1
    BY <1>1, <1>3, <2>1 DEF Formed
  <2>3. Len(Rest) = 0
    BY <2>1, <2>2
  <2>4. \A s \in Seq(Task(cur)) : s # <<>> => Len(s) # 0
    BY EmptySeq
  <2> QED BY <2>1, <2>3, <2>4, Zenon
<1>5. Works
  BY <1>1, <1>2, TaskAt DEF Works, AtTask, disk, run, book
<1>6. \A p \in Seq(Name) : Old'[p] = Old[p]
  BY <1>1, <1>2, <1>5, NowAfter
<1>7. ASSUME NEW p \in Seq(Name)
      PROVE  (IF p \in Stale THEN None ELSE Old'[p]) =
               IF p \in Lost(agenda, claim, held, cur) THEN None ELSE Old[p]
  <2>1. Lost(agenda, claim, held, cur) = Below(cur) \ claim.emitted
    <3>1. Emit = claim.emitted
      BY <1>1, <1>3, <1>5, EmitAfter
    <3> QED BY <1>3, <3>1, BondNow
  <2>2. p \in Stale => p \in Lost(agenda, claim, held, cur)
    BY <1>3, <2>1 DEF Stale, Below
  <2>3. p \in Below(cur) /\ p \notin claim.emitted /\ p \notin Stale => Old[p] = None
    <3>1. p \in Below(cur) /\ p \notin claim.emitted /\ p \notin Stale
            => p \notin DOMAIN terminal \/ terminal[p].status = "removed"
      BY <1>3 DEF Stale, Below
    <3>2. Now = terminal
      BY <1>1, <1>5, NowAfter
    <3>3. p \in DOMAIN terminal /\ terminal[p].status = "removed" => terminal[p].hash = None
      BY <3>2 DEF Sound, Shapely
    <3> QED BY <3>1, <3>2, <3>3, HoldingIs DEF Old, Stands
  <2> QED BY <1>6, <2>1, <2>2, <2>3
<1>8. agenda' = IF Stale = {} THEN <<>> ELSE <<[op |-> "retire", left |-> Stale]>>
  BY <1>2, <1>4
<1>9. \A p \in Stale : p \in Lost(agenda, claim, held, cur)
  <2>1. Emit = claim.emitted
    BY <1>1, <1>3, <1>5, EmitAfter
  <2>2. \A p \in Stale : p \in Seq(Name) /\ p \in Below(cur) /\ p \notin claim.emitted
    BY <1>3 DEF Stale, Below
  <2> QED BY <1>3, <2>1, <2>2, BondNow
<1>10. Ends(Stale)
  BY <1>1, <1>2, <1>4, <1>5, <1>7, <1>8, <1>9 DEF Ends
<1> QED BY <1>10

LEMMA RetireEnds ==
  ASSUME IInv, IInv', NestInv, NestInv', Sound, Retire
  PROVE  \E left : Ends(left)
<1> DEFINE all == Head(agenda).left
<1>1. AtTask /\ Head(agenda).op = "retire"
  BY DEF Retire, Doing, AtTask
<1>2. PICK q \in all :
        /\ Refuse(q, "removed", None)
        /\ agenda' = LET left == all \ {q}
                     IN IF left = {} THEN Rest ELSE <<[op |-> "retire", left |-> left]>> \o Rest
  BY DEF Retire
<1>3. UNCHANGED <<source, terminal, run, dedup, claim, expanded, book>>
  BY DEF Retire
<1>4. claim = None /\ claim' = None /\ Rest = <<>>
  <2>1. claim # None => Formed(agenda, TRUE, cur)
    BY <1>1, TaskAt
  <2>2. claim = None
    BY <1>1, <2>1, OwnedIs
  <2> QED BY <1>1, <1>3, <2>2, TaskAt
<1>5. q \in Tree(cur) /\ q \in Seq(Name)
  <2>1. all \in SUBSET Below(cur)
    BY <1>1, TaskAt, TaskIs
  <2> QED BY <2>1 DEF Below, Tree
<1>6. Lost(agenda, claim, held, cur) = all
  BY <1>1, <1>4 DEF Lost, AtTask
<1> HIDE DEF all
<1> DEFINE left == all \ {q}
<1>7. agenda' = IF left = {} THEN <<>> ELSE <<[op |-> "retire", left |-> left]>>
  BY <1>2, <1>4
<1>8. Emits /\ held'.path = q /\ held'.record = [status |-> "removed", hash |-> None]
  BY <1>1, <1>2, <1>5, TaskAt, Refusing DEF Status, Bearing
<1>9. Works /\ held' # None /\ held'.record.hash = None
  <2>1. Works /\ held' # None
    BY <1>1, <1>3, <1>8, TaskAt, ExpansionAssumption DEF Works, Emits, AtTask, run, book
  <2> QED BY <1>8, <2>1
<1>10. ASSUME NEW p \in Seq(Name)
       PROVE  (IF p \in left THEN None ELSE Old'[p]) =
                IF p \in Lost(agenda, claim, held, cur) THEN None ELSE Old[p]
  <2>1. p # q => Old'[p] = Old[p]
    BY <1>1, <1>8, <1>9, NowAfter
  <2>2. Old'[q] = None
    BY <1>1, <1>8, <1>9, NowAfter DEF Stands
  <2>3. q \in all
    BY <1>2
  <2> QED BY <1>6, <2>1, <2>2, <2>3
<1>11. /\ \A p \in left : p \in Lost(agenda, claim, held, cur)
       /\ held'.path \in Lost(agenda, claim, held, cur)
  BY <1>2, <1>6, <1>8
<1> HIDE DEF left
<1>12. Ends(left)
  BY <1>1, <1>4, <1>7, <1>9, <1>10, <1>11 DEF Ends
<1> QED BY <1>12

-----------------------------------------------------------------------------
(* The unit of an entry *)

LEMMA TopRecorded ==
  ASSUME IInv, IInv', NestInv, NestInv', AtTask, Works, claim = None, Head(agenda).op = "unit",
         claim' = None, agenda' = <<>>, held' # None, held'.path = cur
  PROVE  /\ cur \in Roots /\ cur \in Seq(Name) /\ cur' = cur
         /\ cur \in DOMAIN Now' /\ Now'[cur] = held'.record /\ Now = terminal
         /\ \A p \in Seq(Name) : Bond'[p] = Old'[p] /\ (p \in Exempt' <=> p \in Lax')
         /\ \A p \in Seq(Name) : p # cur => Bond'[p] = Bond[p] /\ (p \in Exempt => p \in Exempt')
         /\ \A p \in Seq(Name) : p # cur => Bond'[p] = Old[p]
<1>1. cur \in Roots /\ cur \in Seq(Name) /\ cur' = cur
  BY TaskAt DEF Works
<1>2. cur \in DOMAIN Now' /\ Now'[cur] = held'.record /\ Now = terminal
  BY NowAfter
<1>3. \A p : ~Due(agenda', p)
  BY ClosingOne, DueIs
<1>4. Lost(agenda', claim', held', cur') = {}
  BY DEF Lost
<1>5. \A p \in Seq(Name) : Bond'[p] = Old'[p] /\ (p \in Exempt' <=> p \in Lax')
  <2>1. \A p \in Seq(Name) : Bond'[p] = Old'[p]
    BY <1>3, <1>4, BondNext
  <2> QED BY <1>3, <2>1 DEF Exempt
<1>6. \A p \in Seq(Name) : p # cur => Old'[p] = Old[p] /\ (p \in Lax' <=> p \in Lax)
  BY NowAfter
<1>7. \A p \in Seq(Name) : Bond[p] = Old[p] /\ (p \in Exempt <=> p \in Lax)
  BY TopBond
<1> QED BY <1>1, <1>2, <1>5, <1>6, <1>7

LEMMA TopDone ==
  ASSUME IInv, IInv', NestInv, NestInv', Sound, AtTask, Works, claim = None, Head(agenda).op = "unit",
         claim' = None, agenda' = <<>>, held' # None, held'.path = cur,
         held'.record.status # "removed", BondFine', CurStrict',
         \A r \in Seq(Name) : r \notin Tree(cur) /\ Strict(Bond, r) => Strict(Bond', r)
  PROVE  Sound'
<1>1. cur \in DOMAIN Now'
  BY TopRecorded
<1>2. TasksInv' /\ LegInv' /\ OldFine'
  BY DEF TasksInv, LegInv, OldFine
<1> QED BY <1>1, <1>2, Working

\* An entry that reconciles nothing is exempt.
LEMMA TopExempt ==
  ASSUME IInv, IInv', NestInv, NestInv', Sound, AtTask, Works, claim = None, Head(agenda).op = "unit",
         claim' = None, agenda' = <<>>, held' # None, held'.path = cur,
         held'.record.status # "removed", cur \in Lax', ~Settling(cur, Now)'
  PROVE  Sound'
<1>1. /\ cur \in Roots /\ cur \in Seq(Name) /\ cur' = cur
      /\ \A p \in Seq(Name) : p \in Exempt' <=> p \in Lax'
      /\ \A p \in Seq(Name) : p # cur => Bond'[p] = Bond[p] /\ (p \in Exempt => p \in Exempt')
  BY TopRecorded
<1>2. Changing(cur, Bond, Bond', Exempt, Exempt')
  BY <1>1 DEF Changing, Sound, BondFine
<1>3. /\ \A q \in Seq(Name) : Bond'[q] # None => Fine(Bond', Exempt', q)
      /\ \A s \in Seq(Name) : s # cur /\ Strict(Bond, s) => Strict(Bond', s)
  BY <1>1, <1>2, EntryChanged
<1>4. BondFine' /\ CurStrict'
  BY <1>1, <1>3 DEF BondFine, CurStrict
<1>5. \A s \in Seq(Name) : s \notin Tree(cur) => s # cur
  BY DEF Tree
<1> QED BY <1>3, <1>4, <1>5, TopDone

\* The entry's content is its source's.
LEMMA TopContent ==
  ASSUME IInv, AtTask, Works, claim = None, Head(agenda).op = "unit"
  PROVE  /\ Head(agenda).path = cur /\ Head(agenda).content \in Content
         /\ Settling(cur, Now)' => Head(agenda).content = source[cur] /\ source' = source
<1>1. Head(agenda).path = cur /\ Head(agenda).content \in Content
  BY UnitIs
<1>2. Head(agenda).content = source[cur] \/ cur \in moved
  BY DEF IInv, AgendaInv, AtTask
<1>3. source' = source /\ moved' = moved /\ cur' = cur
  BY DEF Works
<1> QED BY <1>1, <1>2, <1>3 DEF Settling

LEMMA TopSkip ==
  ASSUME IInv, IInv', NestInv, NestInv', Sound, Skip, claim = None
  PROVE  Sound'
<1> DEFINE u == Head(agenda)
<1>1. /\ AtTask /\ u.op = "unit" /\ Works /\ agenda' = Rest
      /\ held' # None /\ held'.path = cur /\ held'.record = terminal[cur]
      /\ cur \in DOMAIN terminal /\ u.content \in Content
      /\ held'.record.status \in Bearing /\ held'.record.hash = u.content
      /\ claim' = None
  BY SkipIs
<1>2. agenda' = <<>>
  BY <1>1, TaskAt
<1>3. /\ cur \in Roots /\ cur \in Seq(Name) /\ cur' = cur
      /\ cur \in DOMAIN Now' /\ Now'[cur] = held'.record /\ Now = terminal
      /\ \A p \in Seq(Name) : Bond'[p] = Old'[p] /\ (p \in Exempt' <=> p \in Lax')
      /\ \A p \in Seq(Name) : p # cur => Bond'[p] = Bond[p] /\ (p \in Exempt => p \in Exempt')
  BY <1>1, <1>2, TopRecorded
<1>4. Stands(held'.record)
  BY <1>1, ExpansionAssumption DEF Stands
<1>5. Bond'[cur] = u.content /\ Bond[cur] = u.content
  <2>1. Old'[cur] = u.content
    BY <1>1, <1>3, <1>4, NowAfter
  <2>2. Old[cur] = u.content
    BY <1>1, <1>3, <1>4, HoldingIs DEF Old
  <2> QED BY <1>1, <1>3, <2>1, <2>2, TopBond
<1>6. cur \in Exempt => cur \in Exempt'
  <2>1. cur \in Exempt <=> cur \in Lax
    BY <1>1, <1>3, TopBond
  <2>2. \A p : EverOccupied(p)' = EverOccupied(p)
    BY <1>1, NowAfter
  <2> QED BY <1>1, <1>3, <2>1, <2>2 DEF Lax, LaxIn
<1>7. /\ \A p \in Seq(Name) : Bond'[p] = Bond[p]
      /\ \A p \in Seq(Name) : Bond'[p] # None /\ p \in Exempt => p \in Exempt'
  BY <1>3, <1>5, <1>6
<1>8. /\ \A q \in Seq(Name) : Fine(Bond, Exempt, q) => Fine(Bond', Exempt', q)
      /\ \A r \in Seq(Name) : Strict(Bond, r) => Strict(Bond', r)
  BY <1>7, SameBond
<1>9. BondFine'
  BY <1>7, <1>8 DEF Sound, BondFine
<1>10. CurStrict'
  <2>1. SUFFICES ASSUME Settling(cur, Now)' PROVE Strict(Bond', cur)
    BY <1>2, <1>3 DEF CurStrict
  <2>2. u.content = source[cur] /\ source' = source
    BY <1>1, <2>1, TopContent
  <2>3. cur \notin Lax'
    BY <1>1, <1>3, <2>1, <2>2 DEF Settling, Lax, LaxIn, Bearing
  <2>4. Bond'[cur] # None /\ cur \notin Exempt'
    BY <1>3, <1>5, <1>1, <2>3, ExpansionAssumption
  <2>5. \A q \in Seq(Name) : Bond'[q] # None => Fine(Bond', Exempt', q)
    BY <1>9 DEF BondFine
  <2> QED BY <1>3, <2>4, <2>5, FineIsStrict
<1>11. held'.record.status # "removed"
  BY <1>1 DEF Bearing
<1> QED BY <1>1, <1>2, <1>8, <1>9, <1>10, <1>11, TopDone

\* An entry is neither too deep nor inside itself.
LEMMA TopGuard ==
  ASSUME IInv, NestInv, GuardFails, claim = None
  PROVE  FALSE
<1> DEFINE u == Head(agenda)
<1>1. AtTask /\ u.op = "unit" /\ ~Expandable(u)
  BY DEF GuardFails, Doing, AtTask
<1>2. Len(agenda) = 1 /\ u = agenda[1] /\ 1 \in 1..Len(agenda)
  <2>1. Len(agenda) \in Nat \ {0} /\ u = agenda[1] /\ Len(Rest) = Len(agenda) - 1 /\ Rest = <<>>
    BY <1>1, RestAlike, TaskAt DEF Rest
  <2>2. Len(Rest) = 0
    BY <2>1
  <2> QED BY <2>1, <2>2
<1>3. u.chain = Outer(agenda, 1) /\ u.depth = Cardinality(Outer(agenda, 1))
  BY <1>1, <1>2 DEF NestInv, Nested, Fits
<1>4. Outer(agenda, 1) = {}
  <2>1. \A k \in 1..Len(agenda) : ~(1 < k)
    BY <1>2
  <2> QED BY <2>1 DEF Outer
<1>5. u.chain = {} /\ u.depth = 0
  BY <1>3, <1>4, FS_EmptySet
<1> QED BY <1>1, <1>5, ExpansionAssumption DEF Expandable

LEMMA TopBorrow ==
  ASSUME IInv, IInv', NestInv, NestInv', Sound, Borrow, claim = None
  PROVE  Sound'
<1> DEFINE u == Head(agenda)
<1>1. /\ AtTask /\ u.op = "unit" /\ Works /\ u.content \in Content /\ u.path = cur
      /\ held' # None /\ held'.path = cur /\ held'.record.hash = u.content
      /\ held'.record.status = "borrowed" /\ Kind[u.content] = "leaf"
  BY RecordingIs
<1>2. claim' = None /\ agenda' = <<>>
  BY <1>1, TaskAt DEF Borrow
<1>3. cur \in Roots /\ cur \in DOMAIN Now' /\ Now'[cur] = held'.record /\ cur' = cur
  BY <1>1, <1>2, TopRecorded
<1>4. cur \in Lax'
  BY <1>1, <1>3, ExpansionAssumption DEF Lax, LaxIn, HasLeg
<1>5. ~Settling(cur, Now)'
  <2>1. SUFFICES ASSUME Settling(cur, Now)' PROVE FALSE
    OBVIOUS
  <2>2. u.content = source[cur] /\ source' = source
    BY <1>1, <2>1, TopContent
  <2> QED BY <1>1, <1>3, <2>1, <2>2 DEF Settling, HasLeg
<1> QED BY <1>1, <1>2, <1>4, <1>5, TopExempt

\* Where nothing is left below the entry, whatever it became.
LEMMA TopEmptied ==
  ASSUME IInv, IInv', NestInv, NestInv', Sound, AtTask, Works, claim = None, Head(agenda).op = "unit",
         \A p \in Seq(Name) : p \notin Tree(cur) => Bond'[p] = Bond[p] /\ (p \in Exempt => p \in Exempt'),
         \A p \in Below(cur) : Bond'[p] = None
  PROVE  /\ BondFine' /\ CurStrict'
         /\ \A r \in Seq(Name) : r \notin Tree(cur) /\ Strict(Bond, r) => Strict(Bond', r)
<1>1. cur \in Roots /\ cur' = cur
  BY TaskAt DEF Works
<1>2. Emptying(cur, Bond, Bond', Exempt, Exempt')
  BY DEF Emptying, Sound, BondFine
<1>3. /\ \A q \in Seq(Name) : Bond'[q] # None => Fine(Bond', Exempt', q)
      /\ Strict(Bond', cur)
      /\ \A s \in Seq(Name) : s \notin Tree(cur) /\ Strict(Bond, s) => Strict(Bond', s)
  BY <1>1, <1>2, Emptied
<1> QED BY <1>1, <1>3 DEF BondFine, CurStrict

\* A plain entry retires what its namespace holds, if it holds anything.
LEMMA TopLeaf ==
  ASSUME IInv, IInv', NestInv, NestInv', Sound, Leaf, claim = None
  PROVE  Sound'
<1> DEFINE u == Head(agenda)
           after == <<[op |-> "reconcile"]>>
<1>1. /\ AtTask /\ u.op = "unit" /\ Works /\ u.content \in Content /\ u.path = cur
      /\ held' # None /\ held'.path = cur /\ held'.record.status \in {"text", "failed"}
  BY RecordingIs
<1>2. Rest = <<>> /\ \A q \in DOMAIN terminal : q \in Seq(Name)
  BY <1>1, TaskAt
<1>3. \/ claim' = NewClaim(cur) /\ agenda' = after
      \/ claim' = None /\ agenda' = <<>> /\ \A q \in DOMAIN terminal : ~Under(cur, q)
  <2>1. <<[op |-> "reconcile"]>> \o Rest = after
    BY <1>2
  <2> HIDE DEF after
  <2> QED BY <1>1, <1>2, <2>1 DEF Leaf
<1>4. /\ after # <<>> /\ Head(after).op = "reconcile" /\ \A p, c : ~Closing(after, p, c)
      /\ Bare(Tail(after)) /\ Homed(after) /\ \A ce, N : Cleared(after, ce) /\ Vowed(after, ce, N)
  BY OnlyReconcile
<1> HIDE DEF after, u
<1>5. CASE claim' = NewClaim(cur) /\ agenda' = after
  <2>1. /\ BondFine' /\ CurStrict' /\ OldFine'
        /\ \A r \in Seq(Name) : r \notin Tree(cur) /\ Strict(Bond, r) => Strict(Bond', r)
    BY <1>1, <1>4, <1>5, TopClaimed DEF u
  <2>2. TasksInv' /\ LegInv'
    BY <1>4, <1>5 DEF TasksInv, LegInv
  <2>3. cur \in DOMAIN Now'
    BY <1>1, NowAfter
  <2> QED BY <1>1, <2>1, <2>2, <2>3, Working
<1>6. CASE claim' = None /\ agenda' = <<>> /\ \A q \in DOMAIN terminal : ~Under(cur, q)
  <2>1. /\ cur \in Seq(Name) /\ Now = terminal
        /\ \A p \in Seq(Name) : p # cur => Bond'[p] = Bond[p] /\ (p \in Exempt => p \in Exempt')
        /\ \A p \in Seq(Name) : p # cur => Bond'[p] = Old[p]
    BY <1>1, <1>6, TopRecorded DEF u
  <2>2. ASSUME NEW p \in Below(cur) PROVE Bond'[p] = None
    <3>1. p \in Seq(Name) /\ p # cur /\ p \notin DOMAIN terminal
      BY <1>6, <2>1, UnderIsOrder DEF Below
    <3> QED BY <2>1, <3>1, HoldingIs DEF Old
  <2>3. \A p \in Seq(Name) : p \notin Tree(cur) => Bond'[p] = Bond[p] /\ (p \in Exempt => p \in Exempt')
    BY <2>1 DEF Tree
  <2>4. /\ BondFine' /\ CurStrict'
        /\ \A r \in Seq(Name) : r \notin Tree(cur) /\ Strict(Bond, r) => Strict(Bond', r)
    BY <1>1, <2>2, <2>3, TopEmptied DEF u
  <2> QED BY <1>1, <1>6, <2>4, TopDone DEF u
<1> QED BY <1>3, <1>5, <1>6

\* A source with a leg: its child will be all that is left below it.
LEMMA TopPrimary ==
  ASSUME IInv, IInv', NestInv, NestInv', Sound, Primary, claim = None
  PROVE  Sound'
<1> DEFINE u == Head(agenda)
           leg == [op |-> "leg", path |-> u.path, content |-> u.content]
<1>1. /\ AtTask /\ u.op = "unit" /\ Works /\ u.content \in Content /\ u.path = cur
      /\ held' # None /\ held'.path = cur /\ held'.record.hash = u.content
      /\ held'.record.status # "removed" /\ HasLeg(u.content)
      /\ ~Loaded(u) => held'.record.status = "failed"
  BY RecordingIs
<1>2. Rest = <<>> /\ cur \in Roots /\ cur \in Seq(Name) /\ cur' = cur
  BY <1>1, TaskAt DEF Works
<1>3. /\ claim' = None
      /\ agenda' = IF Loaded(u) /\ ~Occupied(cur) THEN <<leg>> ELSE <<>>
  <2>1. <<leg>> \o Rest = <<leg>>
    BY <1>2
  <2> HIDE DEF leg
  <2>2. claim' = None
    BY DEF Primary
  <2>3. agenda' = IF Loaded(u) /\ ~Occupied(cur) THEN <<leg>> \o Rest ELSE Rest
    BY <1>1 DEF Primary, leg
  <2> QED BY <1>2, <2>1, <2>2, <2>3
<1>4. leg.op = "leg" /\ leg.path = cur /\ leg.content = u.content /\ leg \in Task(cur)
  <2>1. leg \in Task(cur)
    BY <1>1, <1>2 DEF Task, Tree
  <2> QED BY <1>1, <2>1
<1> HIDE DEF leg, u
<1>5. CASE ~(Loaded(u) /\ ~Occupied(cur))
  <2>1. agenda' = <<>>
    BY <1>3, <1>5
  <2>2. cur \in DOMAIN Now' /\ Now'[cur] = held'.record
    BY <1>1, <1>3, <2>1, TopRecorded DEF u
  <2>3. Occupied(cur) => EverOccupied(cur)'
    <3>1. walked \subseteq Roots /\ walked' = walked
      BY <1>1 DEF IInv, TypeOK, Works
    <3> QED BY <1>2, <3>1 DEF Occupied, EverOccupied
  <2>4. Settling(cur, Now)' => u.content = source[cur] /\ source' = source
    BY <1>1, TopContent DEF u
  <2>5. u \in Task(cur) => u.depth \in Nat
    BY <1>1, TaskIs
  <2>6. ~Loaded(u) => u.content # source[cur]
    BY <1>1 DEF Loaded
  <2>7. cur \in Lax'
    BY <1>1, <1>2, <1>5, <2>2, <2>3, ExpansionAssumption DEF Lax, LaxIn
  <2>8. ~Settling(cur, Now)'
    <3>1. SUFFICES ASSUME Settling(cur, Now)' PROVE FALSE
      OBVIOUS
    <3>2. Occupied(cur)
      BY <1>5, <2>4, <2>6, <3>1
    <3> QED BY <1>1, <1>2, <2>3, <2>4, <3>1, <3>2 DEF Settling
  <2> QED BY <1>1, <1>3, <2>1, <2>7, <2>8, TopExempt DEF u
<1>6. CASE Loaded(u) /\ ~Occupied(cur)
  <2>1. agenda' = <<leg>> /\ Head(agenda') = leg /\ agenda' # <<>>
    BY <1>3, <1>6
  <2>2. \A p : ~Due(agenda', p)
    <3>1. \A p, c : ~Closing(agenda', p, c)
      BY <1>4, <2>1, ClosingOne
    <3> QED BY <3>1, DueIs
  <2>3. Lost(agenda', claim', held', cur') = Below(cur)
    BY <1>2, <1>3, <1>4, <2>1 DEF Lost
  <2>4. \A p \in Below(cur) : p \in Seq(Name) /\ p # cur
    BY <1>2, UnderIsOrder DEF Below
  <2>5. \A p \in Seq(Name) : p # cur => Old'[p] = Old[p] /\ (p \in Lax' <=> p \in Lax)
    BY <1>1, NowAfter
  <2>6. \A p \in Seq(Name) : Bond[p] = Old[p] /\ (p \in Exempt <=> p \in Lax)
    BY <1>1, TopBond DEF u
  <2>7. \A p \in Below(cur) : Bond'[p] = None
    BY <2>2, <2>3, <2>4, BondNext
  <2>8. ASSUME NEW p \in Seq(Name), p \notin Tree(cur)
        PROVE  Bond'[p] = Bond[p] /\ (p \in Exempt => p \in Exempt')
    <3>1. p # cur /\ p \notin Below(cur)
      BY <2>8 DEF Tree, Below
    <3>2. Bond'[p] = Old'[p]
      BY <2>2, <2>3, <3>1, BondNext
    <3> QED BY <2>2, <2>5, <2>6, <3>1, <3>2 DEF Exempt
  <2>9. /\ BondFine' /\ CurStrict'
        /\ \A r \in Seq(Name) : r \notin Tree(cur) /\ Strict(Bond, r) => Strict(Bond', r)
    BY <1>1, <2>7, <2>8, TopEmptied DEF u
  <2>10. OldFine'
    BY <1>1, OldFineStarts DEF u, Sound
  <2>11. TasksInv'
    BY <1>3 DEF TasksInv
  <2>12. LegInv'
    <3>1. Old'[cur] = u.content
      <4>1. Stands(held'.record)
        BY <1>1, ExpansionAssumption DEF Stands
      <4> QED BY <1>1, <1>2, <4>1, NowAfter
    <3>2. Emit' \cup Shut(agenda') = {}
      BY <1>3, <2>2 DEF Emit, Emitted, Shut
    <3>3. Alone(Emit' \cup Shut(agenda'), cur, Spot(leg))
      BY <3>2 DEF Alone
    <3> QED BY <1>2, <1>4, <2>1, <2>2, <3>1, <3>3 DEF LegInv
  <2>13. cur \in DOMAIN Now'
    BY <1>1, NowAfter
  <2> QED BY <1>1, <2>9, <2>10, <2>11, <2>12, <2>13, Working
<1> QED BY <1>5, <1>6

-----------------------------------------------------------------------------
(* The run and the environment *)

\* Before the first task of an entry nothing is open and nothing lost.
LEMMA Plain ==
  ASSUME NEW a, a = <<>> \/ \E t : a = <<t>> /\ t.op = "unit"
  PROVE  \A p \in Seq(Name) :
           ~Due(a, p) /\ \A h, r, old : BondOf(a, Lost(a, None, h, r), old)[p] = old[p]
<1>1. \A p, c : ~Closing(a, p, c)
  BY ClosingOne
<1>2. \A p : ~Due(a, p)
  BY <1>1, DueIs, Zenon
<1>3. \A h, r : Lost(a, None, h, r) = {}
  <2>1. CASE a = <<>>
    BY <2>1 DEF Lost
  <2>2. CASE \E t : a = <<t>> /\ t.op = "unit"
    BY <2>2 DEF Lost
  <2> QED BY <2>1, <2>2
<1> QED BY <1>2, <1>3 DEF BondOf

\* What only touches the files, or appends what is in hand.
LEMMA Passing ==
  ASSUME IInv, Sound, Now' = Now, Emit' = Emit, UNCHANGED <<agenda, cur, queue, walked, visited>>,
         Lost(agenda', claim', held', cur') = Lost(agenda, claim, held, cur),
         claim' = None <=> claim = None, claim # None => claim'.claimed = claim.claimed,
         \A p : EverOccupied(p) => EverOccupied(p)',
         \A r \in Roots : Settling(r, Now)' => Settling(r, Now)
  PROVE  Sound'
<1>1. Old' = Old /\ Bond' = Bond
  BY DEF Old, Bond
<1>2. \A p : p \in Lax => p \in Lax'
  BY DEF Lax, LaxIn
<1>3. \A p : p \in Exempt => p \in Exempt'
  BY <1>2 DEF Exempt
<1>4. BondFine' /\ \A r \in Seq(Name) : Strict(Bond, r) => Strict(Bond', r)
  BY <1>1, <1>3, SameBond DEF Sound, BondFine
<1>5. \A q \in Seq(Name) : Fine(Old, Lax, q) => Fine(Old', Lax', q)
  BY <1>1, <1>2, SameBond
<1>6. Shapely'
  BY DEF Sound, Shapely
<1>7. TasksInv'
  <2>1. SUFFICES ASSUME claim' # None
                 PROVE  /\ Bare(Tail(agenda)) /\ Homed(agenda) /\ Cleared(agenda, claim')
                        /\ Vowed(agenda, claim', Emit \cup Shut(agenda))
    BY DEF TasksInv
  <2>2. /\ Bare(Tail(agenda)) /\ Homed(agenda) /\ Cleared(agenda, claim)
        /\ Vowed(agenda, claim, Emit \cup Shut(agenda))
    BY <2>1 DEF Sound, TasksInv
  <2>3. \A t : Pending(claim', t) <=> Pending(claim, t)
    BY <2>1 DEF Pending, Spent
  <2> QED BY <2>2, <2>3 DEF Cleared, Vowed
<1>8. LegInv'
  <2>1. SUFFICES ASSUME agenda # <<>>, Head(agenda).op = "leg"
                 PROVE  LET t == Head(agenda)
                        IN /\ t.path = cur \/ (claim' # None /\ t.path \in Emit)
                           /\ ~Due(agenda, t.path) /\ Old[t.path] = t.content
                           /\ Alone(Emit \cup Shut(agenda), t.path, Spot(t))
    BY <1>1 DEF LegInv
  <2> QED BY <2>1 DEF Sound, LegInv
<1>9. RecordsInv'
  BY DEF Sound, RecordsInv
<1>10. OldFine'
  <2>1. SUFFICES ASSUME claim' # None \/ (agenda # <<>> /\ Head(agenda).op = "leg"),
                        NEW x \in Below(cur), NEW q \in Seq(Name),
                        Untouched(x), Old[x] # None, Under(x, q), Old[q] # None
                 PROVE  Fine(Old, Lax, q)
    BY <1>1, <1>5 DEF OldFine, Untouched
  <2> QED BY <2>1 DEF Sound, OldFine
<1>11. CurStrict'
  <2>1. SUFFICES ASSUME cur # None, ~(claim = None /\ agenda # <<>> /\ Head(agenda).op = "unit")
                 PROVE  (agenda = <<>> /\ ~Settling(cur, Now)') \/ Strict(Bond', cur)
    BY DEF CurStrict
  <2>2. cur \in Roots /\ cur \in Seq(Name)
    BY <2>1, PlaceIs DEF IInv, TypeOK
  <2>3. (agenda = <<>> /\ ~Settling(cur, Now)) \/ Strict(Bond, cur)
    BY <2>1 DEF Sound, CurStrict
  <2> QED BY <1>4, <2>2, <2>3
<1>12. VisitedStrict'
  <2>1. SUFFICES ASSUME NEW r \in visited, Settling(r, Now)' PROVE Strict(Bond', r)
    BY DEF VisitedStrict
  <2>2. r \in Roots /\ r \in Seq(Name)
    BY <2>1, PlaceIs DEF IInv, TypeOK
  <2>3. Strict(Bond, r)
    BY <2>1, <2>2 DEF Sound, VisitedStrict
  <2> QED BY <1>4, <2>2, <2>3
<1> QED BY <1>4, <1>6, <1>7, <1>8, <1>9, <1>10, <1>11, <1>12 DEF Sound

\* A record that is appended was counted when it was in hand.
LEMMA AppendSound ==
  ASSUME IInv, Sound, AppendRecord
  PROVE  Sound'
<1>1. /\ held # None /\ held' = None /\ terminal' = With(terminal, held.path, held.record)
      /\ claim' = IF claim # None /\ Under(claim.prefix, held.path)
                  THEN [claim EXCEPT !.emitted = @ \cup {held.path}] ELSE claim
      /\ UNCHANGED <<source, agenda, cur, queue, walked, visited, moved>>
  BY DEF AppendRecord, run, book
<1>2. /\ held.path \in Seq(Name)
      /\ claim # None => claim \in Claim
  BY <1>1 DEF IInv, TypeOK, Held
<1>3. Now' = Now
  BY <1>1 DEF Now, Recorded
<1>4. claim # None => /\ claim'.prefix = claim.prefix /\ claim'.claimed = claim.claimed
                      /\ \A p : p \in claim'.emitted <=>
                           p \in claim.emitted \/ (p = held.path /\ p \in Below(claim.prefix))
  BY <1>1, <1>2 DEF Claim, Below
<1>5. claim' = None <=> claim = None
  <2>1. CASE claim # None /\ Under(claim.prefix, held.path)
    <3>1. claim' \in Claim
      BY <1>1, <1>2, <2>1 DEF Claim
    <3> QED BY <2>1, <3>1, ExpansionAssumption
  <2> QED BY <1>1, <2>1
<1>6. Emitted(claim', None) = Emitted(claim, held)
  BY <1>1, <1>4, <1>5 DEF Emitted
<1>7. Emit' = Emit /\ Lost(agenda', claim', held', cur') = Lost(agenda, claim, held, cur)
  BY <1>1, <1>5, <1>6 DEF Emit, Lost
<1>8. \A p : EverOccupied(p) => EverOccupied(p)'
  BY <1>1 DEF EverOccupied, With
<1>9. \A r \in Roots : Settling(r, Now)' => Settling(r, Now)
  BY <1>1, <1>3, <1>8 DEF Settling
<1> QED BY <1>1, <1>3, <1>4, <1>5, <1>7, <1>8, <1>9, Passing

\* The environment can only make an outcome matter no more.
LEMMA DisturbedSound ==
  ASSUME IInv, Sound, moved \subseteq moved',
         \A r \in Roots : r \notin moved' => source'[r] = source[r],
         UNCHANGED <<terminal, queue, walked, cur, agenda, claim, held, visited>>
  PROVE  Sound'
<1>1. Now' = Now /\ Emit' = Emit
  BY DEF Now, Emit
<1>2. Lost(agenda', claim', held', cur') = Lost(agenda, claim, held, cur)
  OBVIOUS
<1>3. \A p : EverOccupied(p) <=> EverOccupied(p)'
  BY DEF EverOccupied
<1>4. \A r \in Roots : Settling(r, Now)' => Settling(r, Now)
  BY <1>1, <1>3 DEF Settling
<1> QED BY <1>1, <1>2, <1>3, <1>4, Passing

\* Between two entries the bond is what is on record.
LEMMA RestingBond ==
  ASSUME claim = None, agenda = <<>>
  PROVE  \A p \in Seq(Name) : Bond[p] = Old[p] /\ (p \in Exempt <=> p \in Lax)
BY Plain DEF Bond, Exempt

LEMMA RestingNext ==
  ASSUME claim' = None, agenda' = <<>> \/ \E t : agenda' = <<t>> /\ t.op = "unit"
  PROVE  \A p \in Seq(Name) : Bond'[p] = Old'[p] /\ (p \in Exempt' <=> p \in Lax')
<1>1. \A p \in Seq(Name) :
        ~Due(agenda', p) /\ \A h, r, old : BondOf(agenda', Lost(agenda', None, h, r), old)[p] = old[p]
  BY Plain
<1>2. \A p \in Seq(Name) : Bond'[p] = Old'[p]
  BY <1>1 DEF Bond
<1>3. \A p \in Seq(Name) : p \in Exempt' <=> p \in Lax'
  BY <1>1 DEF Exempt
<1> QED BY <1>2, <1>3

\* An entry that is done with is settled like those before it.
LEMMA CompletedStrict ==
  ASSUME IInv, Sound, Between, NEW r \in Completed, Settling(r, Now)
  PROVE  Strict(Bond, r)
<1>1. agenda = <<>>
  BY DEF Between
<1>2. CASE r \in visited
  BY <1>2 DEF Sound, VisitedStrict
<1>3. CASE cur # None /\ r = cur
  BY <1>1, <1>3 DEF Sound, CurStrict
<1> QED BY <1>2, <1>3 DEF Completed

\* Whoever was walked and is not to come is on record.
LEMMA WalkedRecorded ==
  ASSUME Sound, agenda = <<>>, NEW w \in walked, w \notin queue, w # None
  PROVE  w \in DOMAIN Now
<1>1. ~Due(agenda, cur)
  BY Plain, ClosingOne, DueIs, Zenon
<1> QED BY <1>1 DEF Sound, RecordsInv

LEMMA StartSound ==
  ASSUME IInv, NestInv, Sound, Start
  PROVE  Sound'
<1>1. /\ cur = None /\ agenda = <<>> /\ held = None /\ claim = None /\ queue = {}
      /\ walked \subseteq Roots
  BY IdleIs DEF IInv, OrderInv, TypeOK, Start
<1>2. /\ visited' = {} /\ walked' \subseteq Roots /\ queue' = walked'
      /\ UNCHANGED <<source, terminal, cur, agenda, claim, held>>
  BY DEF Start, disk
<1>3. Now' = Now /\ Now = terminal /\ Old' = Old
  BY <1>1, <1>2 DEF Now, Recorded, Old
<1>4. \A w \in walked : w \in DOMAIN terminal
  <2>1. \A w \in walked : w # None
    BY <1>1, PlaceIs, ExpansionAssumption
  <2> QED BY <1>1, <1>3, <2>1, WalkedRecorded
<1>5. \A p : EverOccupied(p) => EverOccupied(p)'
  BY <1>2, <1>4 DEF EverOccupied
<1>6. \A p : p \in Lax => p \in Lax'
  BY <1>3, <1>5 DEF Lax, LaxIn
<1>7. \A p \in Seq(Name) : Bond'[p] = Bond[p] /\ (p \in Exempt => p \in Exempt')
  BY <1>1, <1>2, <1>3, <1>6, RestingBond, RestingNext
<1>8. BondFine'
  BY <1>7, SameBond DEF Sound, BondFine
<1>9. Shapely' /\ VisitedStrict' /\ CurStrict'
  BY <1>1, <1>2, <1>3 DEF Sound, Shapely, VisitedStrict, CurStrict
<1>10. TasksInv' /\ LegInv' /\ OldFine' /\ RecordsInv'
  BY <1>1, <1>2 DEF TasksInv, LegInv, OldFine, RecordsInv
<1> QED BY <1>8, <1>9, <1>10 DEF Sound

LEMMA FinishSound ==
  ASSUME IInv, NestInv, Sound, Finish
  PROVE  Sound'
<1>1. /\ Between /\ agenda = <<>> /\ held = None /\ claim = None /\ queue = {}
      /\ walked \subseteq Roots
  BY Completing DEF Between, Finish, IInv, TypeOK
<1>2. /\ cur' = None /\ visited' = Completed
      /\ UNCHANGED <<source, terminal, queue, walked, agenda, claim, held, moved>>
  BY DEF Finish, disk
<1>3. Now' = Now /\ Old' = Old
  BY <1>2 DEF Now, Old
<1>4. \A p : EverOccupied(p) <=> EverOccupied(p)'
  BY <1>2 DEF EverOccupied
<1>5. \A p : p \in Lax <=> p \in Lax'
  BY <1>3, <1>4 DEF Lax, LaxIn
<1>6. \A p \in Seq(Name) : Bond'[p] = Bond[p] /\ (p \in Exempt => p \in Exempt')
  BY <1>1, <1>2, <1>3, <1>5, RestingBond, RestingNext
<1>7. BondFine' /\ \A r \in Seq(Name) : Strict(Bond, r) => Strict(Bond', r)
  BY <1>6, SameBond DEF Sound, BondFine
<1>8. VisitedStrict'
  <2>1. SUFFICES ASSUME NEW r \in Completed, Settling(r, Now)' PROVE Strict(Bond', r)
    BY <1>2 DEF VisitedStrict
  <2>2. Settling(r, Now)
    BY <1>2, <1>3, <1>4, <2>1 DEF Settling
  <2>3. r \in Seq(Name)
    BY <1>1, Completing, PlaceIs
  <2> QED BY <1>1, <1>7, <2>2, <2>3, CompletedStrict
<1>9. RecordsInv'
  <2>1. \A w \in walked : w # None
    BY <1>1, PlaceIs, ExpansionAssumption
  <2>2. \A w \in walked : w \in DOMAIN Now
    BY <1>1, <2>1, WalkedRecorded
  <2> QED BY <1>2, <1>3, <2>2 DEF RecordsInv
<1>10. Shapely' /\ TasksInv' /\ LegInv' /\ OldFine' /\ CurStrict'
  BY <1>1, <1>2, <1>3 DEF Sound, Shapely, TasksInv, LegInv, OldFine, CurStrict
<1> QED BY <1>7, <1>8, <1>9, <1>10 DEF Sound

LEMMA TakeUpSound ==
  ASSUME IInv, IInv', NestInv, Sound, TakeUp
  PROVE  Sound'
<1> DEFINE unit == [op |-> "unit", path |-> cur', content |-> source[cur'], depth |-> 0, chain |-> {}]
           rec == [status |-> "failed", hash |-> None]
<1>1. /\ Between /\ agenda = <<>> /\ held = None /\ claim = None /\ claim' = None
      /\ walked \subseteq Roots /\ queue \subseteq walked
  BY Completing DEF Between, TakeUp, IInv, TypeOK
<1>2. /\ cur' \in queue /\ queue' = queue \ {cur'} /\ visited' = Completed
      /\ moved' = {p \in moved : p # cur' /\ ~Under(cur', p)}
      /\ UNCHANGED <<source, terminal, walked>>
      /\ \/ /\ ~Present(cur') \/ Barred(cur')
            /\ Fails(cur', None)
            /\ agenda' = agenda
         \/ agenda' = <<unit>> /\ held' = held
  BY DEF TakeUp
<1>3. cur' \in Roots /\ cur' \in Seq(Name) /\ cur' # None
  BY <1>1, <1>2, PlaceIs, ExpansionAssumption
<1>4. unit.op = "unit" /\ unit.path = cur' /\ Head(<<unit>>) = unit /\ <<unit>> # <<>>
  OBVIOUS
<1>5. rec.status = "failed" /\ rec.hash = None /\ ~Stands(rec)
  BY DEF Stands
<1>6. \/ /\ agenda' = <<>> /\ held' # None /\ held'.path = cur' /\ held'.record = rec
         /\ ~Present(cur') \/ Barred(cur')
      \/ agenda' = <<unit>> /\ held' = None
  <2>1. CASE Fails(cur', None)
    <3>1. held' = [path |-> cur', record |-> rec]
      BY <2>1 DEF Fails, Refuse
    <3>2. [path |-> cur', record |-> rec] \in Held
      BY <1>3 DEF Held, Record, Status
    <3>3. held' # None /\ held'.path = cur' /\ held'.record = rec
      BY <3>1, <3>2, ExpansionAssumption
    <3> HIDE DEF unit, rec
    <3> QED BY <1>1, <1>2, <3>3
  <2> HIDE DEF unit, rec
  <2> QED BY <1>1, <1>2, <2>1
<1> HIDE DEF unit, rec
<1>7. /\ Now = terminal
      /\ held' = None => Now' = terminal
      /\ held' # None => DOMAIN Now' = DOMAIN terminal \cup {cur'} /\ Now'[cur'] = rec
      /\ \A p \in DOMAIN terminal : held' = None \/ p # cur' => p \in DOMAIN Now' /\ Now'[p] = terminal[p]
  <2>1. Now = terminal
    BY <1>1 DEF Now, Recorded
  <2>2. Now' = IF held' = None THEN terminal ELSE With(terminal, held'.path, held'.record)
    BY <1>2 DEF Now, Recorded
  <2>3. held' # None => held'.path = cur' /\ held'.record = rec
    BY <1>6
  <2>4. held' # None => /\ DOMAIN Now' = DOMAIN terminal \cup {cur'} /\ Now'[cur'] = rec
                        /\ \A p \in DOMAIN terminal : p # cur' => Now'[p] = terminal[p]
    BY <2>2, <2>3 DEF With
  <2> QED BY <2>1, <2>2, <2>4
<1>8. \A p : EverOccupied(p) <=> EverOccupied(p)'
  BY <1>2 DEF EverOccupied
<1>9. ASSUME NEW p \in Seq(Name), held' = None \/ p # cur'
      PROVE  Old'[p] = Old[p] /\ (p \in Lax <=> p \in Lax')
  <2>1. /\ p \in DOMAIN Now' <=> p \in DOMAIN Now
        /\ p \in DOMAIN Now => Now'[p] = Now[p]
    BY <1>7, <1>9
  <2>2. Old'[p] = IF p \in DOMAIN Now' /\ Stands(Now'[p]) THEN Now'[p].hash ELSE None
    BY HoldingIs DEF Old
  <2>3. Old[p] = IF p \in DOMAIN Now /\ Stands(Now[p]) THEN Now[p].hash ELSE None
    BY HoldingIs DEF Old
  <2>4. p \in Lax <=> p \in Lax'
    BY <1>8, <2>1 DEF Lax, LaxIn
  <2> QED BY <2>1, <2>2, <2>3, <2>4
<1>10. \A p \in Seq(Name) : Bond'[p] = Old'[p] /\ (p \in Exempt' <=> p \in Lax')
  BY <1>1, <1>4, <1>6, RestingNext
<1>11. ASSUME NEW p \in Seq(Name), held' = None \/ p # cur'
       PROVE  Bond'[p] = Bond[p] /\ (p \in Exempt => p \in Exempt')
  BY <1>1, <1>9, <1>10, <1>11, RestingBond
<1>12. /\ BondFine'
       /\ \A s \in Seq(Name) : s # cur' /\ Strict(Bond, s) => Strict(Bond', s)
  <2>1. CASE held' = None
    BY <1>11, <2>1, SameBond DEF Sound, BondFine
  <2>2. CASE held' # None
    <3>1. Bond'[cur'] = None
      <4>1. Old'[cur'] = None
        BY <1>3, <1>5, <1>7, <2>2, HoldingIs DEF Old
      <4> QED BY <1>3, <1>10, <4>1
    <3>2. Changing(cur', Bond, Bond', Exempt, Exempt')
      BY <1>11, <3>1 DEF Changing, Sound, BondFine
    <3> QED BY <1>3, <3>2, EntryChanged DEF BondFine
  <2> QED BY <2>1, <2>2
<1>13. CurStrict'
  <2>1. CASE held' = None
    BY <1>1, <1>4, <1>6, <2>1 DEF CurStrict
  <2>2. CASE held' # None
    <3>1. ~Settling(cur, Now)'
      BY <1>2, <1>6, <2>2 DEF Settling, Present, Barred
    <3> QED BY <1>6, <2>2, <3>1 DEF CurStrict
  <2> QED BY <2>1, <2>2
<1>14. VisitedStrict'
  <2>1. SUFFICES ASSUME NEW r \in Completed, Settling(r, Now)' PROVE Strict(Bond', r)
    BY <1>2 DEF VisitedStrict
  <2>2. r \in Roots /\ r \in Seq(Name) /\ Place(r) < Place(cur')
    BY <1>1, <1>2, <2>1, Completing, PlaceIs
  <2>3. r \notin Tree(cur')
    BY <1>3, <2>2, Apart
  <2>4. r # cur' /\ ~Under(cur', r)
    BY <1>3, <2>2, <2>3 DEF Tree
  <2>5. /\ r \in DOMAIN Now' <=> r \in DOMAIN Now
        /\ r \in DOMAIN Now => Now'[r] = Now[r]
    BY <1>7, <2>4
  <2>6. Settling(r, Now)
    BY <1>2, <1>8, <2>1, <2>4, <2>5 DEF Settling
  <2> QED BY <1>1, <1>12, <2>2, <2>4, <2>6, CompletedStrict
<1>15. RecordsInv'
  <2>1. \A w \in walked : w # None
    BY <1>1, PlaceIs, ExpansionAssumption
  <2>2. \A w \in walked : w \in queue \/ w \in DOMAIN Now
    BY <1>1, <2>1, WalkedRecorded
  <2>3. \A w \in DOMAIN Now : w \in DOMAIN Now'
    BY <1>7
  <2>4. \A w \in walked' : w \in DOMAIN Now' \/ w \in queue' \/ w = cur'
    BY <1>2, <2>2, <2>3
  <2> QED BY <1>4, <1>6, <1>7, <2>4 DEF RecordsInv
<1>16. Shapely'
  <2>1. SUFFICES ASSUME NEW q \in DOMAIN Now'
                 PROVE  /\ Now'[q].status \in Bearing => Now'[q].hash # None
                        /\ Now'[q].status = "removed" => Now'[q].hash = None
    BY DEF Shapely
  <2>2. (q = cur' /\ held' # None) \/ (q \in DOMAIN Now /\ Now'[q] = Now[q])
    BY <1>7, <2>1
  <2> QED BY <1>5, <1>7, <2>2 DEF Sound, Shapely, Bearing
<1>17. TasksInv' /\ LegInv' /\ OldFine'
  BY <1>1, <1>4, <1>6 DEF TasksInv, LegInv, OldFine
<1> QED BY <1>12, <1>13, <1>14, <1>15, <1>16, <1>17 DEF Sound

LEMMA SoundStep ==
  ASSUME Separate, IInv, IInv', NestInv, NestInv', Sound, [Next]_vars, killed' = "never"
  PROVE  Sound'
<1>1. CASE Start \/ TakeUp \/ Finish \/ AppendRecord
  BY <1>1, StartSound, TakeUpSound, FinishSound, AppendSound
<1>2. CASE Skip
  BY <1>2, NestedSkip, TopSkip
<1>3. CASE GuardFails \/ Borrow \/ Leaf
  BY <1>3, NestedRecording, TopGuard, TopBorrow, TopLeaf
<1>4. CASE Primary
  BY <1>4, NestedPrimary, TopPrimary
<1>5. CASE Open
  BY <1>5, NestedOpening, TopOpening
<1>6. CASE Leg \/ MemberRefused \/ MemberOverruns \/ Member
  BY <1>6, LegSound, RefusedSound, MemberSound
<1>7. CASE Close \/ Reconcile \/ Retire
  BY <1>7, CloseSound, ReconcileEnds, RetireEnds, EndSound
<1>8. CASE Kill \/ AppendFails
  BY <1>8 DEF Kill, AppendFails
<1>9. CASE Edit
  <2>1. PICK r \in Roots : \E c \in MayHold[r] \ {source[r]} :
          source' = [source EXCEPT ![r] = c] /\ moved' = moved \cup {r}
    BY <1>9 DEF Edit
  <2>2. \A w \in Roots : w \notin moved' => source'[w] = source[w]
    BY <2>1 DEF IInv, TypeOK
  <2>3. UNCHANGED <<terminal, queue, walked, cur, agenda, claim, held, visited>>
    BY <1>9 DEF Edit, run
  <2> QED BY <2>1, <2>2, <2>3, DisturbedSound
<1>10. CASE Damage
  <2>1. moved \subseteq moved'
    BY <1>10 DEF Damage
  <2>2. UNCHANGED <<source, terminal, queue, walked, cur, agenda, claim, held, visited>>
    BY <1>10 DEF Damage, run
  <2> QED BY <2>1, <2>2, DisturbedSound
<1>11. CASE UNCHANGED vars
  <2>1. UNCHANGED <<source, terminal, queue, walked, cur, agenda, claim, held, visited, moved>>
    BY <1>11 DEF vars, disk, run, book
  <2> QED BY <2>1, DisturbedSound
<1> QED BY <1>1, <1>2, <1>3, <1>4, <1>5, <1>6, <1>7, <1>8, <1>9, <1>10, <1>11 DEF Next, Run

LEMMA DropInvInit == Init => DropInv
<1> SUFFICES ASSUME Init PROVE Sound
  BY DEF DropInv
<1>1. /\ terminal = <<>> /\ walked = {} /\ cur = None /\ agenda = <<>> /\ claim = None
      /\ held = None /\ visited = {}
  BY DEF Init
<1>2. DOMAIN <<>> = {}
  OBVIOUS
<1>3. DOMAIN Now = {}
  BY <1>1, <1>2 DEF Now, Recorded
<1>4. \A p \in Seq(Name) : Bond[p] = None
  BY <1>1, <1>3, RestingBond, HoldingIs DEF Old
<1>5. Shapely /\ BondFine /\ VisitedStrict
  BY <1>1, <1>3, <1>4 DEF Shapely, BondFine, VisitedStrict
<1>6. TasksInv /\ LegInv /\ RecordsInv /\ OldFine /\ CurStrict
  BY <1>1 DEF TasksInv, LegInv, RecordsInv, OldFine, CurStrict
<1> QED BY <1>5, <1>6 DEF Sound

LEMMA DropInvStep ==
  ASSUME Separate
  PROVE  IInv /\ NestInv /\ DropInv /\ [Next]_vars => DropInv'
<1> SUFFICES ASSUME IInv, NestInv, DropInv, [Next]_vars, killed' = "never" PROVE Sound'
  BY DEF DropInv
<1>1. killed = "never"
  <2>1. Kill \/ AppendFails => FALSE
    BY DEF Kill, AppendFails
  <2>2. \/ UNCHANGED killed
        \/ Kill \/ AppendFails
    BY DEF Next, Run, Start, TakeUp, Finish, AppendRecord, Skip, GuardFails, Borrow, Leaf, Primary,
           Leg, Open, MemberRefused, MemberOverruns, Member, Close, Reconcile, Retire, Edit, Damage,
           book, vars
  <2> QED BY <2>1, <2>2
<1>2. Sound
  BY <1>1 DEF DropInv
<1>3. IInv' /\ NestInv'
  BY IInvStep, NestInvStep
<1> QED BY <1>2, <1>3, SoundStep

-----------------------------------------------------------------------------
(* Nothing live is left that nobody owns *)

\* Outside the tree of the entry at work the bond is what is on record.
LEMMA BondOutside ==
  ASSUME IInv, NestInv, NEW p \in Seq(Name), cur # None => p \notin Tree(cur)
  PROVE  /\ p \in DOMAIN Now <=> p \in DOMAIN terminal
         /\ p \in DOMAIN terminal => Now[p] = terminal[p]
         /\ Bond[p] = IF p \in DOMAIN terminal /\ Stands(terminal[p]) THEN terminal[p].hash ELSE None
<1>1. cur = None => agenda = <<>> /\ held = None /\ claim = None
  BY IdleIs
<1>2. held # None => held \in Held /\ held.path # p
  <2>1. held # None => cur # None /\ held \in Held /\ held.path \in Tree(cur)
    BY <1>1 DEF IInv, HeldInv, TypeOK
  <2> QED BY <2>1
<1>3. /\ p \in DOMAIN Now <=> p \in DOMAIN terminal
      /\ p \in DOMAIN terminal => Now[p] = terminal[p]
  <2>1. CASE held = None
    BY <2>1 DEF Now, Recorded
  <2>2. CASE held # None
    <3>1. held \in Held /\ held.path # p
      BY <1>2, <2>2
    <3>2. /\ DOMAIN Recorded(held, terminal) = DOMAIN terminal \cup {held.path}
          /\ \A o \in DOMAIN terminal : o # held.path => Recorded(held, terminal)[o] = terminal[o]
      BY <3>1, RecordedIs
    <3> QED BY <3>1, <3>2 DEF Now
  <2> QED BY <2>1, <2>2
<1>4. agenda \in Seq(Task(cur)) /\ Nested(agenda)
  BY TypedAgenda DEF NestInv
<1>5. ~Due(agenda, p)
  <2>1. CASE cur = None
    BY <1>1, <2>1, Plain
  <2>2. CASE cur # None
    BY <1>4, <2>2, OnceIs
  <2> QED BY <2>1, <2>2
<1>6. p \notin Lost(agenda, claim, held, cur)
  <2>1. CASE cur = None
    BY <1>1, <2>1 DEF Lost
  <2>2. CASE cur # None
    <3>1. p \notin Below(cur)
      BY <2>2 DEF Tree, Below
    <3>2. agenda # <<>> /\ Head(agenda).op = "retire" => Head(agenda).left \subseteq Below(cur)
      <4>1. agenda # <<>> => Head(agenda) \in Task(cur)
        BY <1>4
      <4> QED BY <4>1, TaskIs
    <3> QED BY <3>1, <3>2 DEF Lost
  <2> QED BY <2>1, <2>2
<1>7. Old[p] = IF p \in DOMAIN Now /\ Stands(Now[p]) THEN Now[p].hash ELSE None
  BY HoldingIs DEF Old
<1>8. Bond[p] = Old[p]
  BY <1>5, <1>6, BondNow
<1> QED BY <1>3, <1>7, <1>8

\* The nearest path above q, from r on, that is r or is bound.
LEMMA NearestIs ==
  ASSUME NEW r \in Seq(Name), NEW q \in Seq(Name), Own(r, q), NEW B
  PROVE  \E m \in Seq(Name) : Nearest(B, m, q) /\ (m = r \/ (Own(r, m) /\ B[m] # None))
<1> DEFINE Above(m) == Under(m, q) /\ (m = r \/ (Own(r, m) /\ B[m] # None))
           Far == {Len(q) - Len(m) : m \in {m \in Seq(Name) : Above(m)}}
<1>1. Above(r)
  BY DEF Own
<1>2. \A m \in Seq(Name) : Under(m, q) => Len(m) \in Nat /\ Len(q) \in Nat /\ Len(m) < Len(q)
  BY UnderIs
<1>3. \A m \in Seq(Name) : Under(m, q) => Len(q) - Len(m) \in Nat
  BY <1>2
<1>4. Far \in SUBSET Nat /\ Far # {}
  BY <1>1, <1>3
<1>5. PICK k \in Far : \A l \in Far : k <= l
  <2> HIDE DEF Far
  <2> QED BY <1>4, LeastNumber
<1>6. PICK m \in Seq(Name) : Above(m) /\ k = Len(q) - Len(m)
  BY <1>5
<1>7. ASSUME NEW n \in Seq(Name), Under(m, n), Under(n, q) PROVE n \notin Roots /\ B[n] = None
  <2>1. Under(r, n)
    BY <1>6, <1>7, UnderIsOrder, Zenon DEF Own
  <2>2. \A w \in Roots : Under(r, w) => n # w /\ ~Under(w, n)
    <3>1. SUFFICES ASSUME NEW w \in Roots, Under(r, w), n = w \/ Under(w, n) PROVE FALSE
      OBVIOUS
    <3>2. Under(w, q) /\ w \in Seq(Name)
      BY <1>7, <3>1, PlaceIs, UnderIsOrder, Zenon
    <3> QED BY <3>1, <3>2 DEF Own
  <2>3. Own(r, n) /\ n \notin Roots
    BY <2>1, <2>2 DEF Own
  <2>4. Len(m) < Len(n) /\ Len(n) < Len(q) /\ Len(m) \in Nat /\ Len(n) \in Nat /\ Len(q) \in Nat
    BY <1>7, UnderIs
  <2>5. ~(Len(q) - Len(m) <= Len(q) - Len(n))
    BY <2>4
  <2>6. Len(q) - Len(n) \notin Far
    BY <1>5, <1>6, <2>5
  <2>7. ~Above(n)
    BY <2>6
  <2> QED BY <1>7, <2>3, <2>7
<1> QED BY <1>6, <1>7 DEF Nearest

\* What a path holds live is owed to it.
LEMMA HeldIsOwed ==
  ASSUME NEW r \in Seq(Name), r # <<>>, NEW m \in Seq(Name), m = r \/ Under(r, m),
         NEW q \in Seq(Name), Under(m, q), OwedTo(q, m)
  PROVE  Owed(q)
<1>1. Len(m) \in Nat /\ Len(q) \in Nat /\ Len(m) < Len(q)
  BY UnderIs
<1>2. Len(m) > 0
  <2>1. Len(r) \in Nat /\ Len(r) > 0
    BY EmptySeq, LenProperties
  <2>2. Under(r, m) => Len(r) < Len(m)
    BY UnderIs
  <2> QED BY <1>1, <2>1, <2>2
<1>3. SubSeq(q, 1, Len(m)) = m
  <2>1. SubSeq(m, 1, Len(m)) = m
    BY LenProperties
  <2> QED BY <2>1 DEF Under, IsStrictPrefix, IsPrefix
<1>4. Len(m) \in 1..(Len(q) - 1)
  BY <1>1, <1>2
<1> QED BY <1>3, <1>4 DEF Owed

LEMMA NothingStrays ==
  ASSUME IInv, NestInv, Sound, NEW r \in Reconciling, NEW q \in Strays(r)
  PROVE  FALSE
<1>1. /\ r \in visited /\ source[r] # Absent /\ r \notin moved /\ r \in DOMAIN terminal
      /\ Kind[source[r]] # "barred" /\ (HasLeg(source[r]) => ~EverOccupied(r))
      /\ terminal[r].status = "borrowed" => HasLeg(source[r])
  BY DEF Reconciling, Settled
<1>2. r \in Roots /\ r \in Seq(Name) /\ r # <<>>
  <2>1. r \in Roots /\ r \in Seq(Name)
    BY <1>1, PlaceIs DEF IInv, TypeOK
  <2>2. PICK i \in DOMAIN Walk : Walk[i] = r
    BY <2>1 DEF Roots
  <2>3. Walk[i] # <<>>
    <3>1. Walk \in Seq(Seq(Name) \ {<<>>})
      BY ExpansionAssumption
    <3>2. Walk[i] \in Seq(Name) \ {<<>>}
      BY <3>1, ElementOfSeq, LenProperties
    <3> QED BY <3>2
  <2> QED BY <2>1, <2>2, <2>3
<1>3. q \in DOMAIN terminal /\ q \in Seq(Name) /\ Own(r, q) /\ Live(q) /\ ~Owed(q)
  BY DEF Strays, Subtree, Own, IInv, TypeOK
<1>4. ASSUME cur # None
      PROVE  r \notin Tree(cur) /\ \A p \in Seq(Name) : Own(r, p) => p \notin Tree(cur)
  <2>1. cur \in Roots /\ Place(r) < Place(cur)
    BY <1>1, <1>4 DEF IInv, TypeOK, OrderInv
  <2> QED BY <1>2, <2>1, Apart
<1>5. ASSUME NEW p \in Seq(Name), p = r \/ Own(r, p)
      PROVE  /\ p \in DOMAIN Now <=> p \in DOMAIN terminal
             /\ p \in DOMAIN terminal => Now[p] = terminal[p]
             /\ Bond[p] = IF p \in DOMAIN terminal /\ Stands(terminal[p]) THEN terminal[p].hash
                          ELSE None
  BY <1>4, <1>5, BondOutside
<1>6. Strict(Bond, r)
  <2>1. Settling(r, Now)
    BY <1>1, <1>2, <1>5 DEF Settling
  <2> QED BY <1>1, <2>1 DEF Sound, VisitedStrict
<1>7. Bond[q] = terminal[q].hash /\ Bond[q] # None /\ q \notin Roots
  <2>1. terminal[q].status \in Bearing /\ terminal[q].hash # None
    BY <1>3, <1>5 DEF Live, Sound, Shapely
  <2>2. Stands(terminal[q])
    BY <2>1 DEF Stands
  <2>3. q \notin Roots
    BY <1>3 DEF Own
  <2> QED BY <1>3, <1>5, <2>1, <2>2, <2>3
<1>8. PICK m \in Seq(Name) : Nearest(Bond, m, q) /\ (m = r \/ (Own(r, m) /\ Bond[m] # None))
  BY <1>2, <1>3, NearestIs
<1>9. Bond[m] # None /\ HoldsAt(Bond[m], m, q, Bond[q])
  <2>1. CASE m = r
    BY <1>3, <1>6, <1>7, <1>8, <2>1 DEF Strict
  <2>2. CASE Own(r, m) /\ Bond[m] # None
    <3>1. m \notin Roots
      BY <2>2 DEF Own
    <3>2. m \notin Exempt
      BY <3>1 DEF Exempt, Lax, LaxIn
    <3>3. Fine(Bond, Exempt, q)
      BY <1>3, <1>7 DEF Sound, BondFine
    <3> QED BY <1>7, <1>8, <2>2, <3>2, <3>3 DEF Fine
  <2> QED BY <1>8, <2>1, <2>2
<1>10. m \in DOMAIN terminal /\ Stands(terminal[m]) /\ Bond[m] = terminal[m].hash
  <2>1. m = r \/ Own(r, m)
    BY <1>8
  <2> QED BY <1>5, <1>9, <2>1
<1>11. OwedTo(q, m)
  <2>1. HoldsAt(terminal[m].hash, m, q, terminal[q].hash)
    BY <1>7, <1>9, <1>10
  <2> QED BY <1>10, <2>1 DEF OwedTo, Stands, HoldsAt, Live
<1> QED BY <1>2, <1>3, <1>8, <1>11, HeldIsOwed DEF Nearest, Own

\* As long as no run is cut short, no dropped member, and no child of a source
\* that no longer has one, stays live below an entry whose outcome goes
\* through a reconciliation, for any archives whose members lie apart.
THEOREM DroppedAreRetiredHolds ==
  ASSUME Separate
  PROVE  Spec => []DroppedAreRetired
<1>1. Init => NestInv /\ DropInv
  <2>1. Init => agenda = <<>> /\ held = None
    BY DEF Init
  <2>2. Init => NestInv
    BY <2>1, NestedAlone DEF NestInv, HeldIsOld
  <2> QED BY <2>2, DropInvInit
<1>2. IInv /\ NestInv /\ DropInv => DroppedAreRetired
  <2> SUFFICES ASSUME IInv, NestInv, DropInv, killed = "never", NEW r \in Reconciling,
                      NEW q \in Strays(r)
               PROVE  FALSE
    BY DEF DroppedAreRetired
  <2>1. Sound
    BY DEF DropInv
  <2> QED BY <2>1, NothingStrays
<1>3. IInv /\ NestInv /\ DropInv /\ [Next]_vars => DropInv'
  BY DropInvStep
<1> QED BY <1>1, <1>2, <1>3, InvariantHolds, NestInvStep, PTL DEF Spec
=============================================================================
