------------------------------ MODULE ChildProofs -----------------------------
(***************************************************************************)
(* No child is silently missing: the proof of Expansion's                  *)
(* ChildrenAreRecorded for archives whose members lie apart (Separate),    *)
(* while no run is cut short.                                              *)
(*                                                                         *)
(* A leg's child can be lost to three things: the retirement that follows  *)
(* an expansion, a skip that does not keep it, and a claim on its path.    *)
(* The first two are followed through the bond of RetirementProofs.  For   *)
(* the third, nothing that was claimed may lie below what is still to be   *)
(* dispatched.                                                             *)
(*                                                                         *)
(* A member can be lost to these, to an alias that comes before it, to a   *)
(* container that overruns its budget and to a file of the division.  What *)
(* a container owes is either on record, where no task and no retirement   *)
(* will reach it, or the content of a task to come, and it is the first    *)
(* that will claim its key.                                                *)
(***************************************************************************)
EXTENDS RetirementProofs

-----------------------------------------------------------------------------
(* The invariant *)

\* By the bond B and the records N, the source at p has a leg with something
\* to write.
Owes(B, N, p) ==
  /\ p \in DOMAIN N /\ N[p].status \in Bearing
  /\ B[p] \in Content /\ HasLeg(B[p]) /\ LegOutcome[B[p]] = "text"
  /\ p[Len(p)] # LegName[Kind[B[p]]]

\* Its child has a record.
Minted(B, N, p) ==
  LET q == LegPath(p, B[p])
  IN q \in DOMAIN N /\ B[q] = B[p] /\ N[q].status \in {"text", "failed"}

\* The leg of p is the next task.
Queued(p) == agenda # <<>> /\ Head(agenda).op = "leg" /\ Head(agenda).path = p

LegsFine ==
  \A p \in Seq(Name) :
    Owes(Bond, Now, p) /\ ~EverOccupied(p) /\ ~Queued(p) => Minted(Bond, Now, p)

\* What this expansion has not touched is as an earlier one left it.
OldLegs ==
  claim # None \/ (agenda # <<>> /\ Head(agenda).op = "leg") =>
    \A p \in Below(cur) :
      Untouched(p) /\ Owes(Old, Now, p) /\ ~EverOccupied(p) => Minted(Old, Now, p)

\* A task that will claim its key, or a unit that has.
Fresh(cl, t) ==
  t.op = "unit" \/ (t.op = "member" /\ Readable(t.member) /\ KeyOf(Spot(t)) \notin cl.claimed)
Coming(a, cl) == {KeyOf(Spot(a[i])) : i \in {i \in 1..Len(a) : Fresh(cl, a[i])}}

\* Nothing that is claimed, or that will be, lies below a key of F.
Ahead(F, K) == \A x \in F : \A y \in F \cup K : ~Under(x, y)

KeysInv ==
  claim # None =>
    /\ Ahead(Coming(agenda, claim), claim.claimed)
    /\ Head(agenda).op = "unit" => KeyOf(Head(agenda).path) \in claim.claimed

Minting == LegsFine /\ OldLegs /\ KeysInv

\* The entry at work was walked.
Walking == cur # None => cur \in walked

LegsInv == Walking /\ (killed = "never" => Minting)

-----------------------------------------------------------------------------
(* The child of a leg *)

LEMMA ChildIs ==
  ASSUME NEW p \in Seq(Name), NEW c \in Content, HasLeg(c)
  PROVE  LET q == LegPath(p, c)
         IN /\ q \in Seq(Name) /\ Under(p, q) /\ q[Len(q)] = LegName[Kind[c]]
            /\ \A x \in Seq(Name) : /\ p \in Tree(x) => q \in Tree(x) /\ q \in Below(x)
                                    /\ q \in Tree(x) => q = x \/ p \in Tree(x)
                                    /\ q \in Below(x) => p \in Tree(x)
<1> DEFINE a == LegName[Kind[c]]
           q == LegPath(p, c)
<1>1. a \in Name
  BY ExpansionAssumption DEF HasLeg
<1>2. q = Append(p, a)
  BY DEF LegPath
<1> HIDE DEF a, q
<1>3. /\ q \in Seq(Name) /\ Under(p, q) /\ q[Len(q)] = a
      /\ \A n \in Seq(Name) : ~(Under(p, n) /\ Under(n, q))
  BY <1>1, <1>2, NextName
<1>4. ASSUME NEW x \in Seq(Name)
      PROVE  /\ p \in Tree(x) => q \in Tree(x) /\ q \in Below(x)
             /\ q \in Tree(x) => q = x \/ p \in Tree(x)
             /\ q \in Below(x) => p \in Tree(x)
  <2>1. /\ p \in Tree(x) => q \in Tree(x) /\ q \in Below(x)
        /\ q \in Below(x) => p = x \/ Under(p, x) \/ p \in Below(x)
        /\ x \in Tree(x) /\ Below(x) \subseteq Tree(x)
    BY <1>3, TreeIs
  <2>2. q \in Below(x) => ~Under(p, x)
    BY <1>3 DEF Below
  <2>3. q \in Tree(x) => q = x \/ q \in Below(x)
    BY DEF Tree, Below
  <2> QED BY <2>1, <2>2, <2>3
<1> QED BY <1>3, <1>4 DEF a, q

\* A source with a leg that the bond knows is on record, and is not open.
LEMMA LegKnown ==
  ASSUME IInv, NestInv, NEW p \in Seq(Name), Bond[p] \in Content, HasLeg(Bond[p])
  PROVE  /\ ~Due(agenda, p) /\ Old[p] = Bond[p] /\ p \notin Lost(agenda, claim, held, cur)
         /\ p \in DOMAIN Now /\ Now[p].hash = Bond[p]
<1>1. ~Due(agenda, p)
  <2>1. \A c : ~Closing(agenda, p, c)
    BY BondNow DEF HasLeg
  <2> QED BY <2>1, DueIs, Zenon
<1>2. Old[p] = Bond[p] /\ p \notin Lost(agenda, claim, held, cur)
  BY <1>1, BondNow, ExpansionAssumption
<1> QED BY <1>1, <1>2, HoldingIs, ExpansionAssumption DEF Old

LEMMA LegKnownNext ==
  ASSUME IInv', NestInv', NEW p \in Seq(Name), Bond'[p] \in Content, HasLeg(Bond'[p])
  PROVE  /\ ~Due(agenda', p) /\ Old'[p] = Bond'[p] /\ p \notin Lost(agenda', claim', held', cur')
         /\ p \in DOMAIN Now' /\ Now'[p].hash = Bond'[p]
<1>1. ~Due(agenda', p)
  <2>1. \A c : ~Closing(agenda', p, c)
    BY BondNext DEF HasLeg
  <2> QED BY <2>1, DueIs, Zenon
<1>2. Old'[p] = Bond'[p] /\ p \notin Lost(agenda', claim', held', cur')
  BY <1>1, BondNext, ExpansionAssumption
<1> QED BY <1>1, <1>2, HoldingIs, ExpansionAssumption DEF Old

\* What is owed and minted where the bonds and the records agree.
LEMMA SameLegs ==
  ASSUME NEW B, NEW D, NEW M, NEW N, NEW p \in Seq(Name), D[p] = B[p],
         p \in DOMAIN N <=> p \in DOMAIN M, p \in DOMAIN M => N[p] = M[p]
  PROVE  /\ Owes(D, N, p) => Owes(B, M, p)
         /\ LET q == LegPath(p, B[p])
            IN /\ D[q] = B[q]
               /\ q \in DOMAIN M => q \in DOMAIN N /\ N[q] = M[q]
               => (Minted(B, M, p) => Minted(D, N, p))
<1>1. Owes(D, N, p) => Owes(B, M, p)
  BY DEF Owes
<1>2. LET q == LegPath(p, B[p])
      IN /\ D[q] = B[q]
         /\ q \in DOMAIN M => q \in DOMAIN N /\ N[q] = M[q]
         => (Minted(B, M, p) => Minted(D, N, p))
  BY DEF Minted
<1> QED BY <1>1, <1>2

-----------------------------------------------------------------------------
(* How a step keeps every leg minted *)

\* A step that changes the bond and the records within X only.
LEMMA LegsStep ==
  ASSUME LegsFine, NEW X,
         \A p \in Seq(Name) : p \notin X =>
           /\ Bond'[p] = Bond[p]
           /\ p \in DOMAIN Now' <=> p \in DOMAIN Now
           /\ p \in DOMAIN Now => Now'[p] = Now[p],
         \A p : EverOccupied(p) => EverOccupied(p)',
         \A p \in Seq(Name) : p \notin X /\ Owes(Bond, Now, p) /\ Minted(Bond, Now, p)
                              /\ LegPath(p, Bond[p]) \in X => EverOccupied(p),
         \A p \in Seq(Name) : p \in X /\ Owes(Bond', Now', p) /\ ~EverOccupied(p)' /\ ~Queued(p)'
                              => Minted(Bond', Now', p),
         \A p \in Seq(Name) : p \notin X /\ Queued(p) /\ ~Queued(p)' /\ Owes(Bond', Now', p)
                              => Minted(Bond', Now', p)
  PROVE  LegsFine'
<1>1. SUFFICES ASSUME NEW p \in Seq(Name), Owes(Bond', Now', p), ~EverOccupied(p)', ~Queued(p)'
               PROVE  Minted(Bond', Now', p)
  BY DEF LegsFine
<1>2. CASE p \in X \/ Queued(p)
  BY <1>1, <1>2
<1>3. CASE p \notin X /\ ~Queued(p)
  <2> DEFINE q == LegPath(p, Bond[p])
  <2>1. Owes(Bond, Now, p)
    BY <1>1, <1>3, SameLegs
  <2>2. Minted(Bond, Now, p) /\ ~EverOccupied(p)
    BY <1>1, <1>3, <2>1 DEF LegsFine
  <2>3. q \in Seq(Name) /\ q \notin X
    <3>1. q \notin X
      BY <1>3, <2>1, <2>2
    <3> QED BY <2>1, <3>1, ChildIs DEF Owes
  <2>4. Bond'[q] = Bond[q] /\ (q \in DOMAIN Now => q \in DOMAIN Now' /\ Now'[q] = Now[q])
    BY <2>3
  <2>5. /\ Bond'[p] = Bond[p]
        /\ p \in DOMAIN Now' <=> p \in DOMAIN Now
        /\ p \in DOMAIN Now => Now'[p] = Now[p]
    BY <1>3
  <2> QED BY <2>2, <2>4, <2>5, SameLegs
<1> QED BY <1>2, <1>3

\* What the bond knew of X had no leg.
LEMMA LegsApart ==
  ASSUME LegsFine, NEW X,
         \A p \in Seq(Name) : p \notin X =>
           /\ Bond'[p] = Bond[p]
           /\ p \in DOMAIN Now' <=> p \in DOMAIN Now
           /\ p \in DOMAIN Now => Now'[p] = Now[p],
         \A p : EverOccupied(p) => EverOccupied(p)',
         \A p \in Seq(Name) : p \in X /\ Bond[p] \in Content => ~HasLeg(Bond[p]),
         \A p \in Seq(Name) : p \in X /\ Owes(Bond', Now', p) /\ ~EverOccupied(p)' /\ ~Queued(p)'
                              => Minted(Bond', Now', p),
         \A p \in Seq(Name) : p \notin X /\ Queued(p) /\ ~Queued(p)' /\ Owes(Bond', Now', p)
                              => Minted(Bond', Now', p)
  PROVE  LegsFine'
<1>1. ASSUME NEW p \in Seq(Name), Owes(Bond, Now, p), Minted(Bond, Now, p), LegPath(p, Bond[p]) \in X
      PROVE  FALSE
  BY <1>1, ChildIs DEF Owes, Minted
<1> QED BY <1>1, LegsStep

\* Who is owed a leg by the record just put in place.
LEMMA HeldOwes ==
  ASSUME IInv, IInv', NestInv', AtTask, Works, held' # None, Owes(Bond', Now', held'.path)
  PROVE  /\ held'.path \in Seq(Name) /\ held'.record.status \in Bearing
         /\ held'.record.hash = Bond'[held'.path] /\ held'.record.hash \in Content
         /\ HasLeg(held'.record.hash)
<1>1. held'.path \in Seq(Name) /\ Now'[held'.path] = held'.record
  BY NowAfter DEF Tree
<1>2. Bond'[held'.path] \in Content /\ HasLeg(Bond'[held'.path]) /\ Now'[held'.path].status \in Bearing
  BY DEF Owes
<1>3. Now'[held'.path].hash = Bond'[held'.path]
  BY <1>1, <1>2, LegKnownNext
<1> QED BY <1>1, <1>2, <1>3

\* A step under the claim.
LEMMA NestedLegs ==
  ASSUME IInv, NestInv, IInv', NestInv', AtTask, Works, claim # None, claim' # None, LegsFine,
         Head(agenda).op # "leg", NEW X, held' # None => held'.path \in X,
         \A p \in Seq(Name) : p \notin X => /\ \A c : Closing(agenda', p, c) <=> Closing(agenda, p, c)
                                            /\ p \in Emit' <=> p \in Emit,
         \A p \in Seq(Name) : p \in X /\ Bond[p] \in Content => ~HasLeg(Bond[p]),
         \A p \in Seq(Name) : p \in X /\ Owes(Bond', Now', p) /\ ~EverOccupied(p) /\ ~Queued(p)'
                              => Minted(Bond', Now', p)
  PROVE  LegsFine'
<1>1. /\ Now = terminal /\ \A p : EverOccupied(p)' = EverOccupied(p)
      /\ \A p \in Seq(Name) : held' = None \/ p # held'.path =>
           /\ p \in DOMAIN Now' <=> p \in DOMAIN terminal
           /\ p \in DOMAIN terminal => Now'[p] = terminal[p]
  BY NowAfter
<1>2. ASSUME NEW p \in Seq(Name), p \notin X
      PROVE  /\ Bond'[p] = Bond[p]
             /\ p \in DOMAIN Now' <=> p \in DOMAIN Now
             /\ p \in DOMAIN Now => Now'[p] = Now[p]
  <2>1. held' = None \/ p # held'.path
    BY <1>2
  <2>2. Bond'[p] = Bond[p]
    BY <1>2, <2>1, NestedBond
  <2> QED BY <1>1, <2>1, <2>2
<1>3. \A p : ~Queued(p)
  BY DEF Queued
<1> QED BY <1>1, <1>2, <1>3, LegsApart

\* A step under the claim that writes or opens x.
LEMMA WrittenLegs ==
  ASSUME IInv, NestInv, IInv', NestInv', AtTask, Works, claim # None, claim' # None, LegsFine,
         Head(agenda).op # "leg", NEW x \in Seq(Name), held' # None => held'.path = x,
         \A p \in Seq(Name) : p # x => \A c : Closing(agenda', p, c) <=> Closing(agenda, p, c),
         \A p : p \in claim'.emitted <=> p \in claim.emitted,
         Bond[x] \in Content => ~HasLeg(Bond[x]),
         Owes(Bond', Now', x) => Queued(x)' \/ EverOccupied(x)
  PROVE  LegsFine'
<1> DEFINE X == {x}
<1>1. \A p \in Seq(Name) : p \notin X => (p \in Emit' <=> p \in Emit)
  BY EmitAfter
<1>2. held' # None => held'.path \in X
  OBVIOUS
<1>3. /\ \A p \in Seq(Name) : p \in X /\ Bond[p] \in Content => ~HasLeg(Bond[p])
      /\ \A p \in Seq(Name) : p \in X /\ Owes(Bond', Now', p) /\ ~EverOccupied(p) /\ ~Queued(p)'
                              => Minted(Bond', Now', p)
  OBVIOUS
<1>4. \A p \in Seq(Name) : p \notin X => /\ \A c : Closing(agenda', p, c) <=> Closing(agenda, p, c)
                                         /\ p \in Emit' <=> p \in Emit
  BY <1>1
<1> HIDE DEF X
<1> QED BY <1>2, <1>3, <1>4, NestedLegs

LEMMA OldLegsStay ==
  ASSUME IInv, IInv', AtTask, Works, OldLegs, claim # None \/ Head(agenda).op = "leg",
         claim' # None, claim # None => \A q \in claim.emitted : q \in claim'.emitted
  PROVE  OldLegs'
<1>1. cur' = cur /\ cur \in Seq(Name)
  BY TaskAt DEF Works
<1>2. /\ \A p \in Emit : p \in Emit'
      /\ \A p \in Below(cur) : held' # None /\ p = held'.path => p \in Emit'
  BY EmitAfter
<1>3. SUFFICES ASSUME NEW p \in Below(cur), \A e \in Emit' : e \notin Tree(p),
                      Owes(Old', Now', p), ~EverOccupied(p)'
               PROVE  Minted(Old', Now', p)
  BY <1>1 DEF OldLegs, Untouched
<1>4. p \in Seq(Name) /\ Under(cur, p) /\ p \in Tree(p)
  BY <1>3 DEF Below, Tree
<1>5. \A e \in Tree(p) : e \in Seq(Name) /\ e \in Below(cur)
  BY <1>1, <1>4, UnderIsOrder, Zenon DEF Tree, Below
<1>6. \A e \in Tree(p) : held' = None \/ e # held'.path
  BY <1>2, <1>3, <1>5
<1>7. \A e \in Tree(p) : /\ Old'[e] = Old[e]
                         /\ e \in DOMAIN Now' <=> e \in DOMAIN Now
                         /\ e \in DOMAIN Now => Now'[e] = Now[e]
  BY <1>5, <1>6, NowAfter
<1>8. Owes(Old, Now, p)
  BY <1>3, <1>4, <1>7, SameLegs
<1>9. Minted(Old, Now, p)
  <2>1. Untouched(p) /\ ~EverOccupied(p)
    BY <1>2, <1>3, NowAfter DEF Untouched
  <2> QED BY <1>3, <1>8, <2>1 DEF OldLegs, AtTask
<1>10. LegPath(p, Old[p]) \in Tree(p)
  BY <1>4, <1>8, ChildIs DEF Owes
<1> QED BY <1>4, <1>7, <1>9, <1>10, SameLegs

\* An expansion starts over a tree in which every leg is minted.
LEMMA OldLegsStart ==
  ASSUME IInv, NestInv, IInv', AtTask, Works, LegsFine, claim = None, Head(agenda).op = "unit",
         held' # None => held'.path = cur
  PROVE  OldLegs'
<1>1. cur' = cur /\ cur \in Seq(Name)
  BY TaskAt DEF Works
<1>2. SUFFICES ASSUME NEW p \in Below(cur), Owes(Old', Now', p), ~EverOccupied(p)'
               PROVE  Minted(Old', Now', p)
  BY <1>1 DEF OldLegs
<1>3. p \in Seq(Name) /\ Under(cur, p) /\ p \in Tree(p)
  BY <1>2 DEF Below, Tree
<1>4. \A e \in Tree(p) : e \in Seq(Name) /\ e # cur
  BY <1>1, <1>3, UnderIsOrder, Zenon DEF Tree
<1>5. \A e \in Tree(p) : /\ Old'[e] = Bond[e]
                         /\ e \in DOMAIN Now' <=> e \in DOMAIN Now
                         /\ e \in DOMAIN Now => Now'[e] = Now[e]
  BY <1>4, TopBond, NowAfter
<1>6. Owes(Bond, Now, p)
  BY <1>2, <1>3, <1>5, SameLegs
<1>7. Minted(Bond, Now, p)
  <2>1. ~EverOccupied(p) /\ ~Queued(p)
    BY <1>2, NowAfter DEF Queued
  <2> QED BY <1>3, <1>6, <2>1 DEF LegsFine
<1>8. LegPath(p, Bond[p]) \in Tree(p)
  BY <1>3, <1>6, ChildIs DEF Owes
<1> QED BY <1>3, <1>5, <1>7, <1>8, SameLegs

-----------------------------------------------------------------------------
(* Keys *)

LEMMA KeyIs ==
  ASSUME NEW p \in Seq(Name)
  PROVE  /\ KeyOf(p) \in Seq(Name) /\ Len(KeyOf(p)) = Len(p) /\ Len(p) \in Nat
         /\ \A i \in 1..Len(p) : KeyOf(p)[i] = Key[p[i]]
<1>1. KeyOf(p) \in Seq(Name)
  BY KeysArePaths
<1>2. DOMAIN p = 1..Len(p) /\ Len(p) \in Nat
  BY LenProperties
<1>3. DOMAIN KeyOf(p) = 1..Len(p) /\ \A i \in 1..Len(p) : KeyOf(p)[i] = Key[p[i]]
  BY <1>2 DEF KeyOf
<1>4. Len(KeyOf(p)) = Len(p)
  BY <1>1, <1>2, <1>3, LenProperties
<1> QED BY <1>1, <1>2, <1>3, <1>4

\* The key of what lies below a path lies below its key.
LEMMA KeyBelow ==
  ASSUME NEW p \in Seq(Name), NEW q \in Seq(Name)
  PROVE  /\ KeyOf(p) \in Seq(Name) /\ KeyOf(q) \in Seq(Name)
         /\ Under(p, q) => Under(KeyOf(p), KeyOf(q))
<1>1. ASSUME Under(p, q) PROVE Under(KeyOf(p), KeyOf(q))
  <2>1. Len(p) < Len(q) /\ \A i \in 1..Len(p) : q[i] = p[i]
    BY <1>1, UnderIs
  <2>2. \A i \in 1..Len(p) : i \in 1..Len(q)
    BY <2>1, KeyIs
  <2>3. \A i \in 1..Len(p) : KeyOf(q)[i] = KeyOf(p)[i]
    BY <2>1, <2>2, KeyIs
  <2> QED BY <2>1, <2>3, KeyIs, UnderIs
<1> QED BY <1>1, KeyIs

\* Where the keys of two paths of one owner lie one below the other, so do
\* those of their names.
LEMMA KeySiblings ==
  ASSUME NEW p \in Seq(Name), NEW a \in Seq(Name), NEW b \in Seq(Name),
         Under(KeyOf(p \o a), KeyOf(p \o b))
  PROVE  IsStrictPrefix(KeyOf(a), KeyOf(b))
<1> DEFINE s == p \o a
           t == p \o b
<1>1. /\ s \in Seq(Name) /\ t \in Seq(Name)
      /\ Len(s) = Len(p) + Len(a) /\ Len(t) = Len(p) + Len(b)
      /\ \A i \in 1..Len(a) : Len(p) + i \in 1..Len(s) /\ s[Len(p) + i] = a[i]
      /\ \A i \in 1..Len(b) : Len(p) + i \in 1..Len(t) /\ t[Len(p) + i] = b[i]
  <2>1. \A c \in Seq(Name) :
          /\ Len(p) \in Nat /\ Len(c) \in Nat /\ Len(p \o c) = Len(p) + Len(c)
          /\ \A i \in 1..Len(c) : Len(p) + i \in 1..Len(p \o c) /\ (p \o c)[Len(p) + i] = c[i]
    BY ConcatIs
  <2>2. s \in Seq(Name) /\ t \in Seq(Name)
    OBVIOUS
  <2>3. /\ Len(s) = Len(p) + Len(a)
        /\ \A i \in 1..Len(a) : Len(p) + i \in 1..Len(s) /\ s[Len(p) + i] = a[i]
    BY <2>1
  <2>4. /\ Len(t) = Len(p) + Len(b)
        /\ \A i \in 1..Len(b) : Len(p) + i \in 1..Len(t) /\ t[Len(p) + i] = b[i]
    BY <2>1
  <2> QED BY <2>2, <2>3, <2>4
<1>2. Under(KeyOf(s), KeyOf(t))
  OBVIOUS
<1> HIDE DEF s, t
<1>3. /\ Len(p) \in Nat /\ Len(a) \in Nat /\ Len(b) \in Nat
      /\ Len(KeyOf(s)) = Len(s) /\ Len(KeyOf(t)) = Len(t)
      /\ Len(KeyOf(a)) = Len(a) /\ Len(KeyOf(b)) = Len(b)
  BY <1>1, KeyIs
<1>4. Len(s) < Len(t) /\ \A i \in 1..Len(s) : KeyOf(t)[i] = KeyOf(s)[i]
  <2>1. KeyOf(s) \in Seq(Name) /\ KeyOf(t) \in Seq(Name)
    BY <1>1, KeysArePaths
  <2> QED BY <1>2, <1>3, <2>1, UnderIs
<1>5. Len(a) < Len(b)
  BY <1>1, <1>3, <1>4
<1>6. /\ \A k \in 1..Len(s) : KeyOf(s)[k] = Key[s[k]]
      /\ \A k \in 1..Len(t) : KeyOf(t)[k] = Key[t[k]]
  BY <1>1, KeyIs
<1>7. ASSUME NEW i \in 1..Len(a) PROVE KeyOf(b)[i] = KeyOf(a)[i]
  <2>1. i \in 1..Len(b)
    BY <1>3, <1>5
  <2> DEFINE k == Len(p) + i
  <2>2. k \in 1..Len(s) /\ s[k] = a[i] /\ k \in 1..Len(t) /\ t[k] = b[i]
    BY <1>1, <2>1
  <2> HIDE DEF k
  <2>3. KeyOf(s)[k] = Key[a[i]] /\ KeyOf(t)[k] = Key[b[i]] /\ KeyOf(t)[k] = KeyOf(s)[k]
    BY <1>4, <1>6, <2>2
  <2> QED BY <2>1, <2>3, KeyIs
<1>8. Under(KeyOf(a), KeyOf(b))
  BY <1>3, <1>5, <1>7, KeysArePaths, UnderIs
<1> QED BY <1>8 DEF Under

LEMMA HeadComing ==
  ASSUME IInv, AtTask, Fresh(claim, Head(agenda))
  PROVE  KeyOf(Spot(Head(agenda))) \in Coming(agenda, claim)
<1>1. Len(agenda) \in Nat \ {0} /\ Head(agenda) = agenda[1]
  BY RestAlike
<1>2. 1 \in 1..Len(agenda)
  BY <1>1
<1> QED BY <1>1, <1>2 DEF Coming

\* The primary record of a source with a leg, under the claim.
LEMMA PrimaryIs ==
  ASSUME IInv, Primary, claim # None
  PROVE  LET u == Head(agenda)
             key == KeyOf(LegPath(u.path, u.content))
             leg == [op |-> "leg", path |-> u.path, content |-> u.content]
         IN /\ claim' # None /\ claim' \in Claim /\ claim'.emitted = claim.emitted
            /\ \A k : k \in claim.claimed => k \in claim'.claimed
            /\ \A k : k \in claim'.claimed => k \in claim.claimed \/ k = key
            /\ leg \in Task(cur)
            /\ agenda' = Rest \/ agenda' = <<leg>> \o Rest
            /\ agenda' = <<leg>> \o Rest \/ ~Loaded(u) \/ Occupied(u.path) \/ key \in claim.claimed
            /\ \A p, c : Closing(agenda', p, c) <=> Closing(Rest, p, c)
            /\ agenda' = <<leg>> \o Rest => agenda' # <<>> /\ Head(agenda') = leg
<1> DEFINE u == Head(agenda)
           key == KeyOf(LegPath(u.path, u.content))
           claims == Loaded(u) /\ claim # None /\ ~Occupied(u.path)
           collides == Occupied(u.path) \/ (claim # None /\ key \in claim.claimed)
           leg == [op |-> "leg", path |-> u.path, content |-> u.content]
<1>1. /\ AtTask /\ u.content \in Content /\ u.path \in Tree(cur) /\ HasLeg(u.content)
  BY RecordingIs
<1>2. /\ claim' = IF claims THEN [claim EXCEPT !.claimed = @ \cup {key}] ELSE claim
      /\ agenda' = IF Loaded(u) /\ ~collides THEN <<leg>> \o Rest ELSE Rest
  BY DEF Primary
<1>3. claim \in Claim /\ Rest \in Seq(Task(cur))
  BY <1>1, TaskAt, RestAlike
<1>4. leg \in Task(cur) /\ key \in Seq(Name)
  <2>1. LegPath(u.path, u.content) \in Seq(Name)
    BY <1>1, ChildIs DEF Tree
  <2>2. leg \in Task(cur)
    BY <1>1 DEF Task
  <2> QED BY <2>1, <2>2, KeysArePaths
<1>5. collides => Occupied(u.path) \/ key \in claim.claimed
  OBVIOUS
<1> HIDE DEF key, collides, leg, u, claims
<1>6. /\ claim' # None /\ claim' \in Claim /\ claim'.emitted = claim.emitted
      /\ \A k : k \in claim.claimed => k \in claim'.claimed
      /\ \A k : k \in claim'.claimed => k \in claim.claimed \/ k = key
  <2>1. CASE claims
    <3>1. claim' = [claim EXCEPT !.claimed = @ \cup {key}]
      BY <1>2, <2>1
    <3>2. claim' \in Claim /\ claim'.emitted = claim.emitted /\ claim'.claimed = claim.claimed \cup {key}
      BY <1>3, <1>4, <3>1 DEF Claim
    <3> QED BY <3>2, ExpansionAssumption
  <2>2. CASE ~claims
    BY <1>2, <1>3, <2>2
  <2> QED BY <2>1, <2>2
<1>7. /\ \A p, c : Closing(agenda', p, c) <=> Closing(Rest, p, c)
      /\ agenda' = <<leg>> \o Rest => agenda' # <<>> /\ Head(agenda') = leg
  <2>1. leg.op = "leg"
    BY DEF leg
  <2>2. /\ <<leg>> \o Rest # <<>> /\ Head(<<leg>> \o Rest) = leg
        /\ \A p, c : Closing(<<leg>> \o Rest, p, c) <=> Closing(Rest, p, c)
    BY <1>3, <1>4, <2>1, ClosingPushed
  <2> QED BY <1>2, <2>2
<1> QED BY <1>2, <1>4, <1>5, <1>6, <1>7 DEF u, key, leg

\* A unit under the claim has not been claimed for a leg above it.
LEMMA LegUnclaimed ==
  ASSUME IInv, AtTask, KeysInv, claim # None, Head(agenda).op = "unit",
         NEW q \in Seq(Name), Under(Head(agenda).path, q)
  PROVE  KeyOf(q) \notin claim.claimed
<1>1. KeyOf(Spot(Head(agenda))) \in Coming(agenda, claim)
  BY HeadComing DEF Fresh
<1>2. Spot(Head(agenda)) = Head(agenda).path /\ Head(agenda).path \in Seq(Name)
  <2>1. Head(agenda) \in Task(cur)
    BY TaskAt
  <2> QED BY <2>1, TaskIs DEF Spot, Tree
<1>3. Under(KeyOf(Head(agenda).path), KeyOf(q))
  BY <1>2, KeyBelow
<1> QED BY <1>1, <1>2, <1>3 DEF KeysInv, Ahead

\* From the keys F to come and K claimed to G and L: once the task with the key
\* h is done, what it claims and what it pushes lies below h.
Passes(F, K, h, S, G, L) ==
  /\ F \in SUBSET Seq(Name) /\ K \in SUBSET Seq(Name) /\ Ahead(F, K) /\ h \in F
  /\ S \in SUBSET Seq(Name) /\ (\A s \in S : Under(h, s)) /\ (\A s, z \in S : ~Under(s, z))
  /\ \A x \in G : (x \in F /\ x # h) \/ x \in S
  /\ \A k \in L : k \in K \/ (S = {} /\ k \in Seq(Name) /\ (k = h \/ Under(h, k)))

LEMMA KeysStep ==
  ASSUME NEW F, NEW K, NEW h, NEW S, NEW G, NEW L, Passes(F, K, h, S, G, L)
  PROVE  Ahead(G, L)
<1> USE DEF Passes
<1>1. SUFFICES ASSUME NEW x \in G, NEW y \in G \cup L, Under(x, y) PROVE FALSE
  BY DEF Ahead
<1>2. h \in Seq(Name) /\ x \in Seq(Name) /\ y \in Seq(Name)
  OBVIOUS
<1>3. /\ Under(h, x) /\ Under(x, y) => Under(h, y)
      /\ Under(h, y) /\ Under(x, y) => x = h \/ Under(x, h) \/ Under(h, x)
  BY <1>2, UnderIsOrder
<1>4. \A v \in F, w \in F \cup K : ~Under(v, w)
  BY DEF Ahead
<1>5. CASE x \in S
  <2>1. Under(h, y) /\ y \notin S
    BY <1>1, <1>3, <1>5
  <2>2. y \in F \cup K
    BY <1>5, <2>1
  <2> QED BY <1>4, <2>1, <2>2
<1>6. CASE x \in F /\ x # h
  <2>1. y \notin F \cup K
    BY <1>1, <1>4, <1>6
  <2>2. y = h \/ Under(h, y)
    BY <2>1
  <2> QED BY <1>1, <1>3, <1>4, <1>6, <2>2
<1> QED BY <1>5, <1>6

LEMMA ComingIs ==
  ASSUME NEW r \in Seq(Name), NEW a \in Seq(Task(r)), NEW cl
  PROVE  Coming(a, cl) \in SUBSET Seq(Name)
<1>1. ASSUME NEW i \in 1..Len(a), Fresh(cl, a[i]) PROVE KeyOf(Spot(a[i])) \in Seq(Name)
  <2>1. a[i] \in Task(r)
    BY ElementOfSeq
  <2>2. Spot(a[i]) \in Seq(Name)
    BY <1>1, <2>1, SpotIs DEF Fresh
  <2> QED BY <2>2, KeysArePaths
<1> QED BY <1>1 DEF Coming

\* What is left of an agenda has no more to come, and claims less.
LEMMA ComingLeft ==
  ASSUME NEW a, NEW b, NEW m, EndAlike(a, m, b, 0), NEW cl, NEW ce,
         \A k : k \in cl.claimed => k \in ce.claimed
  PROVE  /\ \A x \in Coming(b, ce) : x \in Coming(a, cl)
         /\ Bare(b) => \A x \in Coming(b, ce) : x \notin ce.claimed
<1>1. /\ Len(a) \in Nat /\ Len(b) \in Nat /\ m \in 0..Len(a) /\ Len(a) - m = Len(b)
      /\ \A k \in 1..Len(b) : m + k \in 1..Len(a) /\ Same(a[m + k], b[k])
  <2>1. /\ Len(a) \in Nat /\ Len(b) \in Nat /\ m \in 0..Len(a) /\ Len(a) - m = Len(b) - 0
        /\ \A k \in 1..Len(a) - m : Same(a[m + k], b[0 + k])
    BY DEF EndAlike
  <2>2. ASSUME NEW k \in 1..Len(b) PROVE m + k \in 1..Len(a) /\ Same(a[m + k], b[k])
    <3>1. k \in 1..Len(a) - m /\ 0 + k = k /\ m + k \in 1..Len(a)
      BY <2>1
    <3> QED BY <2>1, <3>1
  <2> QED BY <2>1, <2>2
<1>2. ASSUME NEW k \in 1..Len(b), Fresh(ce, b[k])
      PROVE  KeyOf(Spot(b[k])) \in Coming(a, cl) /\ (Bare(b) => KeyOf(Spot(b[k])) \notin ce.claimed)
  <2>1. b[k].op # "close"
    BY <1>2 DEF Fresh
  <2>2. a[m + k] = b[k] /\ m + k \in 1..Len(a)
    BY <1>1, <2>1, AlikeIs
  <2>3. Fresh(cl, b[k])
    BY <1>2 DEF Fresh
  <2>4. Bare(b) => KeyOf(Spot(b[k])) \notin ce.claimed
    BY <1>2 DEF Fresh, Bare
  <2> QED BY <2>2, <2>3, <2>4 DEF Coming
<1> QED BY <1>2 DEF Coming

LEMMA ComingConcat ==
  ASSUME NEW T, NEW s \in Seq(T), NEW b \in Seq(T), NEW cl
  PROVE  \A x \in Coming(s \o b, cl) : x \in Coming(s, cl) \/ x \in Coming(b, cl)
<1> DEFINE a == s \o b
<1>1. /\ \A i \in 1..Len(s) : a[i] = s[i]
      /\ \A i \in 1..Len(b) : a[Len(s) + i] = b[i]
      /\ \A k \in 1..Len(a) : k \in 1..Len(s) \/ \E i \in 1..Len(b) : k = Len(s) + i
  BY ConcatIs
<1> HIDE DEF a
<1>2. ASSUME NEW k \in 1..Len(a), Fresh(cl, a[k])
      PROVE  KeyOf(Spot(a[k])) \in Coming(s, cl) \/ KeyOf(Spot(a[k])) \in Coming(b, cl)
  <2>1. CASE k \in 1..Len(s)
    BY <1>1, <1>2, <2>1 DEF Coming
  <2>2. CASE \E i \in 1..Len(b) : k = Len(s) + i
    BY <1>1, <1>2, <2>2 DEF Coming
  <2> QED BY <1>1, <2>1, <2>2
<1>3. \A x \in Coming(a, cl) : x \in Coming(s, cl) \/ x \in Coming(b, cl)
  BY <1>2 DEF Coming
<1> QED BY <1>3 DEF a

\* The members of a container lie below it, and apart.
LEMMA MembersComing ==
  ASSUME Separate, NEW r \in Seq(Name), NEW u \in Task(r), u.op = "unit", NEW cl
  PROVE  /\ Coming(Tasks(u), cl) \in SUBSET Seq(Name)
         /\ \A x \in Coming(Tasks(u), cl) : Under(KeyOf(u.path), x)
         /\ \A x, y \in Coming(Tasks(u), cl) : ~Under(x, y)
<1> DEFINE s == Tasks(u)
           ms == Members[u.content]
           n == Len(ms)
<1>1. /\ s \in Seq(Task(r)) /\ Len(s) = n + 1 /\ n \in Nat
      /\ \A i \in 1..n : s[i].op = "member" /\ s[i].path = u.path /\ s[i].member = ms[i]
      /\ s[n + 1].op = "close"
  BY TasksAre
<1>2. u.path \in Seq(Name) /\ u.content \in Content
  BY TaskIs DEF Tree
<1>3. DOMAIN ms = 1..n /\ \A i \in 1..n : ms[i].name \in Seq(Name) \ {<<>>}
  <2>1. ms \in Seq([name : Seq(Name) \ {<<>>}, content : Content \cup {Refused}])
    BY <1>2, ExpansionAssumption
  <2> HIDE DEF ms
  <2>2. DOMAIN ms = 1..n /\ \A i \in 1..n : ms[i] \in [name : Seq(Name) \ {<<>>}, content : Content \cup {Refused}]
    BY <2>1, LenProperties, ElementOfSeq
  <2> QED BY <2>2
<1>4. \A i, j \in 1..n : i # j => ~IsStrictPrefix(KeyOf(ms[i].name), KeyOf(ms[j].name))
  BY <1>2, <1>3 DEF Separate
<1>5. Coming(s, cl) \in SUBSET Seq(Name)
  BY <1>1, ComingIs
<1> HIDE DEF s, ms, n
<1>6. ASSUME NEW i \in 1..Len(s), Fresh(cl, s[i])
      PROVE  i \in 1..n /\ Spot(s[i]) = u.path \o ms[i].name
  <2>1. i \in 1..n
    BY <1>1, <1>6 DEF Fresh
  <2> QED BY <1>1, <2>1 DEF Spot
<1>7. ASSUME NEW i \in 1..n PROVE Under(KeyOf(u.path), KeyOf(u.path \o ms[i].name))
  <2>1. u.path \o ms[i].name \in Below(u.path)
    <3>1. u.path \in Tree(u.path)
      BY <1>2 DEF Tree
    <3> QED BY <1>2, <1>3, <3>1, Deeper
  <2> QED BY <1>2, <2>1, KeyBelow DEF Below
<1>8. ASSUME NEW i \in 1..n, NEW j \in 1..n
      PROVE  ~Under(KeyOf(u.path \o ms[i].name), KeyOf(u.path \o ms[j].name))
  <2>1. CASE i # j
    <3>1. ms[i].name \in Seq(Name) /\ ms[j].name \in Seq(Name)
      BY <1>3
    <3> QED BY <1>2, <1>4, <2>1, <3>1, KeySiblings
  <2>2. CASE i = j
    <3>1. u.path \o ms[i].name \in Seq(Name)
      BY <1>2, <1>3
    <3> QED BY <2>2, <3>1, KeysArePaths, UnderIsOrder
  <2> QED BY <2>1, <2>2
<1>9. \A x \in Coming(s, cl) : Under(KeyOf(u.path), x)
  BY <1>6, <1>7 DEF Coming
<1>10. \A x, y \in Coming(s, cl) : ~Under(x, y)
  BY <1>6, <1>8 DEF Coming
<1> QED BY <1>5, <1>9, <1>10 DEF s

\* The task at the head is done, and may have claimed what lies below it.
LEMMA KeysDone ==
  ASSUME IInv, AtTask, KeysInv, claim # None, claim' # None,
         NEW b \in Seq(Task(cur)), NEW m, EndAlike(agenda, m, b, 0), Bare(b),
         \A k : k \in claim.claimed => k \in claim'.claimed,
         \A k : k \in claim'.claimed =>
           \/ k \in claim.claimed
           \/ /\ Head(agenda).op = "unit"
              /\ k \in Seq(Name) /\ Under(KeyOf(Head(agenda).path), k),
         \A x : x \in Coming(agenda', claim') => x \in Coming(b, claim'),
         Head(agenda').op # "unit"
  PROVE  KeysInv'
<1> DEFINE F == Coming(agenda, claim)
           G == Coming(agenda', claim')
           h == KeyOf(Head(agenda).path)
<1>1. /\ claim \in Claim /\ cur \in Seq(Name) /\ agenda \in Seq(Task(cur))
  BY TaskAt DEF Formed
<1>2. F \in SUBSET Seq(Name) /\ claim.claimed \in SUBSET Seq(Name)
  BY <1>1, ComingIs DEF Claim
<1>3. \A x \in G : x \in F /\ x \notin claim'.claimed
  BY ComingLeft
<1>4. /\ Ahead(F, claim.claimed)
      /\ Head(agenda).op = "unit" => h \in claim.claimed /\ h \in F
  <2>1. Head(agenda).op = "unit" => h \in F
    BY HeadComing DEF Fresh, Spot
  <2> QED BY <2>1 DEF KeysInv
<1>5. Ahead(G, claim'.claimed)
  <2> HIDE DEF F, G, h
  <2>1. CASE Head(agenda).op = "unit"
    <3> DEFINE S == {}
    <3>1. /\ S \in SUBSET Seq(Name) /\ (\A s \in S : Under(h, s)) /\ (\A s, z \in S : ~Under(s, z))
          /\ h \in F
      BY <1>4, <2>1
    <3>2. \A x \in G : (x \in F /\ x # h) \/ x \in S
      BY <1>3, <1>4, <2>1
    <3>3. \A k \in claim'.claimed :
            k \in claim.claimed \/ (S = {} /\ k \in Seq(Name) /\ (k = h \/ Under(h, k)))
      BY DEF h
    <3> DEFINE K == claim.claimed
               L == claim'.claimed
    <3>4. /\ F \in SUBSET Seq(Name) /\ K \in SUBSET Seq(Name) /\ Ahead(F, K) /\ h \in F
          /\ \A k \in L : k \in K \/ (S = {} /\ k \in Seq(Name) /\ (k = h \/ Under(h, k)))
      BY <1>2, <1>4, <3>1, <3>3
    <3> HIDE DEF S, K, L
    <3>5. Ahead(G, L)
      <4>1. Passes(F, K, h, S, G, L)
        BY <3>1, <3>2, <3>4 DEF Passes
      <4> QED BY <4>1, KeysStep
    <3> QED BY <3>5 DEF L
  <2>2. CASE Head(agenda).op # "unit"
    BY <1>3, <1>4, <2>2 DEF Ahead
  <2> QED BY <2>1, <2>2
<1> QED BY <1>5 DEF KeysInv

LEMMA KeysPass ==
  ASSUME IInv, NestInv, AtTask, Sound, KeysInv, claim # None, claim' # None,
         Head(agenda).op # "reconcile",
         agenda' = Rest \/ (agenda' = Capped /\ Head(agenda).op = "member"),
         \A k : k \in claim.claimed => k \in claim'.claimed,
         \A k : k \in claim'.claimed =>
           \/ k \in claim.claimed
           \/ /\ Head(agenda).op = "unit"
              /\ k \in Seq(Name) /\ Under(KeyOf(Head(agenda).path), k)
  PROVE  KeysInv'
<1>1. /\ agenda' \in Seq(Task(cur)) /\ agenda' # <<>>
      /\ \E m \in 1..Len(agenda) : EndAlike(agenda, m, agenda', 0)
  <2>1. CASE agenda' = Rest
    <3>1. EndAlike(agenda, 1, Rest, 0) /\ Rest \in Seq(Task(cur)) /\ Len(agenda) \in Nat \ {0}
      BY RestAlike
    <3>2. 1 \in 1..Len(agenda) /\ Rest # <<>>
      BY <3>1, TaskAt
    <3> QED BY <2>1, <3>1, <3>2
  <2>2. CASE agenda' = Capped /\ Head(agenda).op = "member"
    BY <2>2, MemberEnd
  <2> QED BY <2>1, <2>2
<1>2. PICK m \in 1..Len(agenda) : EndAlike(agenda, m, agenda', 0)
  BY <1>1
<1>3. Bare(agenda')
  BY <1>2, TasksLeft DEF Sound
<1>4. Head(agenda').op # "unit"
  BY <1>1, <1>3, BareIs
<1> QED BY <1>1, <1>2, <1>3, <1>4, KeysDone

\* A member is dispatched under the key it claims.
LEMMA KeysDispatched ==
  ASSUME IInv, AtTask, KeysInv, claim # None, claim' # None,
         Head(agenda).op = "member", Fresh(claim, Head(agenda)),
         NEW unit \in Task(cur), unit.op = "unit", unit.path = Spot(Head(agenda)),
         agenda' = <<unit>> \o Rest, Head(agenda') = unit,
         \A k : k \in claim'.claimed <=> k \in claim.claimed \/ k = KeyOf(Spot(Head(agenda)))
  PROVE  KeysInv'
<1> DEFINE F == Coming(agenda, claim)
           h == KeyOf(Spot(Head(agenda)))
<1>1. EndAlike(agenda, 1, Rest, 0) /\ Rest \in Seq(Task(cur))
  BY RestAlike
<1>2. h \in F /\ Ahead(F, claim.claimed)
  BY HeadComing DEF KeysInv
<1>3. \A x \in Coming(Rest, claim') : x \in F
  BY <1>1, ComingLeft
<1>4. \A x \in Coming(<<unit>>, claim') : x = h
  <2>1. Spot(unit) = Spot(Head(agenda))
    BY DEF Spot
  <2> QED BY <2>1 DEF Coming
<1>5. \A x \in Coming(agenda', claim') : x \in F
  <2>1. <<unit>> \in Seq(Task(cur))
    OBVIOUS
  <2>2. \A x \in Coming(<<unit>> \o Rest, claim') :
          x \in Coming(<<unit>>, claim') \/ x \in Coming(Rest, claim')
    BY <1>1, <2>1, ComingConcat
  <2> QED BY <1>2, <1>3, <1>4, <2>2
<1> HIDE DEF F
<1>6. Ahead(Coming(agenda', claim'), claim'.claimed)
  BY <1>2, <1>5 DEF Ahead
<1> QED BY <1>6 DEF KeysInv

\* A container is opened in place of its unit.
LEMMA KeysOpened ==
  ASSUME Separate, IInv, AtTask, Sound, KeysInv, claim # None, Head(agenda).op = "unit",
         claim' = claim, agenda' = Tasks(Head(agenda)) \o Rest
  PROVE  KeysInv'
<1> DEFINE u == Head(agenda)
           F == Coming(agenda, claim)
           S == Coming(Tasks(u), claim)
           h == KeyOf(u.path)
           G == Coming(agenda', claim')
<1>1. /\ u \in Task(cur) /\ cur \in Seq(Name) /\ claim \in Claim /\ agenda \in Seq(Task(cur))
      /\ EndAlike(agenda, 1, Rest, 0) /\ Rest \in Seq(Task(cur)) /\ Rest # <<>>
      /\ Tasks(u) \in Seq(Task(cur))
  <2>1. u \in Task(cur) /\ cur \in Seq(Name) /\ claim \in Claim /\ agenda \in Seq(Task(cur)) /\ Rest # <<>>
    BY TaskAt DEF Formed
  <2> QED BY <2>1, RestAlike, TasksAre
<1>2. F \in SUBSET Seq(Name) /\ claim.claimed \in SUBSET Seq(Name)
  BY <1>1, ComingIs DEF Claim
<1>3. /\ S \in SUBSET Seq(Name) /\ (\A s \in S : Under(h, s)) /\ (\A s, z \in S : ~Under(s, z))
  BY <1>1, MembersComing
<1>4. h \in F /\ Ahead(F, claim.claimed) /\ h \in claim.claimed
  <2>1. h \in F
    BY HeadComing DEF Fresh, Spot
  <2> QED BY <2>1 DEF KeysInv
<1>5. \A x \in Coming(Rest, claim) : x \in F /\ x \notin claim.claimed
  <2>1. Bare(Rest)
    BY DEF Sound, TasksInv, Rest
  <2> QED BY <1>1, <2>1, ComingLeft
<1>6. \A x \in G : (x \in F /\ x # h) \/ x \in S
  <2>1. \A x \in Coming(Tasks(u) \o Rest, claim) : x \in S \/ x \in Coming(Rest, claim)
    BY <1>1, ComingConcat
  <2> QED BY <1>4, <1>5, <2>1
<1>7. Head(agenda').op # "unit"
  BY <1>1, FirstOfTasks
<1>8. Ahead(G, claim'.claimed)
  <2> DEFINE K == claim.claimed
             L == claim'.claimed
  <2>1. /\ F \in SUBSET Seq(Name) /\ K \in SUBSET Seq(Name) /\ Ahead(F, K) /\ h \in F
        /\ \A k \in L : k \in K \/ (S = {} /\ k \in Seq(Name) /\ (k = h \/ Under(h, k)))
    BY <1>2, <1>4
  <2> HIDE DEF F, G, S, h, K, L
  <2>2. Ahead(G, L)
    <3>1. Passes(F, K, h, S, G, L)
      BY <1>3, <1>6, <2>1 DEF Passes
    <3> QED BY <3>1, KeysStep
  <2> QED BY <2>2 DEF L
<1> QED BY <1>7, <1>8 DEF KeysInv

\* The agenda of a fresh claim has at most the members of one container.
LEMMA KeysStart ==
  ASSUME claim' = NewClaim(cur), Head(agenda').op # "unit",
         \A x, y \in Coming(agenda', claim') : ~Under(x, y)
  PROVE  KeysInv'
<1>1. claim'.claimed = {}
  BY DEF NewClaim
<1>2. Ahead(Coming(agenda', claim'), claim'.claimed)
  BY <1>1 DEF Ahead
<1> QED BY <1>2 DEF KeysInv

-----------------------------------------------------------------------------
(* A unit under the claim *)

\* A unit that is still to be done lies in a tree with nothing in it.
LEMMA UnitTree ==
  ASSUME IInv, NestInv, Sound, AtTask, claim # None, Head(agenda).op = "unit"
  PROVE  LET x == Head(agenda).path
         IN /\ x \in Seq(Name) /\ x \in Below(cur) /\ x \in Tree(x)
            /\ \A e \in Tree(x) : /\ e \in Seq(Name) /\ e \in Below(cur) /\ e \notin Emit
                                  /\ Bond[e] = None /\ ~Due(agenda, e)
<1> DEFINE x == Head(agenda).path
<1>1. PICK o \in Tree(cur) : Promised(o, x, Head(agenda).content)
  BY UnitPromised
<1>2. cur \in Seq(Name) /\ x \in Below(cur)
  BY <1>1, TaskAt DEF Promised
<1> HIDE DEF x
<1>3. x \in Seq(Name) /\ x \in Tree(x)
  BY <1>2 DEF Below, Tree
<1>4. ASSUME NEW e \in Tree(x)
      PROVE  /\ e \in Seq(Name) /\ e \in Below(cur) /\ e \notin Emit
             /\ Bond[e] = None /\ ~Due(agenda, e)
  <2>1. e \in Seq(Name) /\ (e = x \/ Under(x, e))
    BY DEF Tree
  <2>2. e \in Below(cur)
    BY <1>2, <2>1, UnderIsOrder, Zenon DEF Below
  <2>3. e \notin Emit /\ e \notin Shut(agenda) /\ Bond[e] = None
    BY <1>1 DEF Promised
  <2> QED BY <2>1, <2>2, <2>3 DEF Shut
<1> QED BY <1>2, <1>3, <1>4 DEF x

\* A skip keeps every child that an earlier expansion left.
LEMMA SkipLegs ==
  ASSUME IInv, IInv', NestInv, NestInv', Sound, Minting, Skip, claim # None
  PROVE  Minting'
<1> DEFINE u == Head(agenda)
           kept == {q \in DOMAIN terminal : Under(u.path, q)}
           X == Tree(u.path)
<1>1. /\ AtTask /\ u.op = "unit" /\ Works /\ agenda' = Rest
      /\ held' # None /\ held'.path = u.path /\ held'.record = terminal[u.path]
      /\ u.path \in DOMAIN terminal /\ u.content \in Content
  BY SkipIs
<1>2. /\ claim' # None
      /\ \A p : p \in claim.emitted => p \in claim'.emitted
      /\ \A k : k \in claim.claimed => k \in claim'.claimed
      /\ \A k : k \in claim'.claimed => k \in claim.claimed \/ \E q \in kept : k = KeyOf(q)
      /\ \A p : p \in claim'.emitted => p \in claim.emitted \/ p \in kept
      /\ \/ claim'.emitted = claim.emitted /\ ~HasChildren(u.content)
         \/ \A p : p \in kept => p \in claim'.emitted
  BY SkipClaims
<1>3. /\ u.path \in Seq(Name) /\ u.path \in Below(cur) /\ u.path \in X
      /\ \A e \in X : /\ e \in Seq(Name) /\ e \in Below(cur) /\ e \notin Emit
                      /\ Bond[e] = None /\ ~Due(agenda, e)
  BY <1>1, UnitTree
<1>4. /\ cur' = cur /\ cur \in Seq(Name)
      /\ \A q \in kept : q \in Seq(Name) /\ q \in X /\ Under(u.path, q)
  BY <1>1, TaskAt DEF Works, Tree
<1>5. \A p, c : Closing(agenda', p, c) <=> Closing(agenda, p, c)
  BY <1>1, ClosingRest
<1>6. /\ \A p : p \in Emit <=> p \in claim.emitted
      /\ \A p : p \in Emit' <=> p \in claim'.emitted \/ p = u.path
  BY <1>1, <1>2, <1>3, EmitAfter
<1>7. \A e \in X : /\ Old'[e] = Old[e]
                   /\ e \in DOMAIN Now' <=> e \in DOMAIN Now
                   /\ e \in DOMAIN Now => Now'[e] = Now[e]
  <2>1. /\ Now = terminal /\ u.path \in DOMAIN Now' /\ Now'[u.path] = terminal[u.path]
        /\ \A p \in Seq(Name) : p # u.path =>
             /\ Old'[p] = Old[p]
             /\ p \in DOMAIN Now' <=> p \in DOMAIN terminal
             /\ p \in DOMAIN terminal => Now'[p] = terminal[p]
    BY <1>1, NowAfter
  <2>2. Old'[u.path] = Old[u.path]
    BY <1>1, <1>3, <2>1, HoldingIs DEF Old
  <2> QED BY <1>1, <1>3, <2>1, <2>2
<1>8. \A p : EverOccupied(p)' = EverOccupied(p)
  BY <1>1, NowAfter
<1> HIDE DEF u, kept, X
<1>9. ASSUME NEW p \in X, Owes(Bond', Now', p), ~EverOccupied(p)
      PROVE  Minted(Bond', Now', p)
  <2> DEFINE q == LegPath(p, Old[p])
  <2>1. p \in Seq(Name) /\ Bond'[p] \in Content /\ HasLeg(Bond'[p])
    BY <1>3, <1>9 DEF Owes
  <2>2. Bond'[p] = Old[p] /\ p \in Emit'
    <3>1. Old'[p] = Bond'[p] /\ p \notin Lost(agenda', claim', held', cur')
      BY <2>1, LegKnownNext
    <3>2. Lost(agenda', claim', held', cur') = Below(cur) \ Emit'
      BY <1>2, <1>4, <2>1, BondNext
    <3> QED BY <1>3, <1>7, <3>1, <3>2
  <2>3. \A z : z \in kept => z \in claim'.emitted
    <3>1. ASSUME claim'.emitted = claim.emitted, ~HasChildren(u.content) PROVE FALSE
      <4>1. p = u.path
        BY <1>3, <1>6, <2>2, <3>1
      <4>2. Old[p] = u.content
        <5>1. u.path \in DOMAIN Now' /\ Now'[u.path].hash = u.content
          BY <1>1, <4>1, NowAfter, SkipIs DEF u
        <5> QED BY <2>1, <2>2, <4>1, <5>1, LegKnownNext
      <4> QED BY <2>1, <2>2, <3>1, <4>2 DEF HasChildren
    <3> QED BY <1>2, <3>1
  <2>4. Owes(Old, Now, p)
    BY <1>7, <1>9, <2>2 DEF Owes
  <2>5. \A e \in Emit : e \notin Tree(p)
    <3>1. \A e \in Tree(p) : e \in X
      BY <1>3, <2>1, UnderIsOrder, Zenon DEF X, Tree
    <3> QED BY <1>3, <3>1
  <2>6. Minted(Old, Now, p)
    BY <1>1, <1>3, <1>9, <2>4, <2>5 DEF Minting, OldLegs, Untouched
  <2>7. q \in Seq(Name) /\ q \in X /\ Under(u.path, q)
    <3>1. q \in Seq(Name) /\ q \in Tree(u.path) /\ q \in Below(u.path)
      BY <1>3, <2>1, <2>2, ChildIs DEF X
    <3> QED BY <3>1 DEF X, Below
  <2> HIDE DEF q
  <2>8. /\ q \in DOMAIN Now /\ Old[q] = Old[p] /\ Now[q].status \in {"text", "failed"}
    BY <2>6 DEF Minted, q
  <2>9. q \in kept
    BY <1>1, <2>7, <2>8, NowAfter DEF kept
  <2>10. Bond'[q] = Old[q]
    <3>1. ~Due(agenda', q)
      BY <1>3, <1>5, <2>7, DueIs
    <3>2. q \in Emit'
      BY <1>6, <2>3, <2>9
    <3>3. Lost(agenda', claim', held', cur') = Below(cur) \ Emit'
      BY <1>2, <1>4, <2>7, BondNext
    <3> QED BY <1>7, <2>7, <3>1, <3>2, <3>3, BondNext
  <2> QED BY <1>7, <2>2, <2>7, <2>8, <2>10 DEF Minted, q
<1>10. LegsFine'
  <2>1. /\ held' # None => held'.path \in X
        /\ \A p \in Seq(Name) : p \notin X => /\ \A c : Closing(agenda', p, c) <=> Closing(agenda, p, c)
                                              /\ p \in Emit' <=> p \in Emit
    BY <1>1, <1>2, <1>3, <1>4, <1>5, <1>6
  <2>2. \A p \in Seq(Name) : p \in X /\ Bond[p] \in Content => ~HasLeg(Bond[p])
    BY <1>3, ExpansionAssumption
  <2> QED BY <1>1, <1>2, <1>9, <2>1, <2>2, NestedLegs DEF Minting, u
<1>11. OldLegs'
  BY <1>1, <1>2, OldLegsStay DEF Minting
<1>12. KeysInv'
  <2>1. \A q \in kept : KeyOf(q) \in Seq(Name) /\ Under(KeyOf(u.path), KeyOf(q))
    BY <1>3, <1>4, KeyBelow
  <2>2. \A k : k \in claim'.claimed => k \in claim.claimed \/ (k \in Seq(Name) /\ Under(KeyOf(u.path), k))
    BY <1>2, <2>1
  <2> QED BY <1>1, <1>2, <2>2, KeysPass DEF Minting, u
<1> QED BY <1>10, <1>11, <1>12 DEF Minting

\* A unit under the claim whose record is put in place.
LEMMA UnitLegs ==
  ASSUME IInv, IInv', NestInv, NestInv', Sound, Minting, AtTask, Works, claim # None, claim' # None,
         Head(agenda).op = "unit", NEW x \in Seq(Name), x = Head(agenda).path,
         held' # None, held'.path = x, claim'.emitted = claim.emitted,
         \A p, c : Closing(agenda', p, c) <=> Closing(agenda, p, c),
         held'.record.status \in Bearing /\ HasLeg(held'.record.hash)
           => Queued(x)' \/ EverOccupied(x),
         KeysInv'
  PROVE  Minting'
<1>1. Bond[x] = None
  BY UnitTree
<1>2. LegsFine'
  <2>1. /\ held' # None => held'.path = x
        /\ \A p \in Seq(Name) : p # x => \A c : Closing(agenda', p, c) <=> Closing(agenda, p, c)
        /\ \A p : p \in claim'.emitted <=> p \in claim.emitted
        /\ Bond[x] \in Content => ~HasLeg(Bond[x])
    BY <1>1, ExpansionAssumption
  <2>2. ASSUME Owes(Bond', Now', x) PROVE Queued(x)' \/ EverOccupied(x)
    BY <2>1, <2>2, HeldOwes
  <2> QED BY <1>1, <2>1, <2>2, WrittenLegs DEF Minting
<1>3. OldLegs'
  BY OldLegsStay DEF Minting
<1> QED BY <1>2, <1>3 DEF Minting

LEMMA RecordingLegs ==
  ASSUME IInv, IInv', NestInv, NestInv', Sound, Minting, GuardFails \/ Borrow \/ Leaf, claim # None
  PROVE  Minting'
<1>1. claim' = claim /\ agenda' = Rest
  BY DEF GuardFails, Borrow, Leaf
<1>2. /\ AtTask /\ Works /\ Head(agenda).op = "unit" /\ Head(agenda).content \in Content
      /\ held' # None /\ held'.path = Head(agenda).path /\ held'.record.hash = Head(agenda).content
      /\ ~(held'.record.status \in Bearing /\ HasLeg(held'.record.hash))
  BY RecordingIs DEF Bearing, HasLeg
<1>3. \A p, c : Closing(agenda', p, c) <=> Closing(agenda, p, c)
  BY <1>1, <1>2, ClosingRest
<1>4. KeysInv'
  BY <1>1, <1>2, KeysPass DEF Minting
<1>5. Head(agenda).path \in Seq(Name)
  BY <1>2, UnitTree
<1> QED BY <1>1, <1>2, <1>3, <1>4, <1>5, UnitLegs

\* A source with a leg under the claim: its leg is next, or its child path is
\* taken by an entry; nothing else can have claimed it.
LEMMA PrimaryLegs ==
  ASSUME IInv, IInv', NestInv, NestInv', Sound, Minting, Primary, claim # None
  PROVE  Minting'
<1> DEFINE u == Head(agenda)
           q == LegPath(u.path, u.content)
           key == KeyOf(q)
           leg == [op |-> "leg", path |-> u.path, content |-> u.content]
<1>1. /\ AtTask /\ u.op = "unit" /\ Works /\ u.content \in Content
      /\ held' # None /\ held'.path = u.path /\ held'.record.hash = u.content
      /\ HasLeg(u.content) /\ (~Loaded(u) => held'.record.status = "failed")
  BY RecordingIs
<1>2. /\ claim' # None /\ claim' \in Claim /\ claim'.emitted = claim.emitted
      /\ \A k : k \in claim.claimed => k \in claim'.claimed
      /\ \A k : k \in claim'.claimed => k \in claim.claimed \/ k = key
      /\ leg \in Task(cur)
      /\ agenda' = Rest \/ agenda' = <<leg>> \o Rest
      /\ agenda' = <<leg>> \o Rest \/ ~Loaded(u) \/ Occupied(u.path) \/ key \in claim.claimed
      /\ \A p, c : Closing(agenda', p, c) <=> Closing(Rest, p, c)
      /\ agenda' = <<leg>> \o Rest => agenda' # <<>> /\ Head(agenda') = leg
  BY PrimaryIs
<1>3. leg.op = "leg" /\ leg.path = u.path
  OBVIOUS
<1>4. u.path \in Seq(Name) /\ q \in Seq(Name) /\ Under(u.path, q)
  BY <1>1, UnitTree, ChildIs
<1>5. key \in Seq(Name) /\ Under(KeyOf(u.path), key) /\ key \notin claim.claimed
  <2>1. key \in Seq(Name) /\ Under(KeyOf(u.path), key)
    BY <1>4, KeyBelow
  <2>2. key \notin claim.claimed
    BY <1>1, <1>4, LegUnclaimed DEF Minting
  <2> QED BY <2>1, <2>2
<1>6. Rest \in Seq(Task(cur)) /\ EndAlike(agenda, 1, Rest, 0) /\ Bare(Rest)
  BY <1>1, RestAlike DEF Sound, TasksInv, Rest
<1> HIDE DEF u, q, key, leg
<1>7. \A k : k \in claim'.claimed =>
        \/ k \in claim.claimed
        \/ /\ Head(agenda).op = "unit"
           /\ k \in Seq(Name) /\ Under(KeyOf(Head(agenda).path), k)
  BY <1>1, <1>2, <1>5 DEF u
<1>8. KeysInv'
  <2>1. CASE agenda' = Rest
    BY <1>1, <1>2, <1>7, <2>1, KeysPass DEF Minting, u
  <2>2. CASE agenda' = <<leg>> \o Rest
    <3>1. Head(agenda').op # "unit"
      BY <1>2, <1>3, <2>2
    <3>2. \A x : x \in Coming(agenda', claim') => x \in Coming(Rest, claim')
      <4>1. <<leg>> \in Seq(Task(cur))
        BY <1>2
      <4>2. \A x \in Coming(<<leg>> \o Rest, claim') :
              x \in Coming(<<leg>>, claim') \/ x \in Coming(Rest, claim')
        BY <1>6, <4>1, ComingConcat
      <4>3. \A x : x \notin Coming(<<leg>>, claim')
        BY <1>3 DEF Coming, Fresh
      <4> QED BY <2>2, <4>2, <4>3
    <3> QED BY <1>1, <1>2, <1>6, <1>7, <3>1, <3>2, KeysDone DEF Minting
  <2> QED BY <1>2, <2>1, <2>2
<1>9. ASSUME NEW x \in Seq(Name), x = u.path, held'.record.status \in Bearing
      PROVE  Queued(x)' \/ EverOccupied(x)
  <2>2. Loaded(u)
    BY <1>1, <1>9 DEF Bearing
  <2>3. CASE agenda' = <<leg>> \o Rest
    BY <1>2, <1>3, <1>9, <2>3 DEF Queued
  <2>4. CASE Occupied(u.path)
    <3>1. walked \subseteq Roots
      BY DEF IInv, TypeOK
    <3> QED BY <1>9, <2>4, <3>1 DEF Occupied, EverOccupied
  <2> QED BY <1>2, <1>5, <2>2, <2>3, <2>4
<1>10. \A p, c : Closing(agenda', p, c) <=> Closing(agenda, p, c)
  BY <1>1, <1>2, ClosingRest DEF u
<1> QED BY <1>1, <1>2, <1>4, <1>8, <1>9, <1>10, UnitLegs DEF u

\* A container under the claim is opened, or fails to.
LEMMA OpeningLegs ==
  ASSUME Separate, IInv, IInv', NestInv, NestInv', Sound, Minting, Open, claim # None
  PROVE  Minting'
<1> DEFINE u == Head(agenda)
           x == u.path
           w == u.content
<1>1. /\ AtTask /\ u.op = "unit" /\ Works /\ w \in Content
      /\ u \in Task(cur) /\ cur \in Seq(Name) /\ claim' = claim
      /\ \/ /\ agenda' = Rest
            /\ held' # None /\ held'.path = x /\ held'.record.hash = w
            /\ held'.record.status = "failed"
         \/ agenda' = Tasks(u) \o Rest /\ held' = None
  BY OpenIs
<1> HIDE DEF u, x, w
<1>2. CASE agenda' = Rest /\ held' # None /\ held'.path = x /\ held'.record.hash = w
           /\ held'.record.status = "failed"
  <2>1. \A p, c : Closing(agenda', p, c) <=> Closing(agenda, p, c)
    BY <1>1, <1>2, ClosingRest DEF u
  <2>2. KeysInv'
    BY <1>1, <1>2, KeysPass DEF Minting, u
  <2>3. held'.record.status \notin Bearing /\ x \in Seq(Name)
    BY <1>1, <1>2, UnitTree DEF Bearing, u, x
  <2> QED BY <1>1, <1>2, <2>1, <2>2, <2>3, UnitLegs DEF u, x
<1>3. CASE agenda' = Tasks(u) \o Rest /\ held' = None
  <2>1. x \in Seq(Name) /\ Bond[x] = None /\ Rest \in Seq(Task(cur))
    BY <1>1, UnitTree, RestAlike DEF u, x
  <2>2. \A p, c : Closing(agenda', p, c) <=> Closing(agenda, p, c) \/ (x = p /\ w = c)
    <3>1. \A p, c : Closing(agenda', p, c) <=> Closing(Rest, p, c) \/ (x = p /\ w = c)
      BY <1>1, <1>3, <2>1, ClosingTasks DEF x, w
    <3>2. \A p, c : Closing(Rest, p, c) <=> Closing(agenda, p, c)
      BY <1>1, ClosingRest DEF u
    <3> QED BY <3>1, <3>2
  <2>3. LegsFine'
    <3>1. \A p \in Seq(Name) : p # x => \A c : Closing(agenda', p, c) <=> Closing(agenda, p, c)
      BY <2>2
    <3>2. ~Owes(Bond', Now', x)
      <4>1. Closing(agenda', x, w)
        BY <2>2
      <4>2. Bond'[x] = w /\ Kind[w] = "container"
        BY <2>1, <4>1, BondNext
      <4> QED BY <4>2 DEF Owes, HasLeg
    <3>3. /\ \A p : p \in claim'.emitted <=> p \in claim.emitted
          /\ Bond[x] \in Content => ~HasLeg(Bond[x])
      BY <1>1, <2>1, ExpansionAssumption
    <3> QED BY <1>1, <1>3, <2>1, <3>1, <3>2, <3>3, WrittenLegs DEF Minting, u
  <2>4. OldLegs'
    BY <1>1, OldLegsStay DEF Minting
  <2>5. KeysInv'
    BY <1>1, <1>3, KeysOpened DEF Minting, u
  <2> QED BY <2>3, <2>4, <2>5 DEF Minting
<1> QED BY <1>1, <1>2, <1>3

-----------------------------------------------------------------------------
(* A member, and the end of a container *)

\* A member that is refused, under its own name or a synthetic one.
LEMMA RefusalLegs ==
  ASSUME IInv, IInv', NestInv, NestInv', Sound, Minting, AtTask, Works, Head(agenda).op = "member",
         claim # None, claim' # None, claim'.emitted = claim.emitted,
         claim'.claimed = claim.claimed, agenda' = Rest \/ agenda' = Capped,
         held' # None => /\ held'.path \in Seq(Name) /\ held'.record.hash = None
                         /\ Bond[held'.path] = None
  PROVE  Minting'
<1>1. \A p, c : Closing(agenda', p, c) <=> Closing(agenda, p, c)
  <2>1. ASSUME NEW b \in {Rest, Capped} PROVE \A p, c : Closing(b, p, c) <=> Closing(agenda, p, c)
    BY MemberEnd
  <2> QED BY <2>1
<1>2. \A p : p \in Emit' <=> p \in Emit \/ (p \in Below(cur) /\ held' # None /\ p = held'.path)
  BY EmitAfter
<1>3. LegsFine'
  <2> DEFINE X == {p \in Seq(Name) : held' # None /\ p = held'.path}
  <2>1. ASSUME NEW p \in X PROVE ~Owes(Bond', Now', p) /\ (Bond[p] \in Content => ~HasLeg(Bond[p]))
    <3>1. held' # None /\ p = held'.path /\ Bond[p] = None
      OBVIOUS
    <3>2. Owes(Bond', Now', held'.path) => held'.record.hash \in Content
      BY <3>1, HeldOwes
    <3> QED BY <3>1, <3>2, ExpansionAssumption
  <2>2. /\ held' # None => held'.path \in X
        /\ \A p \in Seq(Name) : p \notin X => /\ \A c : Closing(agenda', p, c) <=> Closing(agenda, p, c)
                                              /\ p \in Emit' <=> p \in Emit
    BY <1>1, <1>2
  <2> HIDE DEF X
  <2> QED BY <2>1, <2>2, NestedLegs DEF Minting
<1>4. OldLegs'
  BY OldLegsStay DEF Minting
<1>5. KeysInv'
  BY KeysPass DEF Minting
<1> QED BY <1>3, <1>4, <1>5 DEF Minting

LEMMA RefusedLegs ==
  ASSUME IInv, IInv', NestInv, NestInv', Sound, Minting, MemberRefused \/ MemberOverruns
  PROVE  Minting'
BY RefusedIs, RefusalLegs

LEMMA MemberLegs ==
  ASSUME Separate, IInv, IInv', NestInv, NestInv', Sound, Minting, Member
  PROVE  Minting'
<1> DEFINE t == Head(agenda)
           key == KeyOf(ChildPath(t))
           unit == [op |-> "unit", path |-> ChildPath(t), content |-> t.member.content,
                    depth |-> t.depth, chain |-> t.chain]
<1>1. /\ AtTask /\ t.op = "member" /\ Works /\ claim # None /\ Readable(t.member)
      /\ claim' # None /\ claim'.emitted = claim.emitted
      /\ unit \in Task(cur) /\ unit.op = "unit" /\ unit.path = ChildPath(t)
  BY MemberDoes
<1>2. \/ /\ agenda' = Rest /\ claim'.claimed = claim.claimed
         /\ held' # None /\ held'.path \in Seq(Name) /\ held'.record.hash = None
         /\ Bond[held'.path] = None
      \/ /\ agenda' = <<unit>> \o Rest /\ held' = None
         /\ key \notin claim.claimed
         /\ \A k : k \in claim'.claimed <=> k \in claim.claimed \/ k = key
         /\ Head(agenda') = unit /\ agenda' # <<>>
         /\ \A p, c : Closing(agenda', p, c) <=> Closing(Rest, p, c)
  BY MemberDoes
<1>3. ChildPath(t) = Spot(t) /\ key = KeyOf(Spot(t))
  BY <1>1 DEF ChildPath, Spot
<1> HIDE DEF t, key, unit
<1>4. CASE /\ agenda' = Rest /\ claim'.claimed = claim.claimed
           /\ held' # None /\ held'.path \in Seq(Name) /\ held'.record.hash = None
           /\ Bond[held'.path] = None
  BY <1>1, <1>4, RefusalLegs DEF t
<1>5. CASE /\ agenda' = <<unit>> \o Rest /\ held' = None
           /\ key \notin claim.claimed
           /\ \A k : k \in claim'.claimed <=> k \in claim.claimed \/ k = key
           /\ Head(agenda') = unit /\ agenda' # <<>>
           /\ \A p, c : Closing(agenda', p, c) <=> Closing(Rest, p, c)
  <2>1. \A p, c : Closing(agenda', p, c) <=> Closing(agenda, p, c)
    BY <1>1, <1>5, ClosingRest DEF t
  <2>2. \A p : p \in Emit' <=> p \in Emit
    BY <1>1, <1>5, EmitAfter
  <2>3. LegsFine'
    <3> DEFINE X == {}
    <3>1. /\ \A p : p \notin X
          /\ held' # None => held'.path \in X
      BY <1>5
    <3> HIDE DEF X
    <3> QED BY <1>1, <2>1, <2>2, <3>1, NestedLegs DEF Minting, t
  <2>4. OldLegs'
    BY <1>1, OldLegsStay DEF Minting
  <2>5. KeysInv'
    <3>1. Fresh(claim, Head(agenda))
      BY <1>1, <1>3, <1>5 DEF Fresh, t
    <3> QED BY <1>1, <1>3, <1>5, <3>1, KeysDispatched DEF Minting, t
  <2> QED BY <2>3, <2>4, <2>5 DEF Minting
<1> QED BY <1>2, <1>4, <1>5

LEMMA CloseLegs ==
  ASSUME IInv, IInv', NestInv, NestInv', Sound, Minting, Close
  PROVE  Minting'
<1> DEFINE t == Head(agenda)
           x == t.path
<1>1. /\ AtTask /\ t.op = "close" /\ Works /\ held' # None
      /\ agenda' = Rest /\ claim' = claim /\ claim # None
      /\ x \in Seq(Name) /\ t.content \in Content /\ Kind[t.content] = "container"
      /\ held'.path = x /\ held'.record.hash = t.content
      /\ \A p, c : Closing(agenda, p, c) <=> Closing(Rest, p, c) \/ (x = p /\ t.content = c)
  BY CloseIs
<1> HIDE DEF t, x
<1>2. Bond[x] = t.content
  <2>1. Closing(agenda, x, t.content)
    BY <1>1
  <2> QED BY <1>1, <2>1, BondNow
<1>3. LegsFine'
  <2>1. /\ held' # None => held'.path = x
        /\ \A p \in Seq(Name) : p # x => \A c : Closing(agenda', p, c) <=> Closing(agenda, p, c)
        /\ \A p : p \in claim'.emitted <=> p \in claim.emitted
        /\ Bond[x] \in Content => ~HasLeg(Bond[x])
    BY <1>1, <1>2 DEF HasLeg
  <2>2. ~Owes(Bond', Now', x)
    BY <1>1, HeldOwes DEF HasLeg
  <2> QED BY <1>1, <2>1, <2>2, WrittenLegs DEF Minting, t
<1>4. OldLegs'
  BY <1>1, OldLegsStay DEF Minting
<1>5. KeysInv'
  BY <1>1, KeysPass DEF Minting, t
<1> QED BY <1>3, <1>4, <1>5 DEF Minting

-----------------------------------------------------------------------------
(* The leg *)

\* A leg with something to write leaves a record, whoever is asked.
LEMMA LegWrites ==
  ASSUME IInv, Leg, LegOutcome[Head(agenda).content] = "text"
  PROVE  held' # None
<1> DEFINE t == Head(agenda)
           child == LegPath(t.path, t.content)
<1>1. held' = [path |-> child, record |-> [status |-> "text", hash |-> t.content]]
      \/ held' = [path |-> child, record |-> [status |-> "failed", hash |-> t.content]]
  BY DEF Leg, Write, Fails, Refuse
<1>2. child \in Seq(Name) /\ t.content \in Content
  <2>1. t.op = "leg" /\ t.content \in Content /\ Spot(t) \in Below(cur)
    BY LegIs
  <2> QED BY <2>1 DEF Spot, Below
<1>3. [status |-> "text", hash |-> t.content] \in Record /\ [status |-> "failed", hash |-> t.content] \in Record
  BY <1>2 DEF Record, Status, Bearing
<1> HIDE DEF child, t
<1>4. held' \in Held
  BY <1>1, <1>2, <1>3 DEF Held
<1> QED BY <1>4, ExpansionAssumption

LEMMA LegLegs ==
  ASSUME IInv, IInv', NestInv, NestInv', Sound, Minting, Leg
  PROVE  Minting'
<1> DEFINE t == Head(agenda)
           x == Spot(t)
<1>1. /\ AtTask /\ t.op = "leg" /\ Works /\ t.content \in Content /\ HasLeg(t.content)
      /\ x \in Seq(Name) /\ t.path \in Seq(Name) /\ x = LegPath(t.path, t.content)
      /\ claim = None => claim' = NewClaim(cur) /\ agenda' = <<[op |-> "reconcile"]>>
      /\ claim # None => claim' = claim /\ agenda' = Rest
      /\ held' # None => /\ held'.path = x /\ held'.record.hash = t.content
                         /\ held'.record.status \in {"text", "failed"}
  <2>1. /\ AtTask /\ t.op = "leg" /\ Works /\ t.content \in Content /\ HasLeg(t.content)
        /\ x \in Below(cur) /\ t \in Task(cur)
        /\ claim = None => claim' = NewClaim(cur) /\ agenda' = <<[op |-> "reconcile"]>>
        /\ claim # None => claim' = claim /\ agenda' = Rest
        /\ held' # None => /\ held'.path = x /\ held'.record.hash = t.content
                           /\ held'.record.status \in {"text", "failed"}
    BY LegIs
  <2>2. t.path \in Seq(Name)
    BY <2>1, TaskAt, SpotIs
  <2> QED BY <2>1, <2>2 DEF Spot, Below
<1>2. /\ claim' # None
      /\ \A p \in Seq(Name) : held' = None \/ p # x => Bond'[p] = Bond[p]
      /\ held' # None => Bond'[x] = t.content
      /\ claim # None => \A q \in claim.emitted : q \in claim'.emitted
  BY LegBond
<1>3. Bond[x] = None
  <2>1. Promised(t.path, x, t.content)
    BY <1>1, LegPromises
  <2> QED BY <1>1, <2>1 DEF Promised, Tree
<1>4. /\ Now = terminal /\ \A p : EverOccupied(p)' = EverOccupied(p)
      /\ held' # None => x \in DOMAIN Now' /\ Now'[x] = held'.record
      /\ \A p \in Seq(Name) : held' = None \/ p # x =>
           /\ p \in DOMAIN Now' <=> p \in DOMAIN terminal
           /\ p \in DOMAIN terminal => Now'[p] = terminal[p]
  BY <1>1, NowAfter
<1>5. ASSUME NEW p \in Seq(Name), Queued(p), Owes(Bond', Now', p), held' = None \/ p # x
      PROVE  Minted(Bond', Now', p)
  <2>1. p = t.path
    BY <1>5 DEF Queued
  <2>2. Bond'[p] = Bond[p] /\ Bond[p] \in Content /\ HasLeg(Bond[p]) /\ LegOutcome[Bond[p]] = "text"
    BY <1>2, <1>5 DEF Owes
  <2>3. Bond[p] = t.content
    <3>1. Old[p] = Bond[p]
      BY <2>2, LegKnown
    <3>2. Old[t.path] = t.content
      BY <1>1 DEF Sound, LegInv, AtTask
    <3> QED BY <2>1, <3>1, <3>2
  <2>4. held' # None
    BY <2>2, <2>3, LegWrites
  <2>5. LegPath(p, Bond'[p]) = x
    BY <1>1, <2>1, <2>2, <2>3
  <2> QED BY <1>1, <1>2, <1>4, <2>2, <2>3, <2>4, <2>5 DEF Minted
<1>6. ASSUME held' # None PROVE ~Owes(Bond', Now', x)
  <2>1. x[Len(x)] = LegName[Kind[t.content]]
    BY <1>1, ChildIs
  <2> QED BY <1>2, <1>6, <2>1 DEF Owes
<1> HIDE DEF t, x
<1>7. LegsFine'
  <2> DEFINE X == {p \in Seq(Name) : held' # None /\ p = x}
  <2>1. \A p \in Seq(Name) : p \notin X => held' = None \/ p # x
    OBVIOUS
  <2>2. \A p \in Seq(Name) : p \in X => held' # None /\ p = x
    OBVIOUS
  <2> HIDE DEF X
  <2>3. \A p \in Seq(Name) : p \notin X =>
          /\ Bond'[p] = Bond[p]
          /\ p \in DOMAIN Now' <=> p \in DOMAIN Now
          /\ p \in DOMAIN Now => Now'[p] = Now[p]
    BY <1>2, <1>4, <2>1
  <2>4. \A p \in Seq(Name) : p \in X => ~Owes(Bond', Now', p) /\ (Bond[p] \in Content => ~HasLeg(Bond[p]))
    BY <1>3, <1>6, <2>2, ExpansionAssumption
  <2>5. \A p \in Seq(Name) : p \notin X /\ Queued(p) /\ ~Queued(p)' /\ Owes(Bond', Now', p)
                             => Minted(Bond', Now', p)
    BY <1>5, <2>1
  <2>6. \A p : EverOccupied(p) => EverOccupied(p)'
    BY <1>4
  <2> QED BY <2>3, <2>4, <2>5, <2>6, LegsApart DEF Minting
<1>8. OldLegs'
  BY <1>1, <1>2, OldLegsStay DEF Minting, t
<1>9. KeysInv'
  <2>1. CASE claim # None
    BY <1>1, <1>2, <2>1, KeysPass DEF Minting, t
  <2>2. CASE claim = None
    <3>1. Head(agenda').op = "reconcile" /\ Coming(agenda', claim') = {}
      <4>1. agenda' = <<[op |-> "reconcile"]>>
        BY <1>1, <2>2
      <4> QED BY <4>1 DEF Coming, Fresh
    <3> QED BY <1>1, <2>2, <3>1, KeysStart
  <2> QED BY <2>1, <2>2
<1> QED BY <1>7, <1>8, <1>9 DEF Minting

-----------------------------------------------------------------------------
(* The end of an expansion *)

LEMMA EndLegs ==
  ASSUME IInv, IInv', NestInv, NestInv', Minting, NEW left, Ends(left)
  PROVE  Minting'
<1>1. /\ AtTask /\ Works /\ Head(agenda).op \in {"reconcile", "retire"} /\ claim' = None
      /\ held' # None => held'.record.hash = None
  BY DEF Ends
<1>2. /\ agenda' # <<>> => Head(agenda').op = "retire"
      /\ \A p : ~Due(agenda', p)
      /\ \A p \in Seq(Name) : Bond'[p] = Bond[p]
  BY EndBond
<1>3. /\ Now = terminal /\ \A p : EverOccupied(p)' = EverOccupied(p)
      /\ \A p \in Seq(Name) : held' = None \/ p # held'.path =>
           /\ p \in DOMAIN Now' <=> p \in DOMAIN terminal
           /\ p \in DOMAIN terminal => Now'[p] = terminal[p]
  BY <1>1, NowAfter
<1>4. ASSUME NEW p \in Seq(Name), held' # None, p = held'.path PROVE Bond[p] = None /\ Bond'[p] = None
  <2>1. Old'[p] = None
    BY <1>1, <1>4, NowAfter DEF Stands
  <2> QED BY <1>2, <2>1, BondNext
<1>5. LegsFine'
  <2> DEFINE X == {p \in Seq(Name) : held' # None /\ p = held'.path}
  <2>1. /\ \A p \in Seq(Name) : p \notin X => held' = None \/ p # held'.path
        /\ \A p \in Seq(Name) : p \in X => held' # None /\ p = held'.path
    OBVIOUS
  <2> HIDE DEF X
  <2>2. \A p \in Seq(Name) : p \notin X =>
          /\ Bond'[p] = Bond[p]
          /\ p \in DOMAIN Now' <=> p \in DOMAIN Now
          /\ p \in DOMAIN Now => Now'[p] = Now[p]
    BY <1>2, <1>3, <2>1
  <2>3. \A p \in Seq(Name) : p \in X => Bond[p] \notin Content /\ ~Owes(Bond', Now', p)
    BY <1>4, <2>1, ExpansionAssumption DEF Owes
  <2>4. \A p : ~Queued(p) /\ (EverOccupied(p) => EverOccupied(p)')
    BY <1>1, <1>3 DEF Queued
  <2> QED BY <2>2, <2>3, <2>4, LegsApart DEF Minting
<1>6. OldLegs' /\ KeysInv'
  BY <1>1, <1>2 DEF OldLegs, KeysInv
<1> QED BY <1>5, <1>6 DEF Minting


-----------------------------------------------------------------------------
(* The unit of an entry *)

\* What an entry changes of its own record, or of its tree, changes nothing
\* for a source above it: that one's namespace is taken by the entry.
LEMMA TopLegs ==
  ASSUME IInv, IInv', AtTask, Works, LegsFine, claim = None, Head(agenda).op = "unit",
         held' # None => held'.path = cur, NEW X, X = {cur} \/ X = Tree(cur),
         \A p \in Seq(Name) : p \notin X => Bond'[p] = Bond[p],
         \A p \in Seq(Name) : p \in X /\ Owes(Bond', Now', p) /\ ~EverOccupied(p) /\ ~Queued(p)'
                              => Minted(Bond', Now', p)
  PROVE  LegsFine'
<1>1. /\ Now = terminal /\ \A p : EverOccupied(p)' = EverOccupied(p)
      /\ \A p \in Seq(Name) : held' = None \/ p # held'.path =>
           /\ p \in DOMAIN Now' <=> p \in DOMAIN terminal
           /\ p \in DOMAIN terminal => Now'[p] = terminal[p]
  BY NowAfter
<1>2. cur \in Roots /\ cur \in Seq(Name) /\ cur \in Tree(cur)
  BY TaskAt
<1>3. ASSUME NEW p \in Seq(Name), p \notin X
      PROVE  /\ Bond'[p] = Bond[p]
             /\ p \in DOMAIN Now' <=> p \in DOMAIN Now
             /\ p \in DOMAIN Now => Now'[p] = Now[p]
  BY <1>1, <1>2, <1>3
<1>4. ASSUME NEW p \in Seq(Name), p \notin X, Owes(Bond, Now, p), Minted(Bond, Now, p),
             LegPath(p, Bond[p]) \in X
      PROVE  EverOccupied(p)
  <2> DEFINE q == LegPath(p, Bond[p])
  <2>1. Under(p, q) /\ (q \in Tree(cur) => q = cur \/ p \in Tree(cur))
    BY <1>2, <1>4, ChildIs DEF Owes
  <2>2. q \in DOMAIN terminal
    BY <1>1, <1>4 DEF Minted
  <2>3. q \in X
    BY <1>4
  <2> HIDE DEF q
  <2>4. q = cur
    BY <1>4, <2>1, <2>3
  <2> QED BY <1>2, <2>1, <2>2, <2>4 DEF EverOccupied
<1>5. \A p : ~Queued(p)
  BY DEF Queued
<1> QED BY <1>1, <1>3, <1>4, <1>5, LegsStep

\* An entry that has only its own record.
LEMMA TopDoneLegs ==
  ASSUME IInv, IInv', NestInv, NestInv', Minting, AtTask, Works, claim = None,
         Head(agenda).op = "unit", claim' = None, agenda' = <<>>, held' # None, held'.path = cur,
         Owes(Bond', Now', cur) /\ ~EverOccupied(cur) => Minted(Bond', Now', cur)
  PROVE  Minting'
<1>1. \A p \in Seq(Name) : p # cur => Bond'[p] = Bond[p]
  BY TopRecorded
<1>2. LegsFine'
  <2> DEFINE X == {cur}
  <2>1. /\ \A p : p \in X <=> p = cur
        /\ X = {cur} \/ X = Tree(cur)
    OBVIOUS
  <2> HIDE DEF X
  <2> QED BY <1>1, <2>1, TopLegs DEF Minting
<1>3. OldLegs' /\ KeysInv'
  BY DEF OldLegs, KeysInv
<1> QED BY <1>2, <1>3 DEF Minting

\* An entry that claims its namespace, without a leg.
LEMMA TopClaimedLegs ==
  ASSUME IInv, IInv', NestInv, NestInv', Sound, Minting, AtTask, Works, claim = None,
         Head(agenda).op = "unit", claim' = NewClaim(cur), held' # None => held'.path = cur,
         \A p, c : Closing(agenda', p, c) => p = cur,
         Owes(Bond', Now', cur) => FALSE, KeysInv'
  PROVE  Minting'
<1>1. cur \in Seq(Name) /\ cur' = cur /\ claim' # None /\ \A p : p \notin Emit'
  <2>1. \A p : p \notin Emit'
    BY TopClaimed
  <2> QED BY <2>1, TaskAt, NewClaimIs DEF Works
<1>2. \A p : Due(agenda', p) => p = cur
  BY DueIs
<1>3. ASSUME NEW p \in Seq(Name), p \notin Tree(cur) PROVE Bond'[p] = Bond[p]
  <2>1. p # cur /\ p \notin Below(cur)
    BY <1>3 DEF Tree, Below
  <2>2. Old'[p] = Old[p]
    BY <2>1, NowAfter
  <2>3. Bond'[p] = Old'[p]
    BY <1>1, <1>2, <2>1, BondNext
  <2> QED BY <2>2, <2>3, TopBond
<1>4. ASSUME NEW p \in Tree(cur), Owes(Bond', Now', p) PROVE FALSE
  <2>1. p \in Below(cur) /\ p # cur /\ p \in Seq(Name)
    BY <1>4 DEF Tree, Below
  <2>2. Bond'[p] = None
    BY <1>1, <1>2, <2>1, BondNext
  <2> QED BY <1>4, <2>2, ExpansionAssumption DEF Owes
<1>5. LegsFine'
  <2> DEFINE X == Tree(cur)
  <2>1. X = {cur} \/ X = Tree(cur)
    OBVIOUS
  <2>2. /\ \A p \in Seq(Name) : p \notin X => Bond'[p] = Bond[p]
        /\ \A p \in Seq(Name) : p \in X /\ Owes(Bond', Now', p) /\ ~EverOccupied(p) /\ ~Queued(p)'
                                => Minted(Bond', Now', p)
    BY <1>3, <1>4
  <2> HIDE DEF X
  <2> QED BY <2>1, <2>2, TopLegs DEF Minting
<1>6. OldLegs'
  BY OldLegsStart DEF Minting
<1> QED BY <1>5, <1>6 DEF Minting

LEMMA TopSkipLegs ==
  ASSUME IInv, IInv', NestInv, NestInv', Minting, Skip, claim = None
  PROVE  Minting'
<1> DEFINE u == Head(agenda)
<1>1. /\ AtTask /\ u.op = "unit" /\ Works /\ agenda' = Rest
      /\ held' # None /\ held'.path = cur /\ held'.record = terminal[cur]
      /\ cur \in DOMAIN terminal /\ claim' = None
  BY SkipIs
<1>2. agenda' = <<>>
  BY <1>1, TaskAt
<1>3. /\ cur \in Seq(Name) /\ Now = terminal /\ cur \in DOMAIN Now' /\ Now'[cur] = held'.record
      /\ \A p \in Seq(Name) : Bond'[p] = Old'[p]
      /\ \A p \in Seq(Name) : p # cur => Bond'[p] = Bond[p]
  BY <1>1, <1>2, TopRecorded
<1>4. /\ \A p \in Seq(Name) : p # cur => /\ p \in DOMAIN Now' <=> p \in DOMAIN Now
                                         /\ p \in DOMAIN Now => Now'[p] = Now[p]
      /\ cur \in DOMAIN Now /\ Now'[cur] = Now[cur]
  BY <1>1, <1>3, NowAfter
<1>5. Bond'[cur] = Bond[cur]
  <2>1. Old'[cur] = Old[cur]
    BY <1>3, <1>4, HoldingIs DEF Old
  <2> QED BY <1>1, <1>3, <2>1, TopBond
<1>6. ASSUME Owes(Bond', Now', cur), ~EverOccupied(cur) PROVE Minted(Bond', Now', cur)
  <2> DEFINE q == LegPath(cur, Bond[cur])
  <2>1. Owes(Bond, Now, cur)
    BY <1>3, <1>4, <1>5, <1>6, SameLegs
  <2>2. Minted(Bond, Now, cur)
    <3>1. ~Queued(cur)
      BY <1>1 DEF Queued
    <3> QED BY <1>3, <1>6, <2>1, <3>1 DEF Minting, LegsFine
  <2>3. q \in Seq(Name)
    BY <1>3, <2>1, ChildIs DEF Owes
  <2>4. Bond'[q] = Bond[q] /\ (q \in DOMAIN Now => q \in DOMAIN Now' /\ Now'[q] = Now[q])
    BY <1>3, <1>4, <1>5, <2>3
  <2> QED BY <1>3, <1>4, <1>5, <2>2, <2>4, SameLegs
<1> QED BY <1>1, <1>2, <1>6, TopDoneLegs

LEMMA TopBorrowLegs ==
  ASSUME IInv, IInv', NestInv, NestInv', Minting, Borrow, claim = None
  PROVE  Minting'
<1>1. /\ AtTask /\ Head(agenda).op = "unit" /\ Works /\ held' # None /\ held'.path = cur
      /\ held'.record.hash = Head(agenda).content /\ Kind[Head(agenda).content] = "leaf"
  BY RecordingIs
<1>2. claim' = None /\ agenda' = <<>>
  BY <1>1, TaskAt DEF Borrow
<1>3. ~Owes(Bond', Now', cur)
  BY <1>1, HeldOwes DEF HasLeg
<1> QED BY <1>1, <1>2, <1>3, TopDoneLegs

LEMMA TopLeafLegs ==
  ASSUME IInv, IInv', NestInv, NestInv', Sound, Minting, Leaf, claim = None
  PROVE  Minting'
<1> DEFINE after == <<[op |-> "reconcile"]>>
<1>1. /\ AtTask /\ Head(agenda).op = "unit" /\ Head(agenda).path = cur /\ Works /\ held' # None
      /\ held'.path = cur
      /\ held'.record.hash = Head(agenda).content /\ Kind[Head(agenda).content] = "leaf"
  BY RecordingIs
<1>2. Rest = <<>>
  BY <1>1, TaskAt
<1>3. \/ claim' = NewClaim(cur) /\ agenda' = after
      \/ claim' = None /\ agenda' = <<>>
  <2>1. <<[op |-> "reconcile"]>> \o Rest = after
    BY <1>2
  <2> HIDE DEF after
  <2> QED BY <1>1, <1>2, <2>1 DEF Leaf
<1>4. ~Owes(Bond', Now', cur)
  BY <1>1, HeldOwes DEF HasLeg
<1>5. /\ Head(after).op = "reconcile" /\ \A p, c : ~Closing(after, p, c)
      /\ \A cl : Coming(after, cl) = {}
  <2>1. \A cl : Coming(after, cl) = {}
    BY DEF Coming, Fresh
  <2> QED BY <2>1, OnlyReconcile
<1> HIDE DEF after
<1>6. CASE claim' = NewClaim(cur) /\ agenda' = after
  <2>1. KeysInv'
    BY <1>5, <1>6, KeysStart
  <2> QED BY <1>1, <1>4, <1>5, <1>6, <2>1, TopClaimedLegs
<1>7. CASE claim' = None /\ agenda' = <<>>
  BY <1>1, <1>4, <1>7, TopDoneLegs
<1> QED BY <1>3, <1>6, <1>7

LEMMA TopOpeningLegs ==
  ASSUME Separate, IInv, IInv', NestInv, NestInv', Sound, Minting, Open, claim = None
  PROVE  Minting'
<1> DEFINE u == Head(agenda)
           after == <<[op |-> "reconcile"]>>
<1>1. /\ AtTask /\ u.op = "unit" /\ Works /\ u.content \in Content
      /\ u \in Task(cur) /\ cur \in Seq(Name) /\ claim' = NewClaim(cur) /\ u.path = cur
      /\ \/ /\ agenda' = after
            /\ held' # None /\ held'.path = cur /\ held'.record.status = "failed"
         \/ agenda' = Tasks(u) \o after /\ held' = None
  <2>1. AtTask
    BY OpenIs
  <2>2. Rest = <<>>
    BY <2>1, TaskAt
  <2>3. <<[op |-> "reconcile"]>> \o Rest = after
    BY <2>2
  <2> QED BY <2>3, OpenIs
<1>2. /\ Head(after).op = "reconcile" /\ after \in Seq(Task(cur)) /\ \A p, c : ~Closing(after, p, c)
      /\ \A cl : Coming(after, cl) = {}
  <2>1. \A cl : Coming(after, cl) = {}
    BY DEF Coming, Fresh
  <2> QED BY <2>1, OnlyReconcile
<1> HIDE DEF after, u
<1>3. CASE agenda' = after /\ held' # None /\ held'.path = cur /\ held'.record.status = "failed"
  <2>1. KeysInv'
    BY <1>1, <1>2, <1>3, KeysStart
  <2>2. ~Owes(Bond', Now', cur)
    BY <1>1, <1>3, HeldOwes DEF Bearing
  <2> QED BY <1>1, <1>2, <1>3, <2>1, <2>2, TopClaimedLegs DEF u
<1>4. CASE agenda' = Tasks(u) \o after /\ held' = None
  <2>1. \A p, c : Closing(agenda', p, c) <=> cur = p /\ u.content = c
    BY <1>1, <1>2, <1>4, ClosingTasks
  <2>2. ~Owes(Bond', Now', cur)
    <3>1. Closing(agenda', cur, u.content)
      BY <2>1
    <3>2. Bond'[cur] = u.content /\ Kind[u.content] = "container"
      BY <1>1, <3>1, BondNext
    <3> QED BY <3>2 DEF Owes, HasLeg
  <2>3. KeysInv'
    <3>1. Head(agenda').op \in {"member", "close"}
      BY <1>1, <1>2, <1>4, FirstOfTasks
    <3>2. Tasks(u) \in Seq(Task(cur))
      BY <1>1, TasksAre
    <3>3. ASSUME NEW cl PROVE \A x, y \in Coming(Tasks(u) \o after, cl) : ~Under(x, y)
      <4>1. \A x \in Coming(Tasks(u) \o after, cl) : x \in Coming(Tasks(u), cl)
        BY <1>2, <3>2, ComingConcat
      <4>2. \A x, y \in Coming(Tasks(u), cl) : ~Under(x, y)
        BY <1>1, MembersComing
      <4> QED BY <4>1, <4>2
    <3> QED BY <1>1, <1>4, <3>1, <3>3, KeysStart
  <2> QED BY <1>1, <1>4, <2>1, <2>2, <2>3, TopClaimedLegs DEF u
<1> QED BY <1>1, <1>3, <1>4

\* A source with a leg: the leg is next, or the source was not read, or its
\* namespace is taken.
LEMMA TopPrimaryLegs ==
  ASSUME IInv, IInv', NestInv, NestInv', Sound, Minting, Primary, claim = None
  PROVE  Minting'
<1> DEFINE u == Head(agenda)
           leg == [op |-> "leg", path |-> u.path, content |-> u.content]
<1>1. /\ AtTask /\ u.op = "unit" /\ Works /\ u.content \in Content /\ u.path = cur
      /\ held' # None /\ held'.path = cur
      /\ ~Loaded(u) => held'.record.status = "failed"
  BY RecordingIs
<1>2. Rest = <<>> /\ cur \in Roots /\ cur \in Seq(Name) /\ cur' = cur
  BY <1>1, TaskAt DEF Works
<1>3. /\ claim' = None
      /\ agenda' = IF Loaded(u) /\ ~Occupied(cur) THEN <<leg>> ELSE <<>>
  <2>1. <<leg>> \o Rest = <<leg>>
    BY <1>2
  <2> HIDE DEF leg
  <2>2. claim' = None
    BY DEF Primary
  <2>3. agenda' = IF Loaded(u) /\ ~Occupied(cur) THEN <<leg>> \o Rest ELSE Rest
    BY <1>1 DEF Primary, leg
  <2> QED BY <1>2, <2>1, <2>2, <2>3
<1>4. leg.op = "leg" /\ leg.path = cur
  BY <1>1
<1> HIDE DEF leg, u
<1>5. CASE ~(Loaded(u) /\ ~Occupied(cur))
  <2>1. agenda' = <<>>
    BY <1>3, <1>5
  <2>2. Occupied(cur) => EverOccupied(cur)
    <3>1. walked \subseteq Roots
      BY DEF IInv, TypeOK
    <3> QED BY <3>1 DEF Occupied, EverOccupied
  <2>3. Owes(Bond', Now', cur) => Loaded(u)
    BY <1>1, HeldOwes DEF Bearing
  <2> QED BY <1>1, <1>3, <1>5, <2>1, <2>2, <2>3, TopDoneLegs DEF u
<1>6. CASE Loaded(u) /\ ~Occupied(cur)
  <2>1. agenda' = <<leg>> /\ Head(agenda') = leg /\ agenda' # <<>>
    BY <1>3, <1>6
  <2>2. \A p : ~Due(agenda', p)
    <3>1. \A p, c : ~Closing(agenda', p, c)
      BY <1>4, <2>1, ClosingOne
    <3> QED BY <3>1, DueIs
  <2>3. Lost(agenda', claim', held', cur') = Below(cur)
    BY <1>2, <1>3, <1>4, <2>1 DEF Lost
  <2>4. \A p : p = cur => Queued(p)'
    BY <1>4, <2>1 DEF Queued
  <2>5. ASSUME NEW p \in Tree(cur), Owes(Bond', Now', p) PROVE Queued(p)'
    <3>1. p = cur \/ p \in Below(cur)
      BY <2>5 DEF Tree, Below
    <3>2. p \in Below(cur) => Bond'[p] = None
      BY <2>2, <2>3, BondNext DEF Below
    <3> QED BY <2>4, <2>5, <3>1, <3>2, ExpansionAssumption DEF Owes
  <2>6. ASSUME NEW p \in Seq(Name), p \notin Tree(cur) PROVE Bond'[p] = Bond[p]
    <3>1. p # cur /\ p \notin Below(cur)
      BY <2>6 DEF Tree, Below
    <3>2. Bond'[p] = Old'[p] /\ Old'[p] = Old[p]
      BY <1>1, <2>2, <2>3, <3>1, BondNext, NowAfter
    <3> QED BY <1>1, <3>2, TopBond DEF u
  <2>7. LegsFine'
    <3> DEFINE X == Tree(cur)
    <3>1. X = {cur} \/ X = Tree(cur)
      OBVIOUS
    <3>2. /\ \A p \in Seq(Name) : p \notin X => Bond'[p] = Bond[p]
          /\ \A p \in Seq(Name) : p \in X /\ Owes(Bond', Now', p) /\ ~EverOccupied(p) /\ ~Queued(p)'
                                  => Minted(Bond', Now', p)
      BY <2>5, <2>6
    <3> HIDE DEF X
    <3> QED BY <1>1, <3>1, <3>2, TopLegs DEF Minting, u
  <2>8. OldLegs'
    BY <1>1, OldLegsStart DEF Minting, u
  <2>9. KeysInv'
    BY <1>3 DEF KeysInv
  <2> QED BY <2>7, <2>8, <2>9 DEF Minting
<1> QED BY <1>5, <1>6

-----------------------------------------------------------------------------
(* The run and the environment *)

\* What only touches the files, or appends what is in hand.
LEMMA PassingLegs ==
  ASSUME Minting, Now' = Now, Emit' = Emit, UNCHANGED <<agenda, cur>>,
         Lost(agenda', claim', held', cur') = Lost(agenda, claim, held, cur),
         claim' = None <=> claim = None, claim # None => claim'.claimed = claim.claimed,
         \A p : EverOccupied(p) => EverOccupied(p)'
  PROVE  Minting'
<1>1. Old' = Old /\ Bond' = Bond
  BY DEF Old, Bond
<1>2. \A p : Queued(p)' <=> Queued(p)
  BY DEF Queued
<1>3. LegsFine'
  BY <1>1, <1>2 DEF Minting, LegsFine
<1>4. OldLegs'
  <2>1. SUFFICES ASSUME claim # None \/ (agenda # <<>> /\ Head(agenda).op = "leg"),
                        NEW p \in Below(cur), Untouched(p), Owes(Old, Now, p), ~EverOccupied(p)
                 PROVE  Minted(Old, Now, p)
    BY <1>1 DEF OldLegs, Untouched
  <2> QED BY <2>1 DEF Minting, OldLegs
<1>5. KeysInv'
  <2>1. SUFFICES ASSUME claim' # None
                 PROVE  /\ Ahead(Coming(agenda, claim'), claim'.claimed)
                        /\ Head(agenda).op = "unit" => KeyOf(Head(agenda).path) \in claim'.claimed
    BY DEF KeysInv
  <2>2. claim # None /\ claim'.claimed = claim.claimed
    BY <2>1
  <2>3. \A t : Fresh(claim', t) <=> Fresh(claim, t)
    BY <2>2 DEF Fresh
  <2>4. Coming(agenda, claim') = Coming(agenda, claim)
    BY <2>3 DEF Coming
  <2> QED BY <2>2, <2>4 DEF Minting, KeysInv
<1> QED BY <1>3, <1>4, <1>5 DEF Minting

LEMMA AppendLegs ==
  ASSUME IInv, Minting, AppendRecord
  PROVE  Minting'
<1>1. /\ held # None /\ held' = None /\ terminal' = With(terminal, held.path, held.record)
      /\ claim' = IF claim # None /\ Under(claim.prefix, held.path)
                  THEN [claim EXCEPT !.emitted = @ \cup {held.path}] ELSE claim
      /\ UNCHANGED <<agenda, cur, walked>>
  BY DEF AppendRecord, run, book
<1>2. claim # None => claim \in Claim
  BY DEF IInv, TypeOK
<1>3. Now' = Now
  BY <1>1 DEF Now, Recorded
<1>4. claim # None => /\ claim'.prefix = claim.prefix /\ claim'.claimed = claim.claimed
                      /\ \A p : p \in claim'.emitted <=>
                           p \in claim.emitted \/ (p = held.path /\ p \in Below(claim.prefix))
  <2>1. held.path \in Seq(Name)
    BY <1>1 DEF IInv, TypeOK, Held
  <2> QED BY <1>1, <1>2, <2>1 DEF Claim, Below
<1>5. claim' = None <=> claim = None
  <2>1. CASE claim # None /\ Under(claim.prefix, held.path)
    <3>1. held.path \in Seq(Name)
      BY <1>1 DEF IInv, TypeOK, Held
    <3>2. claim' \in Claim
      BY <1>1, <1>2, <2>1, <3>1 DEF Claim
    <3> QED BY <2>1, <3>2, ExpansionAssumption
  <2> QED BY <1>1, <2>1
<1>6. Emitted(claim', None) = Emitted(claim, held)
  BY <1>1, <1>4, <1>5 DEF Emitted
<1>7. Emit' = Emit /\ Lost(agenda', claim', held', cur') = Lost(agenda, claim, held, cur)
  BY <1>1, <1>5, <1>6 DEF Emit, Lost
<1>8. \A p : EverOccupied(p) => EverOccupied(p)'
  BY <1>1 DEF EverOccupied, With
<1> QED BY <1>1, <1>3, <1>4, <1>5, <1>7, <1>8, PassingLegs

LEMMA DisturbedLegs ==
  ASSUME Minting, UNCHANGED <<terminal, walked, cur, agenda, claim, held>>
  PROVE  Minting'
<1>1. Now' = Now /\ Emit' = Emit
  BY DEF Now, Emit
<1>2. Lost(agenda', claim', held', cur') = Lost(agenda, claim, held, cur)
  OBVIOUS
<1>3. \A p : EverOccupied(p) <=> EverOccupied(p)'
  BY DEF EverOccupied
<1> QED BY <1>1, <1>2, <1>3, PassingLegs

\* Between two entries, and before the first task of the next one.
LEMMA RestingLegs ==
  ASSUME LegsFine, claim = None, agenda = <<>>, claim' = None,
         agenda' = <<>> \/ \E t : agenda' = <<t>> /\ t.op = "unit",
         Now' = Now, \A p : EverOccupied(p) => EverOccupied(p)'
  PROVE  Minting'
<1>1. \A p \in Seq(Name) : Bond'[p] = Bond[p]
  <2>1. \A p \in Seq(Name) : Bond'[p] = Old'[p]
    BY RestingNext
  <2>2. \A p \in Seq(Name) : Bond[p] = Old[p]
    BY RestingBond
  <2> QED BY <2>1, <2>2 DEF Old
<1>2. agenda' # <<>> => Head(agenda').op = "unit"
  OBVIOUS
<1>3. LegsFine'
  <2> DEFINE X == {}
  <2>1. \A p : p \notin X
    OBVIOUS
  <2> HIDE DEF X
  <2>2. \A p : ~Queued(p)
    BY DEF Queued
  <2> QED BY <1>1, <2>1, <2>2, LegsStep
<1>4. OldLegs' /\ KeysInv'
  BY <1>2 DEF OldLegs, KeysInv
<1> QED BY <1>3, <1>4 DEF Minting

LEMMA StartLegs ==
  ASSUME IInv, Sound, Minting, Start
  PROVE  Minting'
<1>1. /\ cur = None /\ agenda = <<>> /\ held = None /\ claim = None /\ queue = {}
      /\ walked \subseteq Roots
  BY IdleIs DEF IInv, OrderInv, TypeOK, Start
<1>2. UNCHANGED <<terminal, agenda, claim, held>>
  BY DEF Start, disk
<1>3. Now' = Now /\ Now = terminal
  BY <1>1, <1>2 DEF Now, Recorded
<1>4. \A w \in walked : w \in DOMAIN terminal
  <2>1. \A w \in walked : w # None
    BY <1>1, PlaceIs, ExpansionAssumption
  <2> QED BY <1>1, <1>3, <2>1, WalkedRecorded
<1>5. \A p : EverOccupied(p) => EverOccupied(p)'
  BY <1>2, <1>4 DEF EverOccupied
<1> QED BY <1>1, <1>2, <1>3, <1>5, RestingLegs DEF Minting

LEMMA FinishLegs ==
  ASSUME IInv, Minting, Finish
  PROVE  Minting'
<1>1. agenda = <<>> /\ claim = None
  BY Completing DEF Between, Finish
<1>2. UNCHANGED <<terminal, walked, agenda, claim, held>>
  BY DEF Finish, disk
<1>3. Now' = Now /\ \A p : EverOccupied(p) <=> EverOccupied(p)'
  BY <1>2 DEF Now, EverOccupied
<1> QED BY <1>1, <1>2, <1>3, RestingLegs DEF Minting

\* An entry that is gone or barred has no bytes on record, and its path has
\* been taken for as long as it was walked.
LEMMA TakeUpLegs ==
  ASSUME IInv, Minting, TakeUp
  PROVE  Minting'
<1> DEFINE unit == [op |-> "unit", path |-> cur', content |-> source[cur'], depth |-> 0, chain |-> {}]
           rec == [status |-> "failed", hash |-> None]
<1>1. /\ agenda = <<>> /\ held = None /\ claim = None /\ claim' = None
      /\ walked \subseteq Roots /\ queue \subseteq walked
  BY Completing DEF Between, TakeUp, IInv, TypeOK
<1>2. /\ cur' \in queue /\ UNCHANGED <<terminal, walked>>
      /\ \/ Fails(cur', None) /\ agenda' = agenda
         \/ agenda' = <<unit>> /\ held' = held
  BY DEF TakeUp
<1>3. cur' \in Roots /\ cur' \in Seq(Name)
  BY <1>1, <1>2, PlaceIs
<1>4. unit.op = "unit" /\ rec.status = "failed"
  OBVIOUS
<1>5. \/ agenda' = <<>> /\ held' # None /\ held'.path = cur' /\ held'.record = rec
      \/ agenda' = <<unit>> /\ held' = None
  <2>1. CASE Fails(cur', None) /\ agenda' = agenda
    <3>1. held' = [path |-> cur', record |-> rec]
      BY <2>1 DEF Fails, Refuse
    <3>2. [path |-> cur', record |-> rec] \in Held
      BY <1>3 DEF Held, Record, Status
    <3>3. held' # None /\ held'.path = cur' /\ held'.record = rec
      BY <3>1, <3>2, ExpansionAssumption
    <3> HIDE DEF unit, rec
    <3> QED BY <1>1, <2>1, <3>3
  <2> HIDE DEF unit, rec
  <2> QED BY <1>1, <1>2, <2>1
<1> HIDE DEF unit, rec
<1>6. Now = terminal /\ \A p : EverOccupied(p) <=> EverOccupied(p)'
  BY <1>1, <1>2 DEF Now, Recorded, EverOccupied
<1>7. CASE agenda' = <<unit>> /\ held' = None
  <2>1. Now' = Now
    BY <1>1, <1>2, <1>7 DEF Now
  <2> QED BY <1>1, <1>4, <1>6, <1>7, <2>1, RestingLegs DEF Minting
<1>8. CASE agenda' = <<>> /\ held' # None /\ held'.path = cur' /\ held'.record = rec
  <2>1. Now' = With(terminal, cur', rec)
    BY <1>2, <1>8 DEF Now, Recorded
  <2>2. /\ cur' \in DOMAIN Now' /\ Now'[cur'] = rec
        /\ \A p : p # cur' => /\ p \in DOMAIN Now' <=> p \in DOMAIN Now
                              /\ p \in DOMAIN Now => Now'[p] = Now[p]
    BY <1>6, <2>1 DEF With
  <2>3. ASSUME NEW p \in Seq(Name), p # cur' PROVE Bond'[p] = Bond[p]
    <3>1. Old'[p] = IF p \in DOMAIN Now' /\ Stands(Now'[p]) THEN Now'[p].hash ELSE None
      BY HoldingIs DEF Old
    <3>2. Old[p] = IF p \in DOMAIN Now /\ Stands(Now[p]) THEN Now[p].hash ELSE None
      BY HoldingIs DEF Old
    <3>3. Old'[p] = Old[p]
      BY <2>2, <2>3, <3>1, <3>2
    <3>4. Bond'[p] = Old'[p]
      BY <1>1, <1>8, RestingNext
    <3> QED BY <1>1, <3>3, <3>4, RestingBond
  <2>4. ASSUME NEW p \in Seq(Name), p = cur' PROVE ~Owes(Bond', Now', p)
    BY <1>4, <2>2, <2>4 DEF Owes, Bearing
  <2>5. ASSUME NEW p \in Seq(Name), Owes(Bond, Now, p), LegPath(p, Bond[p]) = cur'
        PROVE  EverOccupied(p)
    <3>1. Under(p, cur')
      BY <2>5, ChildIs DEF Owes
    <3> QED BY <1>1, <1>2, <1>3, <3>1 DEF EverOccupied
  <2>6. LegsFine'
    <3> DEFINE X == {cur'}
    <3>1. \A p : p \in X <=> p = cur'
      OBVIOUS
    <3> HIDE DEF X
    <3>2. /\ \A p : ~Queued(p)
          /\ \A p : EverOccupied(p) => EverOccupied(p)'
      BY <1>1, <1>6 DEF Queued
    <3>3. \A p \in Seq(Name) : p \notin X =>
            /\ Bond'[p] = Bond[p]
            /\ p \in DOMAIN Now' <=> p \in DOMAIN Now
            /\ p \in DOMAIN Now => Now'[p] = Now[p]
      BY <2>2, <2>3, <3>1
    <3>4. /\ \A p \in Seq(Name) : p \in X => ~Owes(Bond', Now', p)
          /\ \A p \in Seq(Name) : p \notin X /\ Owes(Bond, Now, p) /\ Minted(Bond, Now, p)
                                  /\ LegPath(p, Bond[p]) \in X => EverOccupied(p)
      BY <2>4, <2>5, <3>1
    <3> QED BY <3>2, <3>3, <3>4, LegsStep DEF Minting
  <2>7. OldLegs' /\ KeysInv'
    BY <1>1, <1>8 DEF OldLegs, KeysInv
  <2> QED BY <2>6, <2>7 DEF Minting
<1> QED BY <1>5, <1>7, <1>8

LEMMA MintingStep ==
  ASSUME Separate, IInv, IInv', NestInv, NestInv', Sound, Minting, [Next]_vars, killed' = "never"
  PROVE  Minting'
<1>1. CASE Start \/ TakeUp \/ Finish \/ AppendRecord
  BY <1>1, StartLegs, TakeUpLegs, FinishLegs, AppendLegs
<1>2. CASE Skip
  BY <1>2, SkipLegs, TopSkipLegs
<1>3. CASE GuardFails \/ Borrow \/ Leaf
  BY <1>3, RecordingLegs, TopGuard, TopBorrowLegs, TopLeafLegs
<1>4. CASE Primary
  BY <1>4, PrimaryLegs, TopPrimaryLegs
<1>5. CASE Open
  BY <1>5, OpeningLegs, TopOpeningLegs
<1>6. CASE Leg \/ MemberRefused \/ MemberOverruns \/ Member
  BY <1>6, LegLegs, RefusedLegs, MemberLegs
<1>7. CASE Close \/ Reconcile \/ Retire
  BY <1>7, CloseLegs, ReconcileEnds, RetireEnds, EndLegs
<1>8. CASE Kill \/ AppendFails
  BY <1>8 DEF Kill, AppendFails
<1>9. CASE Edit \/ Damage \/ UNCHANGED vars
  <2>1. UNCHANGED <<terminal, walked, cur, agenda, claim, held>>
    BY <1>9 DEF Edit, Damage, vars, disk, run
  <2> QED BY <2>1, DisturbedLegs
<1> QED BY <1>1, <1>2, <1>3, <1>4, <1>5, <1>6, <1>7, <1>8, <1>9 DEF Next, Run

LEMMA WalkingStep ==
  ASSUME IInv, Walking, [Next]_vars
  PROVE  Walking'
<1>1. CASE Start
  BY <1>1 DEF IInv, OrderInv, Start, Walking
<1>2. CASE TakeUp
  <2>1. queue \subseteq walked
    BY DEF IInv, TypeOK
  <2> QED BY <1>2, <2>1 DEF TakeUp, Walking
<1>3. CASE Finish \/ Kill
  BY <1>3 DEF Finish, Kill, Walking
<1>4. CASE UNCHANGED <<cur, walked>>
  BY <1>4 DEF Walking
<1>5. \/ Start \/ TakeUp \/ Finish \/ Kill
      \/ UNCHANGED <<cur, walked>>
  BY DEF Next, Run, AppendRecord, Skip, GuardFails, Borrow, Leaf, Primary, Leg, Open,
         MemberRefused, MemberOverruns, Member, Close, Reconcile, Retire, AppendFails, Edit, Damage,
         run, vars
<1> QED BY <1>1, <1>2, <1>3, <1>4, <1>5

LEMMA LegsInvInit == Init => LegsInv
<1> SUFFICES ASSUME Init PROVE LegsInv
  OBVIOUS
<1>1. terminal = <<>> /\ cur = None /\ agenda = <<>> /\ claim = None /\ held = None
  BY DEF Init
<1>2. DOMAIN <<>> = {}
  OBVIOUS
<1>3. DOMAIN Now = {}
  BY <1>1, <1>2 DEF Now, Recorded
<1>4. Walking /\ LegsFine /\ OldLegs /\ KeysInv
  BY <1>1, <1>3 DEF Walking, LegsFine, Owes, OldLegs, KeysInv
<1> QED BY <1>4 DEF LegsInv, Minting

LEMMA LegsInvStep ==
  ASSUME Separate
  PROVE  IInv /\ NestInv /\ DropInv /\ LegsInv /\ [Next]_vars => LegsInv'
<1> SUFFICES ASSUME IInv, NestInv, DropInv, LegsInv, [Next]_vars PROVE LegsInv'
  OBVIOUS
<1>1. Walking'
  BY WalkingStep DEF LegsInv
<1>2. ASSUME killed' = "never" PROVE Minting'
  <2>1. killed = "never"
    <3>1. \/ UNCHANGED killed
          \/ Kill \/ AppendFails
      BY DEF Next, Run, Start, TakeUp, Finish, AppendRecord, Skip, GuardFails, Borrow, Leaf,
             Primary, Leg, Open, MemberRefused, MemberOverruns, Member, Close, Reconcile, Retire,
             Edit, Damage, book, vars
    <3>2. Kill \/ AppendFails => FALSE
      BY <1>2 DEF Kill, AppendFails
    <3> QED BY <1>2, <3>1, <3>2
  <2>2. Sound /\ Minting
    BY <2>1 DEF DropInv, LegsInv
  <2>3. IInv' /\ NestInv'
    BY IInvStep, NestInvStep
  <2> QED BY <1>2, <2>2, <2>3, MintingStep
<1> QED BY <1>1, <1>2 DEF LegsInv

-----------------------------------------------------------------------------
(* No leg is silently missing *)

LEMMA NoLegMissing ==
  ASSUME IInv, NestInv, Sound, LegsFine, Walking, NEW r \in Settled, NEW p \in Subtree(r), LegDue(p)
  PROVE  LET q == LegPath(p, terminal[p].hash)
         IN /\ q \in DOMAIN terminal
            /\ terminal[q].hash = terminal[p].hash
            /\ terminal[q].status \in {"text", "failed"}
<1> DEFINE c == terminal[p].hash
           q == LegPath(p, c)
<1>1. /\ r \in visited /\ r \in Roots /\ r \in Seq(Name)
      /\ p \in DOMAIN terminal /\ p \in Seq(Name) /\ (p = r \/ Own(r, p))
  <2>1. r \in visited /\ r \in Roots /\ r \in Seq(Name)
    BY PlaceIs DEF Settled, IInv, TypeOK
  <2>2. p \in DOMAIN terminal /\ p \in Seq(Name) /\ (p = r \/ Own(r, p))
    BY DEF Subtree, Own, IInv, TypeOK
  <2> QED BY <2>1, <2>2
<1>2. /\ Live(p) /\ HasLeg(c) /\ LegOutcome[c] = "text" /\ p[Len(p)] # LegName[Kind[c]]
      /\ ~EverOccupied(p)
  BY DEF LegDue
<1>3. cur # None => p \notin Tree(cur) /\ cur \in Roots
  <2>1. SUFFICES ASSUME cur # None PROVE p \notin Tree(cur) /\ cur \in Roots
    OBVIOUS
  <2>2. cur \in Roots /\ Place(r) < Place(cur)
    BY <1>1, <2>1 DEF IInv, TypeOK, OrderInv
  <2> QED BY <1>1, <2>2, Apart
<1>4. /\ p \in DOMAIN Now /\ Now[p] = terminal[p]
      /\ Bond[p] = IF Stands(terminal[p]) THEN terminal[p].hash ELSE None
  BY <1>1, <1>3, BondOutside
<1>5. terminal[p].status \in Bearing /\ c # None /\ Bond[p] = c /\ c \in Content
  <2>1. terminal[p].status \in Bearing /\ c # None
    BY <1>2, <1>4 DEF Live, Sound, Shapely
  <2>2. terminal[p] \in Record
    BY <1>1 DEF IInv, TypeOK
  <2>3. c \in Content
    BY <2>1, <2>2 DEF Record
  <2> QED BY <1>4, <2>1, <2>3 DEF Stands
<1>6. Owes(Bond, Now, p)
  BY <1>2, <1>4, <1>5 DEF Owes
<1>7. ~Queued(p)
  <2>1. SUFFICES ASSUME Queued(p) PROVE FALSE
    OBVIOUS
  <2>2. agenda # <<>> /\ Head(agenda).op = "leg" /\ Head(agenda).path = p
    BY <2>1 DEF Queued
  <2>3. cur # None
    BY <2>2, IdleIs
  <2>4. p \in Tree(cur)
    <3>1. agenda \in Seq(Task(cur))
      BY TypedAgenda DEF NestInv
    <3>2. Head(agenda) \in Task(cur)
      BY <2>2, <3>1
    <3> QED BY <2>2, <3>2 DEF Task
  <2> QED BY <1>3, <2>3, <2>4
<1>8. Minted(Bond, Now, p)
  BY <1>1, <1>2, <1>6, <1>7 DEF LegsFine
<1>9. q \in Seq(Name) /\ Under(p, q)
      /\ (cur # None /\ q \in Tree(cur) => q = cur \/ p \in Tree(cur))
  <2>1. cur # None => cur \in Seq(Name)
    BY <1>3, PlaceIs
  <2> QED BY <1>1, <1>2, <1>5, <2>1, ChildIs
<1> HIDE DEF q, c
<1>10. cur # None => q \notin Tree(cur)
  <2>1. SUFFICES ASSUME cur # None, q = cur PROVE FALSE
    BY <1>3, <1>9
  <2>2. EverOccupied(p)
    BY <1>3, <1>9, <2>1 DEF EverOccupied, Walking
  <2> QED BY <1>2, <2>2
<1>11. /\ q \in DOMAIN Now <=> q \in DOMAIN terminal
       /\ q \in DOMAIN terminal => Now[q] = terminal[q]
       /\ Bond[q] = IF q \in DOMAIN terminal /\ Stands(terminal[q]) THEN terminal[q].hash ELSE None
  BY <1>9, <1>10, BondOutside
<1>12. q \in DOMAIN Now /\ Bond[q] = c /\ Now[q].status \in {"text", "failed"}
  BY <1>5, <1>8 DEF Minted, q
<1>13. terminal[q].hash = c
  BY <1>5, <1>11, <1>12
<1> QED BY <1>11, <1>12, <1>13 DEF q, c

-----------------------------------------------------------------------------
(* What the containers owe *)

\* Once the expansion is over, q holds the content c on record, live or not.
Sure(q, c) ==
  \/ Closing(agenda, q, c)
  \/ /\ ~Due(agenda, q) /\ q \notin Lost(agenda, claim, held, cur)
     /\ q \in DOMAIN Now /\ Now[q].hash = c

\* The container at p is open and within its budget.
Uncapped(a, p) == \E i \in 1..Len(a) : a[i].op = "close" /\ a[i].path = p /\ ~a[i].capped

\* It is, or will be, live with the content of its bond.
Keeps(p) ==
  /\ Bond[p] \in Content
  /\ IF Due(agenda, p) THEN Uncapped(agenda, p)
     ELSE p \in DOMAIN Now /\ Now[p].status \in Bearing

\* The content c at p admits a member at q with the content d, and no file of
\* the division is in the way.
Claims(p, c, q, d) ==
  \E i \in DOMAIN Members[c] : /\ Admitted(c, i) /\ ~Crossed(p, q)
                               /\ q = p \o Members[c][i].name /\ d = Members[c][i].content

\* The k-th task will put c at q for the container at p: no earlier task
\* claims its key.
Brings(a, cl, k, p, q, c) ==
  /\ Fresh(cl, a[k]) /\ Spot(a[k]) = q /\ What(a[k]) = c
  /\ a[k].op = "member" => a[k].path = p
  /\ \A j \in 1..(k - 1) : Fresh(cl, a[j]) => KeyOf(Spot(a[j])) # KeyOf(q)
ToCome(a, cl, p, q, c) == \E k \in 1..Len(a) : Brings(a, cl, k, p, q, c)
Awaited(a, cl, q) == \E k \in 1..Len(a) : Fresh(cl, a[k]) /\ Spot(a[k]) = q

\* The content d of the member q of p is on record, or to come.
Served(p, q, d) == \/ ToCome(agenda, claim, p, q, d)
                   \/ Sure(q, d) /\ ~Awaited(agenda, claim, q)

Wants(p, q, d) == Keeps(p) /\ Claims(p, Bond[p], q, d)
MembersFine ==
  \A p, q \in Seq(Name), d \in Content : Wants(p, q, d) => Served(p, q, d)

\* What this expansion has not touched is as an earlier one left it.
OldMembers ==
  claim # None \/ (agenda # <<>> /\ Head(agenda).op = "leg") =>
    \A p \in Below(cur), q \in Seq(Name), d \in Content :
      /\ Untouched(p) /\ Old[p] \in Content
      /\ p \in DOMAIN Now /\ Now[p].status \in Bearing /\ Claims(p, Old[p], q, d)
      => q \in DOMAIN Now /\ Now[q].hash = d

\* No container is borrowed.
NoLoan == /\ \A p \in DOMAIN terminal : terminal[p].status = "borrowed" =>
                                          Kind[terminal[p].hash] # "container"
          /\ held # None /\ held.record.status = "borrowed" => Kind[held.record.hash] # "container"

Filling == MembersFine /\ OldMembers

MembersInv == NoLoan /\ (killed = "never" => Filling)

-----------------------------------------------------------------------------
(* The place of a member *)

LEMMA NamesOfMembers ==
  ASSUME NEW c \in Content
  PROVE  \A i \in DOMAIN Members[c] :
           /\ Members[c][i].name \in Seq(Name) \ {<<>>}
           /\ Members[c][i].content \in Content \cup {Refused}
           /\ Kind[c] = "container"
<1> DEFINE ms == Members[c]
<1>1. ms \in Seq([name : Seq(Name) \ {<<>>}, content : Content \cup {Refused}])
  BY ExpansionAssumption
<1>2. ms # <<>> => Kind[c] = "container"
  BY ExpansionAssumption
<1> HIDE DEF ms
<1>3. SUFFICES ASSUME NEW i \in DOMAIN ms
               PROVE  /\ ms[i].name \in Seq(Name) \ {<<>>}
                      /\ ms[i].content \in Content \cup {Refused}
                      /\ Kind[c] = "container"
  BY DEF ms
<1>4. ms[i] \in [name : Seq(Name) \ {<<>>}, content : Content \cup {Refused}]
  BY <1>1, <1>3, LenProperties, ElementOfSeq
<1>5. ms # <<>>
  BY <1>3
<1> QED BY <1>2, <1>4, <1>5

LEMMA ClaimsIs ==
  ASSUME NEW p \in Seq(Name), NEW c \in Content, NEW q \in Seq(Name), NEW d \in Content,
         Claims(p, c, q, d)
  PROVE  Under(p, q) /\ Kind[c] = "container" /\ ~Crossed(p, q)
<1>1. PICK i \in DOMAIN Members[c] : ~Crossed(p, q) /\ q = p \o Members[c][i].name
  BY DEF Claims
<1>2. p \in Tree(p)
  BY DEF Tree
<1>3. Under(p, q)
  <2>1. Members[c][i].name \in Seq(Name) \ {<<>>}
    BY <1>1, NamesOfMembers
  <2> QED BY <1>1, <1>2, <2>1, Deeper
<1> QED BY <1>1, <1>3, NamesOfMembers

\* A member that is not below p's own part of the walk lies in the tree of an
\* entry only with p.
LEMMA CrossedIs ==
  ASSUME NEW p \in Seq(Name), NEW q \in Seq(Name), Under(p, q), ~Crossed(p, q),
         NEW w \in Roots, q \in Tree(w)
  PROVE  p \in Tree(w) /\ q # w
<1>1. w \in Seq(Name)
  BY PlaceIs
<1>2. ~Under(p, w)
  <2>1. SUFFICES ASSUME Under(p, w) PROVE FALSE
    OBVIOUS
  <2>2. w = q \/ Under(w, q)
    BY DEF Tree
  <2>3. KeyOf(w) = KeyOf(q) \/ Under(KeyOf(w), KeyOf(q))
    BY <1>1, <2>2, KeyBelow
  <2>4. IsPrefix(KeyOf(w), KeyOf(q))
    <3>1. KeyOf(q) \in Seq(Name)
      BY KeysArePaths
    <3>2. IsPrefix(KeyOf(q), KeyOf(q))
      BY <3>1 DEF IsPrefix
    <3> QED BY <2>3, <3>2 DEF Under, IsStrictPrefix
  <2> QED BY <2>1, <2>4 DEF Crossed
<1>3. q # w
  BY <1>2
<1>4. Under(w, q)
  BY <1>3 DEF Tree
<1>5. p = w \/ Under(w, p)
  BY <1>1, <1>2, <1>4, UnderIsOrder, Zenon
<1> QED BY <1>3, <1>5 DEF Tree

\* A container that is no source of a leg owes what is nearest to it.
LEMMA KeeperIs ==
  ASSUME IInv, NestInv, NoLoan, NEW p \in Seq(Name), Keeps(p), Kind[Bond[p]] = "container"
  PROVE  /\ p \notin Exempt /\ Bond[p] \in Content
         /\ ~Due(agenda, p) => /\ p \in DOMAIN Now /\ Now[p].hash = Bond[p] /\ Old[p] = Bond[p]
                               /\ p \notin Lost(agenda, claim, held, cur)
<1>1. Bond[p] \in Content
  BY DEF Keeps
<1>2. ASSUME ~Due(agenda, p)
      PROVE  /\ p \in DOMAIN Now /\ Now[p].hash = Bond[p] /\ Now[p].status \in Bearing
             /\ Old[p] = Bond[p] /\ p \notin Lost(agenda, claim, held, cur)
  <2>1. p \notin Lost(agenda, claim, held, cur) /\ Bond[p] = Old[p]
    BY <1>1, <1>2, BondNow, ExpansionAssumption
  <2>2. p \in DOMAIN Now /\ Now[p].hash = Bond[p]
    BY <1>1, <2>1, HoldingIs, ExpansionAssumption DEF Old
  <2> QED BY <1>2, <2>1, <2>2 DEF Keeps
<1>3. ASSUME p \in Exempt PROVE FALSE
  <2>1. ~Due(agenda, p) /\ p \in LaxIn(Now)
    BY <1>3 DEF Exempt, Lax
  <2>2. ~HasLeg(Bond[p])
    BY DEF HasLeg
  <2>3. Now[p].status = "borrowed"
    BY <1>2, <2>1, <2>2 DEF LaxIn
  <2>4. Kind[Now[p].hash] # "container"
    <3>1. CASE held = None
      BY <1>2, <2>1, <2>3, <3>1 DEF NoLoan, Now, Recorded
    <3>2. CASE held # None
      <4>1. held \in Held
        BY <3>2 DEF IInv, TypeOK
      <4>2. /\ DOMAIN Now = DOMAIN terminal \cup {held.path}
            /\ Now[held.path] = held.record
            /\ \A e \in DOMAIN terminal : e # held.path => Now[e] = terminal[e]
        BY <4>1, RecordedIs DEF Now
      <4>3. CASE p = held.path
        BY <2>3, <3>2, <4>2, <4>3 DEF NoLoan
      <4>4. CASE p # held.path
        <5>1. p \in DOMAIN terminal /\ Now[p] = terminal[p]
          BY <1>2, <2>1, <4>2, <4>4
        <5> QED BY <2>3, <5>1 DEF NoLoan
      <4> QED BY <4>3, <4>4
    <3> QED BY <3>1, <3>2
  <2> QED BY <1>2, <2>1, <2>4
<1> QED BY <1>1, <1>2, <1>3

\* The bond knows nothing between a container and what it claims.
LEMMA Gap ==
  ASSUME Separate, IInv, NestInv, Sound, NoLoan, NEW p \in Seq(Name),
         NEW q \in Seq(Name), NEW d \in Content, Keeps(p), Claims(p, Bond[p], q, d),
         NEW y \in Seq(Name), Bond[y] # None, Under(p, y)
  PROVE  ~Under(y, q)
<1> DEFINE c == Bond[p]
           ms == Members[c]
           Far == {Len(x) : x \in {x \in Seq(Name) : Bond[x] # None /\ Under(p, x) /\ Under(x, q)}}
<1>1. c \in Content
  BY DEF Keeps
<1>2. Under(p, q) /\ Kind[c] = "container" /\ ~Crossed(p, q)
  <2>1. Claims(p, c, q, d)
    OBVIOUS
  <2> HIDE DEF c
  <2> QED BY <1>1, <2>1, ClaimsIs
<1>3. PICK i \in DOMAIN ms : q = p \o ms[i].name /\ ms[i].name \in Seq(Name) \ {<<>>}
  <2>1. PICK i \in DOMAIN ms : q = p \o ms[i].name
    BY DEF Claims
  <2> QED BY <1>1, <2>1, NamesOfMembers
<1>4. SUFFICES ASSUME Under(y, q) PROVE FALSE
  OBVIOUS
<1>5. PICK x \in Seq(Name) : /\ Bond[x] # None /\ Under(p, x) /\ Under(x, q)
                             /\ \A n \in Seq(Name) : Bond[n] # None /\ Under(p, n) /\ Under(n, q)
                                                     => Len(x) <= Len(n)
  <2>1. Far \in SUBSET Nat /\ Far # {}
    <3>1. Len(y) \in Far
      BY <1>4
    <3>2. \A x \in Seq(Name) : Len(x) \in Nat
      BY LenProperties
    <3> QED BY <3>1, <3>2
  <2>2. PICK k \in Far : \A l \in Far : k <= l
    <3> HIDE DEF Far
    <3> QED BY <2>1, LeastNumber
  <2> QED BY <2>2
<1> HIDE DEF Far
<1>6. ASSUME NEW w \in Roots, Under(p, w), w = q \/ Under(w, q) PROVE FALSE
  <2>1. w \in Seq(Name) /\ q \in Tree(w)
    BY <1>2, <1>6, PlaceIs DEF Tree
  <2>2. p \in Tree(w)
    BY <1>2, <2>1, CrossedIs
  <2> QED BY <1>6, <2>1, <2>2, UnderIsOrder, Zenon DEF Tree
<1>7. Nearest(Bond, p, x)
  <2>1. ASSUME NEW n \in Seq(Name), Under(p, n), Under(n, x) PROVE n \notin Roots /\ Bond[n] = None
    <3>1. Under(n, q)
      BY <1>2, <1>5, <2>1, UnderIsOrder, Zenon
    <3>2. Len(n) < Len(x) /\ Len(n) \in Nat /\ Len(x) \in Nat
      BY <2>1, UnderIs
    <3>3. ~(Len(x) <= Len(n))
      BY <3>2
    <3> QED BY <1>5, <1>6, <2>1, <3>1, <3>3
  <2> QED BY <1>5, <2>1 DEF Nearest
<1>8. x \notin Roots
  BY <1>5, <1>6
<1>9. HoldsAt(c, p, x, Bond[x])
  <2>1. p \notin Exempt
    BY <1>2, KeeperIs
  <2>2. Fine(Bond, Exempt, x)
    BY <1>5 DEF Sound, BondFine
  <2>3. c # None
    BY <1>1, ExpansionAssumption
  <2> QED BY <1>7, <1>8, <2>1, <2>2, <2>3 DEF Fine
<1>10. PICK j \in DOMAIN ms : x = p \o ms[j].name
  <2>1. ~HasLeg(c)
    BY <1>2 DEF HasLeg
  <2> QED BY <1>9, <2>1 DEF HoldsAt
<1>11. ms[j].name \in Seq(Name)
  <2>1. ms \in Seq([name : Seq(Name) \ {<<>>}, content : Content \cup {Refused}])
    BY <1>1, ExpansionAssumption
  <2> HIDE DEF ms
  <2>2. ms[j] \in [name : Seq(Name) \ {<<>>}, content : Content \cup {Refused}]
    BY <2>1, <1>10, LenProperties, ElementOfSeq
  <2> QED BY <2>2
<1>12. i # j
  <2>1. i = j => x = q
    BY <1>3, <1>10
  <2> QED BY <1>2, <1>5, <2>1, UnderIsOrder
<1>13. IsStrictPrefix(KeyOf(ms[j].name), KeyOf(ms[i].name))
  BY <1>3, <1>5, <1>10, <1>11, Siblings
<1> QED BY <1>1, <1>12, <1>13 DEF Separate

-----------------------------------------------------------------------------
(* What stays on record, and what stays to come *)

LEMMA NestedSure ==
  ASSUME IInv, NestInv, IInv', NestInv', AtTask, Works, claim # None, claim' # None,
         NEW q \in Seq(Name), NEW d, Sure(q, d),
         \A c : Closing(agenda', q, c) <=> Closing(agenda, q, c),
         q \in Emit' <=> q \in Emit, held' = None \/ q # held'.path
  PROVE  Sure(q, d)'
<1>1. /\ Lost(agenda, claim, held, cur) = Below(cur) \ Emit
      /\ Lost(agenda', claim', held', cur') = Below(cur') \ Emit' /\ cur' = cur
  BY BondNow, BondNext DEF Works
<1>2. /\ q \in DOMAIN Now' <=> q \in DOMAIN Now
      /\ q \in DOMAIN Now => Now'[q] = Now[q]
  BY NowAfter
<1>3. Due(agenda', q) <=> Due(agenda, q)
  BY DueIs, Zenon
<1>4. CASE Closing(agenda, q, d)
  BY <1>4 DEF Sure
<1>5. CASE ~Closing(agenda, q, d)
  <2>1. /\ ~Due(agenda, q) /\ q \notin Lost(agenda, claim, held, cur)
        /\ q \in DOMAIN Now /\ Now[q].hash = d
    BY <1>5 DEF Sure
  <2>2. q \notin Lost(agenda', claim', held', cur')
    BY <1>1, <2>1
  <2> QED BY <1>2, <1>3, <2>1, <2>2 DEF Sure
<1> QED BY <1>4, <1>5

\* The record in hand is sure.
LEMMA WrittenSure ==
  ASSUME IInv, IInv', NestInv', AtTask, Works, claim' # None, held' # None,
         NEW q \in Seq(Name), held'.path = q, ~Due(agenda', q)
  PROVE  \A d : held'.record.hash = d => Sure(q, d)'
<1>1. q \in DOMAIN Now' /\ Now'[q] = held'.record /\ q \in Tree(cur)
  BY NowAfter
<1>2. cur \in Seq(Name) /\ cur' = cur
  BY PlaceIs DEF Works
<1>3. Lost(agenda', claim', held', cur') = Below(cur) \ Emit'
  BY <1>2, BondNext
<1>4. q \in Below(cur) => q \in Emit'
  BY EmitAfter
<1> QED BY <1>1, <1>3, <1>4 DEF Sure

LEMMA Unsure ==
  ASSUME IInv, NestInv, claim # None, NEW q \in Below(cur), q \notin Emit, ~Due(agenda, q)
  PROVE  \A d : ~Sure(q, d)
<1>1. q \in Seq(Name)
  BY DEF Below
<1>2. q \in Lost(agenda, claim, held, cur)
  BY <1>1, BondNow
<1>3. \A d : ~Closing(agenda, q, d)
  BY DueIs
<1> QED BY <1>2, <1>3 DEF Sure

LEMMA NestedKeeps ==
  ASSUME IInv, NestInv, IInv', NestInv', AtTask, Works, claim # None, claim' # None,
         NEW p \in Seq(Name), Keeps(p)',
         \A c : Closing(agenda', p, c) <=> Closing(agenda, p, c),
         Uncapped(agenda', p) => Uncapped(agenda, p),
         p \in Emit' <=> p \in Emit, held' = None \/ p # held'.path
  PROVE  Keeps(p) /\ Bond'[p] = Bond[p]
<1>1. Bond'[p] = Bond[p] /\ (Due(agenda, p) <=> Due(agenda', p))
  BY NestedBond
<1>2. /\ p \in DOMAIN Now' <=> p \in DOMAIN Now
      /\ p \in DOMAIN Now => Now'[p] = Now[p]
  BY NowAfter
<1> QED BY <1>1, <1>2 DEF Keeps

\* A task that is still there after n others finds its key as it was.
LEMMA ComesLater ==
  ASSUME NEW a, NEW m, NEW b, NEW n, EndAlike(a, m, b, n), NEW cl, NEW ce,
         NEW p, NEW q, NEW d, NEW k \in 1..Len(a), m < k, Brings(a, cl, k, p, q, d),
         KeyOf(q) \notin ce.claimed, \A x : x \in cl.claimed => x \in ce.claimed,
         \A j \in 1..n : Fresh(ce, b[j]) => KeyOf(Spot(b[j])) # KeyOf(q)
  PROVE  ToCome(b, ce, p, q, d)
<1> DEFINE i == n + (k - m)
<1>1. /\ Len(a) \in Nat /\ Len(b) \in Nat /\ m \in 0..Len(a) /\ n \in 0..Len(b)
      /\ Len(a) - m = Len(b) - n
      /\ \A l \in 1..Len(a) - m : Same(a[m + l], b[n + l])
  BY DEF EndAlike
<1>2. i \in 1..Len(b) /\ k \in Nat
  BY <1>1
<1>3. ASSUME NEW l \in 1..Len(a), m < l PROVE Same(a[l], b[n + (l - m)])
  <2>1. l - m \in 1..Len(a) - m /\ m + (l - m) = l
    BY <1>1, <1>3
  <2>2. Same(a[m + (l - m)], b[n + (l - m)])
    BY <1>1, <2>1
  <2> QED BY <2>1, <2>2
<1>4. ASSUME NEW j \in 1..(i - 1), Fresh(ce, b[j]) PROVE KeyOf(Spot(b[j])) # KeyOf(q)
  <2>1. CASE j <= n
    <3>1. j \in 1..n
      BY <1>1, <1>2, <2>1
    <3> QED BY <1>4, <3>1
  <2>2. CASE n < j
    <3> DEFINE l == m + (j - n)
    <3>1. l \in 1..Len(a) /\ m < l /\ l \in 1..(k - 1) /\ n + (l - m) = j
      BY <1>1, <1>2, <1>4, <2>2
    <3> HIDE DEF l
    <3>2. Same(a[l], b[j])
      BY <1>3, <3>1
    <3>3. a[l] = b[j]
      <4>1. b[j].op # "close"
        BY <1>4 DEF Fresh
      <4> QED BY <3>2, <4>1, AlikeIs
    <3>4. Fresh(cl, a[l])
      BY <1>4, <3>3 DEF Fresh
    <3> QED BY <3>1, <3>3, <3>4 DEF Brings
  <2> QED BY <1>1, <1>2, <2>1, <2>2
<1>5. b[i] = a[k]
  <2>1. Same(a[k], b[i])
    BY <1>3
  <2>2. a[k].op # "close"
    BY DEF Brings, Fresh
  <2> HIDE DEF i
  <2>3. b[i].op # "close"
    BY <2>1, <2>2, AlikeIs
  <2> QED BY <2>1, <2>3, AlikeIs
<1>6. Fresh(ce, b[i])
  BY <1>5 DEF Brings, Fresh
<1> HIDE DEF i
<1>7. Brings(b, ce, i, p, q, d)
  BY <1>4, <1>5, <1>6 DEF Brings
<1> QED BY <1>2, <1>7 DEF ToCome

LEMMA AwaitedLater ==
  ASSUME NEW a, NEW m, NEW b, NEW n, EndAlike(a, m, b, n), NEW cl, NEW ce,
         \A x : x \in cl.claimed => x \in ce.claimed, NEW q, ~Awaited(a, cl, q),
         \A j \in 1..n : Fresh(ce, b[j]) => Spot(b[j]) # q
  PROVE  ~Awaited(b, ce, q)
<1>1. /\ Len(a) \in Nat /\ Len(b) \in Nat /\ m \in 0..Len(a) /\ n \in 0..Len(b)
      /\ Len(a) - m = Len(b) - n
      /\ \A l \in 1..Len(a) - m : Same(a[m + l], b[n + l])
  BY DEF EndAlike
<1>2. SUFFICES ASSUME NEW j \in 1..Len(b), Fresh(ce, b[j]), Spot(b[j]) = q PROVE FALSE
  BY DEF Awaited
<1>3. ~(j <= n)
  BY <1>1, <1>2
<1> DEFINE l == j - n
<1>4. l \in 1..Len(a) - m /\ n + l = j /\ m + l \in 1..Len(a)
  BY <1>1, <1>3
<1> HIDE DEF l
<1>5. Same(a[m + l], b[j])
  BY <1>1, <1>4
<1>6. a[m + l] = b[j]
  <2>1. b[j].op # "close"
    BY <1>2 DEF Fresh
  <2> QED BY <1>5, <2>1, AlikeIs
<1>7. Fresh(cl, a[m + l])
  BY <1>2, <1>6 DEF Fresh
<1> QED BY <1>2, <1>4, <1>6, <1>7 DEF Awaited

-----------------------------------------------------------------------------
(* Steps under the claim *)

\* A step that changes the bond and the records within X only.
LEMMA NestedMembers ==
  ASSUME IInv, NestInv, IInv', NestInv', AtTask, Works, claim # None, claim' # None, MembersFine,
         NEW X, held' # None => held'.path \in X,
         \A p \in Seq(Name) : p \notin X => /\ \A c : Closing(agenda', p, c) <=> Closing(agenda, p, c)
                                            /\ p \in Emit' <=> p \in Emit
                                            /\ Uncapped(agenda', p) => Uncapped(agenda, p),
         \A p, q \in Seq(Name), d \in Content : p \in X /\ Wants(p, q, d)' => Served(p, q, d)',
         \A p, q \in Seq(Name), d \in Content :
           p \notin X /\ Wants(p, q, d) /\ Keeps(p)' /\ ToCome(agenda, claim, p, q, d)
           => Served(p, q, d)',
         \A p, q \in Seq(Name), d \in Content :
           q \in X /\ Wants(p, q, d) /\ Sure(q, d) /\ ~Awaited(agenda, claim, q) => Sure(q, d)',
         \A q \in Seq(Name), d \in Content :
           Sure(q, d) /\ ~Awaited(agenda, claim, q) => ~Awaited(agenda', claim', q)
  PROVE  MembersFine'
<1>1. SUFFICES ASSUME NEW p \in Seq(Name), NEW q \in Seq(Name), NEW d \in Content, Wants(p, q, d)'
               PROVE  Served(p, q, d)'
  BY DEF MembersFine
<1>2. CASE p \in X
  BY <1>1, <1>2
<1>3. CASE p \notin X
  <2>1. Keeps(p) /\ Bond'[p] = Bond[p] /\ Keeps(p)'
    <3>1. Keeps(p)'
      BY <1>1 DEF Wants
    <3>2. held' = None \/ p # held'.path
      BY <1>3
    <3> QED BY <1>3, <3>1, <3>2, NestedKeeps
  <2>2. Wants(p, q, d)
    BY <1>1, <2>1 DEF Wants
  <2>3. Served(p, q, d)
    BY <2>2 DEF MembersFine
  <2>4. CASE ToCome(agenda, claim, p, q, d)
    BY <1>3, <2>1, <2>2, <2>4
  <2>5. CASE Sure(q, d) /\ ~Awaited(agenda, claim, q)
    <3>1. ~Awaited(agenda', claim', q)
      BY <2>5
    <3>2. Sure(q, d)'
      <4>1. CASE q \in X
        BY <2>2, <2>5, <4>1
      <4>2. CASE q \notin X
        <5>1. held' = None \/ q # held'.path
          BY <4>2
        <5> QED BY <2>5, <4>2, <5>1, NestedSure
      <4> QED BY <4>1, <4>2
    <3> QED BY <3>1, <3>2 DEF Served
  <2> QED BY <2>3, <2>4, <2>5 DEF Served
<1> QED BY <1>2, <1>3

LEMMA OldMembersStay ==
  ASSUME IInv, IInv', AtTask, Works, OldMembers, claim # None \/ Head(agenda).op = "leg",
         claim' # None, claim # None => \A q \in claim.emitted : q \in claim'.emitted
  PROVE  OldMembers'
<1>1. cur' = cur /\ cur \in Seq(Name)
  BY TaskAt DEF Works
<1>2. /\ \A p \in Emit : p \in Emit'
      /\ \A p \in Below(cur) : held' # None /\ p = held'.path => p \in Emit'
  BY EmitAfter
<1>3. SUFFICES ASSUME NEW p \in Below(cur), NEW q \in Seq(Name), NEW d \in Content,
                      \A e \in Emit' : e \notin Tree(p), Old'[p] \in Content,
                      p \in DOMAIN Now', Now'[p].status \in Bearing, Claims(p, Old'[p], q, d)
               PROVE  q \in DOMAIN Now' /\ Now'[q].hash = d
  BY <1>1 DEF OldMembers, Untouched
<1>4. p \in Seq(Name) /\ Under(cur, p) /\ p \in Tree(p)
  BY <1>3 DEF Below, Tree
<1>5. \A e \in Tree(p) : e \in Seq(Name) /\ e \in Below(cur)
  BY <1>1, <1>4, UnderIsOrder, Zenon DEF Tree, Below
<1>6. \A e \in Tree(p) : held' = None \/ e # held'.path
  BY <1>2, <1>3, <1>5
<1>7. \A e \in Tree(p) : /\ Old'[e] = Old[e]
                         /\ e \in DOMAIN Now' <=> e \in DOMAIN Now
                         /\ e \in DOMAIN Now => Now'[e] = Now[e]
  BY <1>5, <1>6, NowAfter
<1>8. q \in Tree(p)
  BY <1>3, <1>4, ClaimsIs DEF Tree
<1>9. Untouched(p)
  BY <1>2, <1>3 DEF Untouched
<1>10. q \in DOMAIN Now /\ Now[q].hash = d
  BY <1>3, <1>4, <1>7, <1>9 DEF OldMembers, AtTask
<1> QED BY <1>7, <1>8, <1>10

LEMMA TopAgenda ==
  ASSUME IInv, AtTask, claim = None
  PROVE  /\ Len(agenda) = 1 /\ agenda[1] = Head(agenda)
         /\ Head(agenda).op = "unit" => Head(agenda).path = cur
         /\ Head(agenda).op # "unit" =>
              \A cl, q : ~Awaited(agenda, cl, q) /\ \A p, d : ~ToCome(agenda, cl, p, q, d)
         /\ \A cl, q : q # cur =>
              ~Awaited(agenda, cl, q) /\ \A p, d : ~ToCome(agenda, cl, p, q, d)
<1>1. Formed(agenda, FALSE, cur) /\ agenda # <<>>
  BY DEF IInv, AgendaInv, AtTask
<1>2. /\ Len(agenda) = 1 /\ Head(agenda).op \in {"unit", "leg", "retire"}
      /\ agenda[1] = Head(agenda)
  BY <1>1, AloneIs, FirstOf
<1>3. Head(agenda).op = "unit" => Head(agenda).path = cur
  BY <1>1 DEF IInv, AgendaInv
<1>4. \A k \in 1..Len(agenda) : agenda[k] = Head(agenda)
  BY <1>2
<1>5. ASSUME NEW cl, NEW q, NEW k \in 1..Len(agenda), Fresh(cl, agenda[k]), Spot(agenda[k]) = q
      PROVE  q = cur /\ Head(agenda).op = "unit"
  <2>1. Head(agenda).op = "unit"
    BY <1>2, <1>4, <1>5 DEF Fresh
  <2> QED BY <1>3, <1>4, <1>5, <2>1 DEF Spot
<1> QED BY <1>2, <1>3, <1>5 DEF Awaited, ToCome, Brings

\* An expansion starts over a tree in which every member has its record.
LEMMA OldMembersStart ==
  ASSUME IInv, NestInv, IInv', AtTask, Works, MembersFine, claim = None, Head(agenda).op = "unit",
         held' # None => held'.path = cur
  PROVE  OldMembers'
<1>1. cur' = cur /\ cur \in Seq(Name)
  BY TaskAt DEF Works
<1>2. SUFFICES ASSUME NEW p \in Below(cur), NEW q \in Seq(Name), NEW d \in Content,
                      Old'[p] \in Content, p \in DOMAIN Now', Now'[p].status \in Bearing,
                      Claims(p, Old'[p], q, d)
               PROVE  q \in DOMAIN Now' /\ Now'[q].hash = d
  BY <1>1 DEF OldMembers
<1>3. p \in Seq(Name) /\ Under(cur, p) /\ p \in Tree(p)
  BY <1>2 DEF Below, Tree
<1>4. \A e \in Tree(p) : e \in Seq(Name) /\ e # cur
  BY <1>1, <1>3, UnderIsOrder, Zenon DEF Tree
<1>5. \A e \in Tree(p) : /\ Old'[e] = Bond[e]
                         /\ e \in DOMAIN Now' <=> e \in DOMAIN Now
                         /\ e \in DOMAIN Now => Now'[e] = Now[e]
  BY <1>4, TopBond, NowAfter
<1>6. q \in Tree(p)
  BY <1>2, <1>3, ClaimsIs DEF Tree
<1>7. Keeps(p) /\ Wants(p, q, d)
  <2>1. ~Due(agenda, p)
    BY TopBond, DueIs
  <2> QED BY <1>2, <1>3, <1>5, <2>1 DEF Keeps, Wants
<1>8. ~ToCome(agenda, claim, p, q, d)
  <2>1. q # cur
    BY <1>4, <1>6
  <2> QED BY <2>1, TopAgenda
<1>9. q \in DOMAIN Now /\ Now[q].hash = d
  <2>1. Sure(q, d)
    BY <1>3, <1>7, <1>8 DEF MembersFine, Served
  <2>2. ~Closing(agenda, q, d)
    BY TopBond
  <2> QED BY <2>1, <2>2 DEF Sure
<1> QED BY <1>5, <1>6, <1>9

-----------------------------------------------------------------------------
(* Units under the claim *)

\* What comes after a unit lies apart from it.
LEMMA UnitAwaits ==
  ASSUME IInv, NestInv, Sound, AtTask, claim # None, Head(agenda).op = "unit",
         NEW b, NEW n, EndAlike(agenda, 1, b, n), NEW ce,
         \A k : k \in claim.claimed => k \in ce.claimed,
         \A j \in 1..n : Fresh(ce, b[j]) => ~Comparable(Head(agenda).path, Spot(b[j])),
         NEW q, Comparable(Head(agenda).path, q)
  PROVE  ~Awaited(b, ce, q)
<1> DEFINE x == Head(agenda).path
           N == {}
<1>1. /\ Bare(Rest)
      /\ \A k \in 1..Len(Rest) : Pending(ce, Rest[k]) => ~Comparable(x, Spot(Rest[k]))
  <2>1. \A e \in N : e \in Emit \cup Shut(agenda) \/ e \in Tree(x)
    OBVIOUS
  <2> HIDE DEF N
  <2> QED BY <2>1, UnitTasks
<1>2. /\ Len(agenda) \in Nat \ {0} /\ Len(Rest) = Len(agenda) - 1
      /\ \A i \in 1..Len(agenda) - 1 : Rest[i] = agenda[i + 1]
  BY RestAlike DEF Rest
<1>3. /\ Len(b) \in Nat /\ n \in 0..Len(b) /\ Len(agenda) - 1 = Len(b) - n
      /\ \A l \in 1..Len(agenda) - 1 : Same(agenda[1 + l], b[n + l])
  BY DEF EndAlike
<1> HIDE DEF x, N
<1>4. SUFFICES ASSUME NEW j \in 1..Len(b), Fresh(ce, b[j]), Spot(b[j]) = q PROVE FALSE
  BY DEF Awaited
<1>5. ~(j <= n)
  <2>1. j <= n => j \in 1..n
    BY <1>3
  <2> QED BY <1>4, <2>1 DEF x
<1> DEFINE l == j - n
<1>6. l \in 1..Len(agenda) - 1 /\ n + l = j /\ l \in 1..Len(Rest) /\ 1 + l = l + 1
  BY <1>2, <1>3, <1>5
<1> HIDE DEF l
<1>7. Same(Rest[l], b[j])
  BY <1>2, <1>3, <1>6
<1>8. Rest[l] = b[j]
  <2>1. b[j].op # "close"
    BY <1>4 DEF Fresh
  <2> QED BY <1>7, <2>1, AlikeIs
<1>9. Pending(ce, Rest[l])
  BY <1>1, <1>4, <1>6, <1>8 DEF Fresh, Pending, Spent
<1> QED BY <1>1, <1>4, <1>6, <1>8, <1>9 DEF x

\* Nor does the unit claim the key of anything that comes after it.
LEMMA UnitFrees ==
  ASSUME IInv, NestInv, Sound, KeysInv, AtTask, claim # None, Head(agenda).op = "unit",
         NEW p, NEW q, NEW d, NEW k \in 1..Len(agenda), 1 < k, Brings(agenda, claim, k, p, q, d)
  PROVE  /\ KeyOf(q) \notin claim.claimed
         /\ ~Under(KeyOf(Head(agenda).path), KeyOf(q))
<1> DEFINE N == {}
<1>1. Bare(Rest)
  <2>1. \A e \in N : e \in Emit \cup Shut(agenda) \/ e \in Tree(Head(agenda).path)
    OBVIOUS
  <2> HIDE DEF N
  <2> QED BY <2>1, UnitTasks
<1>2. /\ Len(agenda) \in Nat \ {0} /\ Len(Rest) = Len(agenda) - 1
      /\ \A i \in 1..Len(agenda) - 1 : Rest[i] = agenda[i + 1]
  BY RestAlike DEF Rest
<1>3. k - 1 \in 1..Len(Rest) /\ Rest[k - 1] = agenda[k]
  BY <1>2
<1>4. agenda[k].op # "unit"
  BY <1>1, <1>3 DEF Bare
<1>5. KeyOf(q) \notin claim.claimed
  BY <1>4 DEF Brings, Fresh
<1>6. KeyOf(q) \in Coming(agenda, claim)
  BY DEF Brings, Coming
<1>7. KeyOf(Head(agenda).path) \in Coming(agenda, claim)
  BY HeadComing DEF Fresh, Spot
<1> QED BY <1>5, <1>6, <1>7 DEF KeysInv, Ahead

\* A unit whose record is put in place.
LEMMA UnitMembers ==
  ASSUME IInv, IInv', NestInv, NestInv', Sound, KeysInv, MembersFine, AtTask, Works,
         claim # None, claim' # None, Head(agenda).op = "unit",
         NEW x \in Seq(Name), x = Head(agenda).path,
         held' # None, held'.path = x, held'.record.hash = Head(agenda).content,
         NEW n, EndAlike(agenda, 1, agenda', n), \A j \in 1..n : ~Fresh(claim', agenda'[j]),
         \A p, c : Closing(agenda', p, c) <=> Closing(agenda, p, c),
         \A p : Uncapped(agenda', p) => Uncapped(agenda, p),
         \A k : k \in claim.claimed => k \in claim'.claimed,
         \A k : k \in claim'.claimed => k \in claim.claimed \/ Under(KeyOf(x), k),
         NEW X, x \in X, \A p \in X : p \in Tree(x),
         \A p \in Seq(Name) : p \notin X => (p \in Emit' <=> p \in Emit),
         \A p, q \in Seq(Name), d \in Content : p \in X /\ Wants(p, q, d)' => Served(p, q, d)'
  PROVE  MembersFine'
<1>1. \A e \in Tree(x) : /\ e \in Seq(Name) /\ e \in Below(cur) /\ e \notin Emit /\ ~Due(agenda, e)
  BY UnitTree
<1>2. \A q \in Tree(x) : \A d : ~Sure(q, d)
  BY <1>1, Unsure
<1>3. ASSUME NEW q, Comparable(x, q) PROVE ~Awaited(agenda', claim', q)
  BY <1>3, UnitAwaits
<1>4. ASSUME NEW p \in Seq(Name), NEW q \in Seq(Name), NEW d \in Content,
             ToCome(agenda, claim, p, q, d)
      PROVE  Served(p, q, d)'
  <2>1. PICK k \in 1..Len(agenda) : Brings(agenda, claim, k, p, q, d)
    BY <1>4 DEF ToCome
  <2>2. Len(agenda) \in Nat \ {0} /\ agenda[1] = Head(agenda)
    BY RestAlike
  <2>3. CASE k = 1
    <3>1. q = x /\ d = Head(agenda).content
      BY <2>1, <2>2, <2>3 DEF Brings, Spot, What
    <3>2. ~Due(agenda', q)
      <4>1. ~Due(agenda, x)
        BY <1>1 DEF Tree
      <4> QED BY <3>1, <4>1, DueIs, Zenon
    <3>3. Sure(q, d)'
      BY <3>1, <3>2, WrittenSure
    <3>4. ~Awaited(agenda', claim', q)
      BY <1>3, <3>1 DEF Comparable
    <3> QED BY <3>3, <3>4 DEF Served
  <2>4. CASE 1 < k
    <3>1. KeyOf(q) \notin claim'.claimed
      BY <2>1, <2>4, UnitFrees
    <3>2. ToCome(agenda', claim', p, q, d)
      BY <2>1, <2>4, <3>1, ComesLater
    <3> QED BY <3>2 DEF Served
  <2> QED BY <2>2, <2>3, <2>4
<1>5. ASSUME NEW q \in Seq(Name), NEW d \in Content, Sure(q, d), ~Awaited(agenda, claim, q)
      PROVE  ~Awaited(agenda', claim', q)
  BY <1>5, AwaitedLater
<1>6. /\ held' # None => held'.path \in X
      /\ \A p \in Seq(Name) : p \notin X => /\ \A c : Closing(agenda', p, c) <=> Closing(agenda, p, c)
                                            /\ p \in Emit' <=> p \in Emit
                                            /\ Uncapped(agenda', p) => Uncapped(agenda, p)
  OBVIOUS
<1>7. \A p, q \in Seq(Name), d \in Content : q \in X /\ Sure(q, d) => FALSE
  BY <1>2
<1> QED BY <1>4, <1>5, <1>6, <1>7, NestedMembers

\* Taking tasks off, or putting tasks in front, opens no container.
LEMMA UncappedRest ==
  ASSUME IInv, AtTask
  PROVE  \A p : Uncapped(Rest, p) => Uncapped(agenda, p)
<1>1. /\ Len(agenda) \in Nat \ {0} /\ Len(Rest) = Len(agenda) - 1
      /\ \A i \in 1..Len(agenda) - 1 : Rest[i] = agenda[i + 1]
  BY RestAlike DEF Rest
<1> SUFFICES ASSUME NEW p, Uncapped(Rest, p) PROVE Uncapped(agenda, p)
  OBVIOUS
<1>2. PICK i \in 1..Len(Rest) : Rest[i].op = "close" /\ Rest[i].path = p /\ ~Rest[i].capped
  BY DEF Uncapped
<1>3. i + 1 \in 1..Len(agenda) /\ agenda[i + 1] = Rest[i]
  BY <1>1
<1> QED BY <1>2, <1>3 DEF Uncapped

LEMMA PushedAlike ==
  ASSUME IInv, AtTask, NEW t \in Task(cur)
  PROVE  LET b == <<t>> \o Rest
         IN /\ EndAlike(agenda, 1, b, 1) /\ b[1] = t
            /\ \A k \in 1..Len(b) : k = 1 \/ \E i \in 1..Len(Rest) : k = 1 + i /\ b[k] = Rest[i]
            /\ t.op # "close" => \A p : Uncapped(b, p) => Uncapped(agenda, p)
<1> DEFINE b == <<t>> \o Rest
<1>1. /\ EndAlike(agenda, 1, Rest, 0) /\ Rest \in Seq(Task(cur)) /\ Len(agenda) \in Nat \ {0}
      /\ Len(Rest) = Len(agenda) - 1 /\ Len(Rest) \in Nat
  BY RestAlike DEF Rest
<1>2. /\ Len(b) = 1 + Len(Rest) /\ b[1] = t
      /\ \A i \in 1..Len(Rest) : 1 + i \in 1..Len(b) /\ b[1 + i] = Rest[i]
      /\ \A k \in 1..Len(b) : k = 1 \/ \E i \in 1..Len(Rest) : k = 1 + i
  <2>1. <<t>> \in Seq(Task(cur)) /\ Len(<<t>>) = 1 /\ <<t>>[1] = t /\ 1..1 = {1}
    OBVIOUS
  <2>2. /\ Len(<<t>>) \in Nat /\ Len(Rest) \in Nat /\ Len(b) = Len(<<t>>) + Len(Rest)
        /\ \A i \in 1..Len(<<t>>) : i \in 1..Len(b) /\ b[i] = <<t>>[i]
        /\ \A i \in 1..Len(Rest) : Len(<<t>>) + i \in 1..Len(b) /\ b[Len(<<t>>) + i] = Rest[i]
        /\ \A k \in 1..Len(b) : k \in 1..Len(<<t>>) \/ \E i \in 1..Len(Rest) : k = Len(<<t>>) + i
    BY <1>1, <2>1, ConcatIs
  <2> HIDE DEF b
  <2> QED BY <2>1, <2>2
<1> HIDE DEF b
<1>3. EndAlike(agenda, 1, b, 1)
  <2>1. ASSUME NEW k \in 1..Len(agenda) - 1 PROVE Same(agenda[1 + k], b[1 + k])
    <3>1. Same(agenda[1 + k], Rest[0 + k]) /\ k \in 1..Len(Rest) /\ 0 + k = k
      BY <1>1, <2>1 DEF EndAlike
    <3> QED BY <1>2, <3>1
  <2> QED BY <1>1, <1>2, <2>1 DEF EndAlike
<1>4. \A k \in 1..Len(b) : k = 1 \/ \E i \in 1..Len(Rest) : k = 1 + i /\ b[k] = Rest[i]
  BY <1>2
<1>5. ASSUME t.op # "close", NEW p, Uncapped(b, p) PROVE Uncapped(agenda, p)
  <2>1. PICK k \in 1..Len(b) : b[k].op = "close" /\ b[k].path = p /\ ~b[k].capped
    BY <1>5 DEF Uncapped
  <2>2. PICK i \in 1..Len(Rest) : b[k] = Rest[i]
    BY <1>2, <1>4, <1>5, <2>1
  <2>3. Uncapped(Rest, p)
    BY <2>1, <2>2 DEF Uncapped
  <2> QED BY <2>3, UncappedRest
<1> QED BY <1>2, <1>3, <1>4, <1>5 DEF b

\* A unit that leaves a record of its own: no container is live by it.
LEMMA UnitDone ==
  ASSUME IInv, IInv', NestInv, NestInv', Sound, KeysInv, Filling, AtTask, Works,
         claim # None, claim' # None, Head(agenda).op = "unit", Head(agenda).content \in Content,
         held' # None, held'.path = Head(agenda).path, held'.record.hash = Head(agenda).content,
         held'.record.status \in Bearing => Kind[Head(agenda).content] # "container",
         NEW n, EndAlike(agenda, 1, agenda', n), \A j \in 1..n : ~Fresh(claim', agenda'[j]),
         \A p, c : Closing(agenda', p, c) <=> Closing(agenda, p, c),
         \A p : Uncapped(agenda', p) => Uncapped(agenda, p),
         \A k : k \in claim.claimed => k \in claim'.claimed,
         \A k : k \in claim'.claimed => k \in claim.claimed \/ Under(KeyOf(Head(agenda).path), k),
         claim'.emitted = claim.emitted
  PROVE  Filling'
<1> DEFINE w == Head(agenda).content
<1>0. PICK x : x = Head(agenda).path
  OBVIOUS
<1>1. x \in Seq(Name) /\ x \in Tree(x) /\ x \in Below(cur) /\ ~Due(agenda, x)
  BY <1>0, UnitTree
<1>2. ~Due(agenda', x)
  BY <1>1, DueIs, Zenon
<1>3. \A p : p # x => (p \in Emit' <=> p \in Emit)
  BY <1>0, EmitAfter
<1> HIDE DEF w
<1>4. ASSUME NEW q \in Seq(Name), NEW d \in Content, Wants(x, q, d)' PROVE FALSE
  <2>1. Keeps(x)' /\ Claims(x, Bond'[x], q, d) /\ Bond'[x] \in Content
    BY <1>4 DEF Wants, Keeps
  <2>2. x \in DOMAIN Now' /\ Now'[x] = held'.record /\ Now'[x].status \in Bearing
    BY <1>0, <1>2, <2>1, NowAfter DEF Keeps
  <2>3. Bond'[x] = w
    <3>1. Bond'[x] = Old'[x]
      BY <1>1, <1>2, <2>1, BondNext, ExpansionAssumption
    <3>2. Old'[x] = IF Stands(held'.record) THEN held'.record.hash ELSE None
      BY <1>0, NowAfter
    <3> QED BY <2>1, <3>1, <3>2, ExpansionAssumption DEF w
  <2>4. Claims(x, w, q, d) /\ w \in Content
    BY <2>1, <2>3
  <2>5. Kind[w] = "container"
    BY <1>1, <1>4, <2>4, ClaimsIs
  <2> QED BY <2>2, <2>5 DEF w
<1>5. MembersFine'
  <2> DEFINE X == {x}
  <2>1. /\ x \in X /\ \A p \in X : p \in Tree(x)
        /\ \A p \in Seq(Name) : p \notin X => (p \in Emit' <=> p \in Emit)
        /\ \A p, q \in Seq(Name), d \in Content : p \in X /\ Wants(p, q, d)' => Served(p, q, d)'
    BY <1>1, <1>3, <1>4
  <2> HIDE DEF X
  <2> QED BY <1>0, <1>1, <2>1, UnitMembers DEF Filling
<1>6. OldMembers'
  BY OldMembersStay DEF Filling
<1> QED BY <1>5, <1>6 DEF Filling

LEMMA RecordingMembers ==
  ASSUME IInv, IInv', NestInv, NestInv', Sound, Minting, Filling, GuardFails \/ Borrow \/ Leaf,
         claim # None
  PROVE  Filling'
<1>1. claim' = claim /\ agenda' = Rest
  BY DEF GuardFails, Borrow, Leaf
<1>2. /\ AtTask /\ Works /\ Head(agenda).op = "unit" /\ Head(agenda).content \in Content
      /\ held' # None /\ held'.path = Head(agenda).path /\ held'.record.hash = Head(agenda).content
      /\ held'.record.status \in Bearing => Kind[Head(agenda).content] # "container"
  BY RecordingIs DEF Bearing
<1>3. \A p, c : Closing(agenda', p, c) <=> Closing(agenda, p, c)
  BY <1>1, <1>2, ClosingRest
<1>4. EndAlike(agenda, 1, agenda', 0) /\ \A p : Uncapped(agenda', p) => Uncapped(agenda, p)
  BY <1>1, <1>2, RestAlike, UncappedRest
<1>5. \A j \in 1..0 : ~Fresh(claim', agenda'[j])
  OBVIOUS
<1> QED BY <1>1, <1>2, <1>3, <1>4, <1>5, UnitDone DEF Minting

LEMMA PrimaryMembers ==
  ASSUME IInv, IInv', NestInv, NestInv', Sound, Minting, Filling, Primary, claim # None
  PROVE  Filling'
<1> DEFINE u == Head(agenda)
           q == LegPath(u.path, u.content)
           key == KeyOf(q)
           leg == [op |-> "leg", path |-> u.path, content |-> u.content]
<1>1. /\ AtTask /\ u.op = "unit" /\ Works /\ u.content \in Content
      /\ held' # None /\ held'.path = u.path /\ held'.record.hash = u.content
      /\ HasLeg(u.content)
  BY RecordingIs
<1>2. /\ claim' # None /\ claim'.emitted = claim.emitted
      /\ \A k : k \in claim.claimed => k \in claim'.claimed
      /\ \A k : k \in claim'.claimed => k \in claim.claimed \/ k = key
      /\ leg \in Task(cur)
      /\ agenda' = Rest \/ agenda' = <<leg>> \o Rest
      /\ \A p, c : Closing(agenda', p, c) <=> Closing(Rest, p, c)
  BY PrimaryIs
<1>3. leg.op = "leg"
  OBVIOUS
<1>4. Under(KeyOf(u.path), key)
  <2>1. u.path \in Seq(Name) /\ q \in Seq(Name) /\ Under(u.path, q)
    BY <1>1, UnitTree, ChildIs
  <2> QED BY <2>1, KeyBelow
<1> HIDE DEF u, q, key, leg
<1>5. \A p, c : Closing(agenda', p, c) <=> Closing(agenda, p, c)
  BY <1>1, <1>2, ClosingRest DEF u
<1>6. \E n \in {0, 1} : /\ EndAlike(agenda, 1, agenda', n)
                        /\ \A j \in 1..n : ~Fresh(claim', agenda'[j])
                        /\ \A p : Uncapped(agenda', p) => Uncapped(agenda, p)
  <2>1. CASE agenda' = Rest
    <3>1. EndAlike(agenda, 1, agenda', 0) /\ \A p : Uncapped(agenda', p) => Uncapped(agenda, p)
      BY <1>1, <2>1, RestAlike, UncappedRest
    <3>2. \A j \in 1..0 : ~Fresh(claim', agenda'[j])
      OBVIOUS
    <3> QED BY <3>1, <3>2
  <2>2. CASE agenda' = <<leg>> \o Rest
    <3>1. /\ EndAlike(agenda, 1, agenda', 1) /\ agenda'[1] = leg
          /\ \A p : Uncapped(agenda', p) => Uncapped(agenda, p)
      BY <1>1, <1>2, <1>3, <2>2, PushedAlike
    <3>2. \A j \in 1..1 : ~Fresh(claim', agenda'[j])
      BY <1>3, <3>1 DEF Fresh
    <3> QED BY <3>1, <3>2
  <2> QED BY <1>2, <2>1, <2>2
<1>7. Kind[u.content] # "container"
  BY <1>1 DEF HasLeg
<1>8. PICK n : /\ EndAlike(agenda, 1, agenda', n)
               /\ \A j \in 1..n : ~Fresh(claim', agenda'[j])
               /\ \A p : Uncapped(agenda', p) => Uncapped(agenda, p)
  BY <1>6
<1>9. \A k : k \in claim'.claimed => k \in claim.claimed \/ Under(KeyOf(u.path), k)
  BY <1>2, <1>4
<1> QED BY <1>1, <1>2, <1>5, <1>7, <1>8, <1>9, UnitDone DEF Minting, u

\* A skip keeps every member that an earlier expansion left.
LEMMA SkipMembers ==
  ASSUME IInv, IInv', NestInv, NestInv', Sound, Minting, Filling, Skip, claim # None
  PROVE  Filling'
<1> DEFINE u == Head(agenda)
           kept == {q \in DOMAIN terminal : Under(u.path, q)}
<1>1. /\ AtTask /\ u.op = "unit" /\ Works /\ agenda' = Rest
      /\ held' # None /\ held'.path = u.path /\ held'.record = terminal[u.path]
      /\ u.path \in DOMAIN terminal /\ u.content \in Content
      /\ held'.record.status \in Bearing /\ held'.record.hash = u.content
  BY SkipIs
<1>2. /\ claim' # None
      /\ \A p : p \in claim.emitted => p \in claim'.emitted
      /\ \A k : k \in claim.claimed => k \in claim'.claimed
      /\ \A k : k \in claim'.claimed => k \in claim.claimed \/ \E q \in kept : k = KeyOf(q)
      /\ \A p : p \in claim'.emitted => p \in claim.emitted \/ p \in kept
      /\ \/ claim'.emitted = claim.emitted /\ ~HasChildren(u.content)
         \/ \A p : p \in kept => p \in claim'.emitted
  BY SkipClaims
<1>3. PICK x : x = u.path
  OBVIOUS
<1> DEFINE X == Tree(x)
<1>4. /\ x \in Seq(Name) /\ x \in Below(cur) /\ x \in X
      /\ \A e \in X : /\ e \in Seq(Name) /\ e \in Below(cur) /\ e \notin Emit /\ ~Due(agenda, e)
  BY <1>1, <1>3, UnitTree
<1>5. /\ cur' = cur /\ cur \in Seq(Name)
      /\ \A q \in kept : q \in Seq(Name) /\ q \in X /\ Under(x, q)
  BY <1>1, <1>3, TaskAt DEF Works, Tree
<1>6. \A p, c : Closing(agenda', p, c) <=> Closing(agenda, p, c)
  BY <1>1, ClosingRest
<1>7. /\ \A p : p \in Emit <=> p \in claim.emitted
      /\ \A p : p \in Emit' <=> p \in claim'.emitted \/ p = x
  BY <1>1, <1>2, <1>3, <1>4, EmitAfter
<1>8. \A e \in X : /\ Old'[e] = Old[e]
                   /\ e \in DOMAIN Now' <=> e \in DOMAIN Now
                   /\ e \in DOMAIN Now => Now'[e] = Now[e]
  <2>1. /\ Now = terminal /\ x \in DOMAIN Now' /\ Now'[x] = terminal[x]
        /\ \A p \in Seq(Name) : p # x =>
             /\ Old'[p] = Old[p]
             /\ p \in DOMAIN Now' <=> p \in DOMAIN terminal
             /\ p \in DOMAIN terminal => Now'[p] = terminal[p]
    BY <1>1, <1>3, NowAfter
  <2>2. Old'[x] = Old[x]
    BY <1>1, <1>3, <1>4, <2>1, HoldingIs DEF Old
  <2> QED BY <1>1, <1>3, <1>4, <2>1, <2>2
<1>9. EndAlike(agenda, 1, agenda', 0) /\ \A p : Uncapped(agenda', p) => Uncapped(agenda, p)
  BY <1>1, RestAlike, UncappedRest
<1>10. \A j \in 1..0 : ~Fresh(claim', agenda'[j])
  OBVIOUS
<1> HIDE DEF u, kept, X
<1>11. ASSUME NEW p \in X, NEW q \in Seq(Name), NEW d \in Content, Wants(p, q, d)'
       PROVE  Served(p, q, d)'
  <2>1. p \in Seq(Name) /\ Keeps(p)' /\ Claims(p, Bond'[p], q, d) /\ Bond'[p] \in Content
    BY <1>4, <1>11 DEF Wants, Keeps
  <2>2. ~Due(agenda', p)
    BY <1>4, <1>6, <1>11, DueIs
  <2>3. p \in DOMAIN Now' /\ Now'[p].status \in Bearing
    BY <2>1, <2>2 DEF Keeps
  <2>4. Bond'[p] = Old[p] /\ p \in Emit'
    <3>1. Old'[p] = Bond'[p] /\ p \notin Lost(agenda', claim', held', cur')
      BY <2>1, <2>2, BondNext, ExpansionAssumption
    <3>2. Lost(agenda', claim', held', cur') = Below(cur) \ Emit'
      BY <1>2, <1>5, <2>1, BondNext
    <3> QED BY <1>4, <1>8, <3>1, <3>2
  <2>5. Claims(p, Old[p], q, d) /\ Old[p] \in Content
    BY <2>1, <2>4
  <2>6. Under(p, q) /\ Kind[Old[p]] = "container"
    <3> DEFINE c == Old[p]
    <3>1. c \in Content /\ Claims(p, c, q, d)
      BY <2>5
    <3> HIDE DEF c
    <3>2. Under(p, q) /\ Kind[c] = "container"
      BY <2>1, <3>1, ClaimsIs
    <3> QED BY <3>2 DEF c
  <2>7. q \in X /\ Under(x, q)
    BY <1>4, <2>1, <2>6, UnderIsOrder, Zenon DEF X, Tree
  <2>8. \A z : z \in kept => z \in claim'.emitted
    <3>1. ASSUME claim'.emitted = claim.emitted, ~HasChildren(u.content) PROVE FALSE
      <4>1. p = x
        BY <1>4, <1>7, <2>4, <3>1
      <4>2. Old[p] = u.content
        <5>1. Old'[x] = IF Stands(held'.record) THEN u.content ELSE None
          BY <1>1, <1>3, NowAfter
        <5> QED BY <1>4, <1>8, <2>5, <4>1, <5>1, ExpansionAssumption
      <4> QED BY <2>6, <3>1, <4>2 DEF HasChildren
    <3> QED BY <1>2, <3>1
  <2>9. Untouched(p)
    <3>1. \A e \in Tree(p) : e \in X
      BY <1>4, <2>1, UnderIsOrder, Zenon DEF X, Tree
    <3> QED BY <1>4, <3>1 DEF Untouched
  <2>10. q \in DOMAIN Now /\ Now[q].hash = d
    BY <1>4, <1>8, <2>3, <2>5, <2>9 DEF Filling, OldMembers
  <2>11. q \in Emit'
    <3>1. q \in kept
      BY <1>1, <1>3, <2>7, <2>10, NowAfter DEF kept
    <3> QED BY <1>7, <2>8, <3>1
  <2>12. Sure(q, d)'
    <3>1. ~Due(agenda', q)
      BY <1>4, <1>6, <2>7, DueIs
    <3>2. Lost(agenda', claim', held', cur') = Below(cur) \ Emit'
      BY <1>2, <1>5, BondNext
    <3> QED BY <1>8, <2>7, <2>10, <2>11, <3>1, <3>2 DEF Sure
  <2>13. ~Awaited(agenda', claim', q)
    <3>1. Comparable(Head(agenda).path, q)
      BY <1>3, <2>7 DEF Comparable, u
    <3> QED BY <1>1, <1>2, <1>9, <1>10, <3>1, UnitAwaits DEF u
  <2> QED BY <2>12, <2>13 DEF Served
<1>12. MembersFine'
  <2>1. /\ \A p \in X : p \in Tree(x)
        /\ \A p \in Seq(Name) : p \notin X => (p \in Emit' <=> p \in Emit)
        /\ \A p, q \in Seq(Name), d \in Content : p \in X /\ Wants(p, q, d)' => Served(p, q, d)'
    BY <1>2, <1>4, <1>5, <1>7, <1>11 DEF X
  <2>2. \A k : k \in claim'.claimed => k \in claim.claimed \/ Under(KeyOf(x), k)
    <3>1. \A q \in kept : Under(KeyOf(x), KeyOf(q))
      BY <1>4, <1>5, KeyBelow
    <3> QED BY <1>2, <3>1
  <2> QED BY <1>1, <1>2, <1>3, <1>4, <1>6, <1>9, <1>10, <2>1, <2>2, UnitMembers
          DEF Filling, Minting, u
<1>13. OldMembers'
  BY <1>1, <1>2, OldMembersStay DEF Filling
<1> QED BY <1>12, <1>13 DEF Filling

-----------------------------------------------------------------------------
(* A container is opened *)

LEMMA KeySame ==
  ASSUME NEW p \in Seq(Name), NEW a \in Seq(Name), NEW b \in Seq(Name),
         KeyOf(p \o a) = KeyOf(p \o b)
  PROVE  KeyOf(a) = KeyOf(b)
<1> DEFINE x == p \o a
           y == p \o b
<1>1. /\ x \in Seq(Name) /\ Len(x) = Len(p) + Len(a) /\ \A i \in 1..Len(a) : x[Len(p) + i] = a[i]
      /\ y \in Seq(Name) /\ Len(y) = Len(p) + Len(b) /\ \A i \in 1..Len(b) : y[Len(p) + i] = b[i]
  OBVIOUS
<1>2. /\ Len(p) \in Nat
      /\ KeyOf(a) \in Seq(Name) /\ Len(KeyOf(a)) = Len(a) /\ Len(a) \in Nat
      /\ KeyOf(b) \in Seq(Name) /\ Len(KeyOf(b)) = Len(b) /\ Len(b) \in Nat
      /\ \A i \in 1..Len(a) : KeyOf(a)[i] = Key[a[i]]
      /\ \A i \in 1..Len(b) : KeyOf(b)[i] = Key[b[i]]
  BY KeyIs
<1> HIDE DEF x, y
<1>3. /\ Len(KeyOf(x)) = Len(x) /\ \A i \in 1..Len(x) : KeyOf(x)[i] = Key[x[i]]
      /\ Len(KeyOf(y)) = Len(y) /\ \A i \in 1..Len(y) : KeyOf(y)[i] = Key[y[i]]
  BY <1>1, KeyIs
<1>4. KeyOf(x) = KeyOf(y)
  BY DEF x, y
<1>5. Len(a) = Len(b)
  BY <1>1, <1>2, <1>3, <1>4
<1>6. ASSUME NEW i \in 1..Len(a) PROVE KeyOf(a)[i] = KeyOf(b)[i]
  <2>1. Len(p) + i \in 1..Len(x) /\ Len(p) + i \in 1..Len(y) /\ i \in 1..Len(b)
    BY <1>1, <1>2, <1>5
  <2>2. KeyOf(x)[Len(p) + i] = Key[a[i]] /\ KeyOf(y)[Len(p) + i] = Key[b[i]]
    BY <1>1, <1>3, <2>1
  <2> QED BY <1>2, <1>4, <2>1, <2>2
<1> DEFINE A == KeyOf(a)
           B == KeyOf(b)
<1>7. A \in Seq(Name) /\ B \in Seq(Name) /\ Len(A) = Len(B) /\ \A i \in 1..Len(A) : A[i] = B[i]
  BY <1>2, <1>5, <1>6
<1> HIDE DEF A, B
<1>8. A = B
  BY <1>7, SeqEqual
<1> QED BY <1>8 DEF A, B

\* The members of the container u, its end, and what follows.
Spread(a, u, b) ==
  LET n == Len(Members[u.content])
  IN /\ n \in Nat /\ Len(b) \in Nat /\ Len(a) = n + 1 + Len(b)
     /\ \A i \in 1..n : /\ i \in 1..Len(a) /\ a[i].op = "member" /\ a[i].path = u.path
                        /\ a[i].member = Members[u.content][i]
                        /\ Spot(a[i]) \in Seq(Name) /\ Under(u.path, Spot(a[i]))
     /\ n + 1 \in 1..Len(a) /\ a[n + 1].op = "close" /\ a[n + 1].path = u.path
     /\ \A i \in 1..Len(b) : n + 1 + i \in 1..Len(a) /\ a[n + 1 + i] = b[i]
     /\ \A k \in 1..Len(a) : \/ k \in 1..n \/ k = n + 1
                             \/ \E i \in 1..Len(b) : k = n + 1 + i /\ a[k] = b[i]

LEMMA TasksThen ==
  ASSUME NEW r \in Seq(Name), NEW u \in Task(r), u.op = "unit", NEW b \in Seq(Task(r))
  PROVE  Spread(Tasks(u) \o b, u, b)
<1> DEFINE a == Tasks(u) \o b
           s == Tasks(u)
           n == Len(Members[u.content])
<1>1. /\ s \in Seq(Task(r)) /\ Len(s) = n + 1 /\ n \in Nat
      /\ \A i \in 1..n : /\ s[i].op = "member" /\ s[i].path = u.path
                         /\ s[i].member = Members[u.content][i]
      /\ s[n + 1].op = "close" /\ s[n + 1].path = u.path
  BY TasksAre
<1> DEFINE T == Task(r)
<1>0. a = s \o b /\ s \in Seq(T) /\ b \in Seq(T)
  BY <1>1
<1> HIDE DEF s, n, a, T
<1>2. /\ Len(s) \in Nat /\ Len(b) \in Nat /\ Len(a) = Len(s) + Len(b)
      /\ \A i \in 1..Len(s) : i \in 1..Len(a) /\ a[i] = s[i]
      /\ \A i \in 1..Len(b) : Len(s) + i \in 1..Len(a) /\ a[Len(s) + i] = b[i]
      /\ \A k \in 1..Len(a) : k \in 1..Len(s) \/ \E i \in 1..Len(b) : k = Len(s) + i
  BY <1>0, ConcatIs
<1>3. ASSUME NEW i \in 1..n
      PROVE  /\ i \in 1..Len(a) /\ a[i].op = "member" /\ a[i].path = u.path
             /\ a[i].member = Members[u.content][i]
             /\ Spot(a[i]) \in Seq(Name) /\ Under(u.path, Spot(a[i]))
  <2>1. i \in 1..Len(s)
    BY <1>1
  <2>2. i \in 1..Len(a) /\ a[i] = s[i] /\ s[i] \in Task(r) /\ s[i].op = "member"
    BY <1>1, <1>2, <2>1
  <2>3. Spot(s[i]) \in Below(s[i].path)
    BY <2>2, SpotIs
  <2> QED BY <1>1, <2>2, <2>3 DEF Below
<1>4. n + 1 \in 1..Len(a) /\ a[n + 1].op = "close" /\ a[n + 1].path = u.path /\ Len(a) = n + 1 + Len(b)
  BY <1>1, <1>2
<1>5. \A i \in 1..Len(b) : n + 1 + i \in 1..Len(a) /\ a[n + 1 + i] = b[i]
  BY <1>1, <1>2
<1>6. \A k \in 1..Len(a) : \/ k \in 1..n \/ k = n + 1
                           \/ \E i \in 1..Len(b) : k = n + 1 + i /\ a[k] = b[i]
  BY <1>1, <1>2, <1>5
<1>7. n \in Nat /\ Len(b) \in Nat
  BY <1>1, <1>2
<1>8. Spread(a, u, b)
  BY <1>3, <1>4, <1>5, <1>6, <1>7 DEF Spread, n
<1> QED BY <1>8 DEF a

\* Each member that is admitted is to come.
LEMMA MembersToCome ==
  ASSUME NEW r \in Seq(Name), NEW u \in Task(r), u.op = "unit", NEW b \in Seq(Task(r)),
         NEW x \in Seq(Name), x = u.path, u.content \in Content,
         NEW cl, \A y \in Seq(Name) : Under(x, y) => KeyOf(y) \notin cl.claimed,
         NEW q \in Seq(Name), NEW d \in Content, Claims(x, u.content, q, d)
  PROVE  ToCome(Tasks(u) \o b, cl, x, q, d)
<1> DEFINE a == Tasks(u) \o b
           ms == Members[u.content]
           n == Len(ms)
<1>1. PICK i \in DOMAIN ms : Admitted(u.content, i) /\ q = x \o ms[i].name /\ d = ms[i].content
  BY DEF Claims
<1>2. DOMAIN ms = 1..n /\ n \in Nat
  <2>1. ms \in Seq([name : Seq(Name) \ {<<>>}, content : Content \cup {Refused}])
    BY ExpansionAssumption
  <2> HIDE DEF ms
  <2> QED BY <2>1, LenProperties
<1>3. \A j \in 1..n : /\ j \in 1..Len(a) /\ a[j].op = "member" /\ a[j].path = x
                      /\ a[j].member = ms[j]
                      /\ Spot(a[j]) \in Seq(Name) /\ Under(x, Spot(a[j]))
  <2>1. Spread(a, u, b)
    BY TasksThen
  <2> HIDE DEF a
  <2> QED BY <2>1 DEF Spread
<1>4. \A j \in 1..n : ms[j].name \in Seq(Name)
  BY <1>2, NamesOfMembers
<1>5. Readable(ms[i]) /\ \A j \in 1..(i - 1) : Readable(ms[j]) => KeyOf(ms[j].name) # KeyOf(ms[i].name)
  BY <1>1 DEF Admitted
<1> HIDE DEF a, ms, n
<1>6. i \in 1..n /\ \A j \in 1..n : Spot(a[j]) = x \o ms[j].name
  BY <1>1, <1>2, <1>3 DEF Spot
<1>7. Fresh(cl, a[i]) /\ Spot(a[i]) = q /\ What(a[i]) = d /\ a[i].path = x
  <2>1. Spot(a[i]) = q /\ KeyOf(q) \notin cl.claimed
    BY <1>1, <1>3, <1>6
  <2> QED BY <1>1, <1>3, <1>5, <1>6, <2>1 DEF Fresh, What
<1>8. ASSUME NEW j \in 1..(i - 1), Fresh(cl, a[j]) PROVE KeyOf(Spot(a[j])) # KeyOf(q)
  <2>1. j \in 1..n
    BY <1>2, <1>6
  <2>2. Readable(ms[j])
    BY <1>3, <1>8, <2>1 DEF Fresh
  <2>3. KeyOf(ms[j].name) # KeyOf(ms[i].name)
    BY <1>5, <2>2
  <2>4. KeyOf(x \o ms[j].name) # KeyOf(x \o ms[i].name)
    BY <1>4, <1>6, <2>1, <2>3, KeySame
  <2> QED BY <1>1, <1>6, <2>1, <2>4
<1>9. Brings(a, cl, i, x, q, d)
  BY <1>7, <1>8 DEF Brings
<1> QED BY <1>3, <1>6, <1>9 DEF ToCome, a

LEMMA OpenedMembers ==
  ASSUME IInv, IInv', NestInv, NestInv', Sound, Minting, Filling, AtTask, Works,
         claim # None, claim' = claim, Head(agenda).op = "unit", Head(agenda).content \in Content,
         agenda' = Tasks(Head(agenda)) \o Rest, held' = None
  PROVE  Filling'
<1> DEFINE u == Head(agenda)
           w == u.content
           n == Len(Members[w])
<1>1. PICK x : x = u.path
  OBVIOUS
<1>2. /\ x \in Seq(Name) /\ x \in Tree(x)
      /\ \A e \in Tree(x) : e \in Seq(Name) /\ e \in Below(cur) /\ e \notin Emit /\ ~Due(agenda, e)
  BY <1>1, UnitTree
<1>3. u \in Task(cur) /\ cur \in Seq(Name) /\ Rest \in Seq(Task(cur)) /\ w \in Content
  BY TaskAt, RestAlike
<1>4. /\ n \in Nat /\ Len(Rest) \in Nat /\ Len(agenda') = n + 1 + Len(Rest)
      /\ \A i \in 1..n : /\ i \in 1..Len(agenda') /\ agenda'[i].op = "member"
                         /\ Spot(agenda'[i]) \in Seq(Name) /\ Under(x, Spot(agenda'[i]))
      /\ n + 1 \in 1..Len(agenda') /\ agenda'[n + 1].op = "close" /\ agenda'[n + 1].path = x
      /\ \A i \in 1..Len(Rest) : n + 1 + i \in 1..Len(agenda') /\ agenda'[n + 1 + i] = Rest[i]
      /\ \A k \in 1..Len(agenda') : \/ k \in 1..n \/ k = n + 1
                                    \/ \E i \in 1..Len(Rest) : k = n + 1 + i /\ agenda'[k] = Rest[i]
  <2>1. PICK a : a = agenda'
    OBVIOUS
  <2>2. Spread(Tasks(u) \o Rest, u, Rest)
    BY <1>3, TasksThen
  <2>3. Spread(a, u, Rest)
    BY <2>1, <2>2
  <2>4. u.path = x
    BY <1>1
  <2> HIDE DEF u
  <2>5. /\ n \in Nat /\ Len(Rest) \in Nat /\ Len(a) = n + 1 + Len(Rest)
        /\ \A i \in 1..n : /\ i \in 1..Len(a) /\ a[i].op = "member"
                           /\ Spot(a[i]) \in Seq(Name) /\ Under(x, Spot(a[i]))
        /\ n + 1 \in 1..Len(a) /\ a[n + 1].op = "close" /\ a[n + 1].path = x
        /\ \A i \in 1..Len(Rest) : n + 1 + i \in 1..Len(a) /\ a[n + 1 + i] = Rest[i]
        /\ \A k \in 1..Len(a) : \/ k \in 1..n \/ k = n + 1
                                \/ \E i \in 1..Len(Rest) : k = n + 1 + i /\ a[k] = Rest[i]
    BY <2>3, <2>4, Zenon DEF Spread
  <2> QED BY <2>1, <2>5
<1>5. /\ Len(agenda) \in Nat \ {0} /\ Len(Rest) = Len(agenda) - 1 /\ agenda[1] = u
      /\ \A i \in 1..Len(agenda) - 1 : Rest[i] = agenda[i + 1]
      /\ EndAlike(agenda, 1, Rest, 0)
  BY RestAlike DEF Rest
<1>6. \A p, c : Closing(agenda', p, c) <=> Closing(agenda, p, c) \/ (x = p /\ w = c)
  <2>1. \A p, c : Closing(agenda', p, c) <=> Closing(Rest, p, c) \/ (x = p /\ w = c)
    BY <1>1, <1>3, ClosingTasks
  <2>2. \A p, c : Closing(Rest, p, c) <=> Closing(agenda, p, c)
    BY ClosingRest
  <2> QED BY <2>1, <2>2
<1>7. \A y \in Seq(Name) : Under(x, y) => KeyOf(y) \notin claim.claimed
  BY <1>1, LegUnclaimed DEF Minting
<1>8. ASSUME NEW q \in Seq(Name), NEW d \in Content, Wants(x, q, d)' PROVE Served(x, q, d)'
  <2>1. Bond'[x] = w
    <3>1. Closing(agenda', x, w)
      BY <1>6
    <3> QED BY <1>2, <3>1, BondNext
  <2>2. Claims(x, w, q, d)
    BY <1>8, <2>1 DEF Wants
  <2>3. ToCome(Tasks(u) \o Rest, claim, x, q, d)
    BY <1>1, <1>2, <1>3, <1>7, <2>2, MembersToCome
  <2> QED BY <2>3 DEF Served
<1> HIDE DEF u, w, n
<1>9. EndAlike(agenda, 1, agenda', n + 1)
  <2>1. ASSUME NEW k \in 1..Len(agenda) - 1 PROVE Same(agenda[1 + k], agenda'[n + 1 + k])
    <3>1. k \in 1..Len(Rest) /\ 1 + k = k + 1 /\ Rest[k] = agenda[k + 1]
      BY <1>5, <2>1
    <3>2. agenda'[n + 1 + k] = agenda[1 + k]
      BY <1>4, <3>1
    <3> QED BY <3>2 DEF Same
  <2>2. /\ Len(agenda') \in Nat /\ n + 1 \in 0..Len(agenda') /\ 1 \in 0..Len(agenda)
        /\ Len(agenda) - 1 = Len(agenda') - (n + 1) /\ Len(agenda) \in Nat
    BY <1>4, <1>5
  <2> QED BY <2>1, <2>2 DEF EndAlike
<1>10. \A j \in 1..n + 1 : Fresh(claim', agenda'[j]) => j \in 1..n
  <2>1. ~Fresh(claim', agenda'[n + 1])
    BY <1>4 DEF Fresh
  <2>2. \A j \in 1..n + 1 : j \in 1..n \/ j = n + 1
    BY <1>4
  <2> QED BY <2>1, <2>2
<1>11. \A q \in Tree(x) : \A d : ~Sure(q, d)
  BY <1>2, Unsure
<1>12. ASSUME NEW p \in Seq(Name), NEW q \in Seq(Name), NEW d \in Content,
              ToCome(agenda, claim, p, q, d)
       PROVE  Served(p, q, d)'
  <2>1. PICK k \in 1..Len(agenda) : Brings(agenda, claim, k, p, q, d)
    BY <1>12 DEF ToCome
  <2>2. CASE k = 1
    <3>1. q = x /\ d = w
      BY <1>1, <1>5, <2>1, <2>2 DEF Brings, Spot, What, u, w
    <3>2. Sure(q, d)'
      BY <1>6, <3>1 DEF Sure
    <3>3. ~Awaited(agenda', claim', q)
      <4>1. ~Awaited(Rest, claim, x)
        <5>1. Comparable(Head(agenda).path, x)
          BY <1>1 DEF Comparable, u
        <5>2. \A j \in 1..0 : Fresh(claim, Rest[j]) => ~Comparable(Head(agenda).path, Spot(Rest[j]))
          OBVIOUS
        <5> QED BY <1>5, <5>1, <5>2, UnitAwaits DEF Minting
      <4>2. SUFFICES ASSUME NEW j \in 1..Len(agenda'), Fresh(claim', agenda'[j]), Spot(agenda'[j]) = x
                     PROVE  FALSE
        BY <3>1 DEF Awaited
      <4>3. CASE j \in 1..n
        BY <1>2, <1>4, <4>2, <4>3, UnderIsOrder
      <4>4. CASE j = n + 1
        BY <1>4, <4>2, <4>4 DEF Fresh
      <4>5. ASSUME NEW i \in 1..Len(Rest), agenda'[j] = Rest[i] PROVE FALSE
        BY <4>1, <4>2, <4>5 DEF Awaited
      <4> QED BY <1>4, <4>3, <4>4, <4>5
    <3> QED BY <3>2, <3>3 DEF Served
  <2>3. CASE 1 < k
    <3>1. KeyOf(q) \notin claim.claimed /\ ~Under(KeyOf(x), KeyOf(q))
      BY <1>1, <2>1, <2>3, UnitFrees DEF Minting, u
    <3>2. \A j \in 1..n + 1 : Fresh(claim', agenda'[j]) => KeyOf(Spot(agenda'[j])) # KeyOf(q)
      BY <1>2, <1>4, <1>10, <3>1, KeyBelow
    <3>3. ToCome(agenda', claim', p, q, d)
      BY <1>9, <2>1, <2>3, <3>1, <3>2, ComesLater
    <3> QED BY <3>3 DEF Served
  <2> QED BY <1>5, <2>1, <2>2, <2>3
<1>13. ASSUME NEW q \in Seq(Name), NEW d \in Content, Sure(q, d), ~Awaited(agenda, claim, q)
       PROVE  ~Awaited(agenda', claim', q)
  <2>1. ASSUME NEW j \in 1..n + 1, Fresh(claim', agenda'[j]) PROVE Spot(agenda'[j]) # q
    <3>1. Under(x, Spot(agenda'[j])) /\ Spot(agenda'[j]) \in Seq(Name)
      BY <1>4, <1>10, <2>1
    <3>2. Under(x, q) => q \in Tree(x)
      BY <1>13 DEF Tree
    <3> QED BY <1>11, <1>13, <3>1, <3>2
  <2>2. \A k : k \in claim.claimed => k \in claim'.claimed
    OBVIOUS
  <2>3. PICK a, b, ce : a = agenda /\ b = agenda' /\ ce = claim'
    OBVIOUS
  <2> DEFINE l == n + 1
  <2>4. EndAlike(a, 1, b, l) /\ \A j \in 1..l : Fresh(ce, b[j]) => Spot(b[j]) # q
    BY <1>9, <2>1, <2>3
  <2>5. ~Awaited(a, claim, q) /\ \A k : k \in claim.claimed => k \in ce.claimed
    BY <1>13, <2>2, <2>3
  <2> HIDE DEF l
  <2>6. ~Awaited(b, ce, q)
    BY <2>4, <2>5, AwaitedLater
  <2> QED BY <2>3, <2>6
<1>14. MembersFine'
  <2> DEFINE X == {x}
  <2>1. \A p \in Seq(Name) : p \notin X =>
          /\ \A c : Closing(agenda', p, c) <=> Closing(agenda, p, c)
          /\ p \in Emit' <=> p \in Emit
          /\ Uncapped(agenda', p) => Uncapped(agenda, p)
    <3>1. \A p : p \in Emit' <=> p \in Emit
      BY EmitAfter
    <3>2. ASSUME NEW p \in Seq(Name), p # x, Uncapped(agenda', p) PROVE Uncapped(agenda, p)
      <4>1. PICK k \in 1..Len(agenda') : agenda'[k].op = "close" /\ agenda'[k].path = p /\ ~agenda'[k].capped
        BY <3>2 DEF Uncapped
      <4>2. PICK i \in 1..Len(Rest) : agenda'[k] = Rest[i]
        BY <1>4, <3>2, <4>1
      <4>3. Uncapped(Rest, p)
        BY <4>1, <4>2 DEF Uncapped
      <4> QED BY <4>3, UncappedRest
    <3> QED BY <1>6, <3>1, <3>2
  <2>2. /\ \A p, q \in Seq(Name), d \in Content : p \in X /\ Wants(p, q, d)' => Served(p, q, d)'
        /\ \A p, q \in Seq(Name), d \in Content : q \in X /\ Sure(q, d) => FALSE
    BY <1>2, <1>8, <1>11
  <2> HIDE DEF X
  <2> QED BY <1>12, <1>13, <2>1, <2>2, NestedMembers DEF Filling
<1>15. OldMembers'
  BY OldMembersStay DEF Filling
<1> QED BY <1>14, <1>15 DEF Filling

LEMMA OpeningMembers ==
  ASSUME IInv, IInv', NestInv, NestInv', Sound, Minting, Filling, Open, claim # None
  PROVE  Filling'
<1> DEFINE u == Head(agenda)
<1>1. /\ AtTask /\ u.op = "unit" /\ Works /\ u.content \in Content /\ claim' = claim
      /\ \/ /\ agenda' = Rest
            /\ held' # None /\ held'.path = u.path /\ held'.record.hash = u.content
            /\ held'.record.status = "failed"
         \/ agenda' = Tasks(u) \o Rest /\ held' = None
  BY OpenIs
<1>2. CASE agenda' = Rest /\ held' # None /\ held'.path = u.path /\ held'.record.hash = u.content
           /\ held'.record.status = "failed"
  <2>1. \A p, c : Closing(agenda', p, c) <=> Closing(agenda, p, c)
    BY <1>1, <1>2, ClosingRest
  <2>2. EndAlike(agenda, 1, agenda', 0) /\ \A p : Uncapped(agenda', p) => Uncapped(agenda, p)
    BY <1>1, <1>2, RestAlike, UncappedRest
  <2>3. (\A j \in 1..0 : ~Fresh(claim', agenda'[j])) /\ held'.record.status \notin Bearing
    BY <1>2 DEF Bearing
  <2> QED BY <1>1, <1>2, <2>1, <2>2, <2>3, UnitDone DEF Minting
<1>3. CASE agenda' = Tasks(u) \o Rest /\ held' = None
  BY <1>1, <1>3, OpenedMembers
<1> QED BY <1>1, <1>2, <1>3

-----------------------------------------------------------------------------
(* The next member *)

\* What the end of a container's budget takes off belongs to that container.
LEMMA CappedDrops ==
  ASSUME IInv, NestInv, Sound, AtTask, Head(agenda).op = "member", claim # None
  PROVE  /\ \E m \in 1..Len(agenda) :
              /\ EndAlike(agenda, m, Capped, 0)
              /\ \A k \in 1..m : agenda[k].op = "member" =>
                   Due(Capped, agenda[k].path) /\ ~Uncapped(Capped, agenda[k].path)
         /\ \A p : Uncapped(Capped, p) => Uncapped(agenda, p)
<1> DEFINE b == Capped
<1>1. Formed(agenda, TRUE, cur) /\ Homed(agenda) /\ Nested(agenda)
  BY TaskAt DEF Sound, TasksInv, NestInv
<1>2. PICK m \in 0..Len(agenda) :
        /\ b # <<>> /\ Head(b).capped
        /\ \A p : Due(agenda, p) => Due(b, p)
        /\ Len(b) = Len(agenda) - m
        /\ \A k \in 1..Len(b) : Same(agenda[m + k], b[k])
        /\ \A k \in 1..Len(b) : b[k] = agenda[m + k] \/ b[k].capped
  <2>1. \E m \in 0..Len(agenda) :
          /\ Len(b) = Len(agenda) - m
          /\ \A k \in 1..Len(b) : Same(agenda[m + k], b[k])
          /\ \A k \in 1..Len(b) : b[k] = agenda[m + k] \/ b[k].capped
    BY <1>1, CappedIs
  <2>2. b # <<>> /\ Head(b).capped /\ \A p : Due(agenda, p) => Due(b, p)
    BY <1>1, CappedIs
  <2> HIDE DEF b
  <2> QED BY <2>1, <2>2
<1>3. Head(b).op = "close" /\ b \in Seq(Task(cur)) /\ Len(agenda) \in Nat
  <2>1. b \in Seq(Task(cur)) /\ Head(b).op = "close"
    BY <1>1, CappedIs DEF Formed
  <2> QED BY <2>1, TypedAgenda
<1> HIDE DEF b
<1>4. b[1] = Head(b) /\ Len(b) \in Nat \ {0}
  BY <1>2, <1>3
<1>5. agenda[m + 1].op = "close" /\ m + 1 \in 1..Len(agenda)
  <2>1. Same(agenda[m + 1], b[1])
    BY <1>2, <1>4
  <2> QED BY <1>2, <1>3, <1>4, <2>1, AlikeIs
<1>6. m \in 1..Len(agenda)
  <2>1. m # 0
    <3>1. agenda[1] = Head(agenda)
      BY RestAlike
    <3> QED BY <1>5, <3>1
  <2> QED BY <1>3, <2>1
<1>7. EndAlike(agenda, m, b, 0)
  <2>1. ASSUME NEW k \in 1..Len(agenda) - m PROVE Same(agenda[m + k], b[0 + k])
    <3>1. k \in 1..Len(b) /\ 0 + k = k
      BY <1>2, <2>1
    <3> QED BY <1>2, <3>1
  <2> QED BY <1>2, <1>3, <1>4, <2>1 DEF EndAlike
<1>8. ASSUME NEW k \in 1..m, agenda[k].op = "member"
      PROVE  Due(b, agenda[k].path) /\ ~Uncapped(b, agenda[k].path)
  <2>1. k \in 1..Len(agenda) /\ k < m + 1
    BY <1>6
  <2>2. Due(agenda, agenda[k].path)
    BY <1>1, <1>8, <2>1 DEF Homed, Due
  <2>3. SUFFICES ASSUME NEW i \in 1..Len(b), b[i].op = "close", b[i].path = agenda[k].path, ~b[i].capped
                 PROVE  FALSE
    BY <1>2, <2>2 DEF Uncapped
  <2>4. i # 1
    BY <1>2, <1>4, <2>3
  <2>5. b[i] = agenda[m + i] /\ m + i \in 1..Len(agenda) /\ m + 1 < m + i
    BY <1>2, <1>4, <2>3, <2>4
  <2>6. Under(agenda[m + i].path, agenda[m + 1].path)
    BY <1>1, <1>5, <2>3, <2>5 DEF Nested, Fits
  <2>7. agenda[m + 1].path = agenda[k].path \/ Under(agenda[m + 1].path, agenda[k].path)
    BY <1>1, <1>5, <1>8, <2>1 DEF Nested, Fits
  <2>8. \A j \in {k, m + 1} : agenda[j].path \in Seq(Name)
    <3>1. \A j \in {k, m + 1} : agenda[j] \in Task(cur)
      BY <1>5, <2>1, TypedAgenda
    <3>2. cur \in Seq(Name)
      BY TaskAt
    <3> QED BY <1>5, <1>8, <3>1, <3>2, TaskIs DEF Tree
  <2> QED BY <2>3, <2>5, <2>6, <2>7, <2>8, UnderIsOrder, Zenon
<1>9. ASSUME NEW p, Uncapped(b, p) PROVE Uncapped(agenda, p)
  <2>1. PICK i \in 1..Len(b) : b[i].op = "close" /\ b[i].path = p /\ ~b[i].capped
    BY <1>9 DEF Uncapped
  <2>2. m + i \in 1..Len(agenda) /\ agenda[m + i] = b[i]
    BY <1>2, <1>3, <1>4, <2>1
  <2> QED BY <2>1, <2>2 DEF Uncapped
<1> QED BY <1>6, <1>7, <1>8, <1>9 DEF b

\* A member that leaves a record without content, or none, and what is taken
\* off with it.
LEMMA EndedMembers ==
  ASSUME IInv, IInv', NestInv, NestInv', Sound, Filling, AtTask, Works, Head(agenda).op = "member",
         claim # None, claim' # None, claim'.emitted = claim.emitted,
         claim'.claimed = claim.claimed,
         held' # None => /\ held'.path \in Seq(Name) /\ held'.record.hash = None
                         /\ ~Due(agenda, held'.path),
         NEW m \in 1..Len(agenda), EndAlike(agenda, m, agenda', 0),
         \A p, c : Closing(agenda', p, c) <=> Closing(agenda, p, c),
         \A p : Uncapped(agenda', p) => Uncapped(agenda, p),
         \A k \in 1..m : Fresh(claim, agenda[k]) =>
           Due(agenda', agenda[k].path) /\ ~Uncapped(agenda', agenda[k].path),
         \A p, q \in Seq(Name), d \in Content :
           held' # None /\ q = held'.path /\ Wants(p, q, d) => ~Sure(q, d)
  PROVE  Filling'
<1> DEFINE X == {z \in Seq(Name) : held' # None /\ z = held'.path}
<1>1. \A p : p \notin X => (p \in Emit' <=> p \in Emit)
  BY EmitAfter DEF X
<1>2. ASSUME NEW p \in Seq(Name), held' # None, p = held'.path,
             NEW q \in Seq(Name), NEW d \in Content, Wants(p, q, d)' PROVE FALSE
  <2> HIDE DEF X
  <2>1. held' # None /\ p = held'.path /\ p \in Seq(Name) /\ Bond'[p] \in Content
    BY <1>2 DEF Wants, Keeps
  <2>2. ~Due(agenda', p)
    BY <2>1, DueIs, Zenon
  <2>3. Bond'[p] = IF p \in Lost(agenda', claim', held', cur') THEN None ELSE Old'[p]
    BY <2>2, BondNext, Zenon
  <2>4. Old'[p] = None
    BY <2>1, NowAfter DEF Stands
  <2> QED BY <2>1, <2>3, <2>4, ExpansionAssumption
<1>3. ASSUME NEW p \in Seq(Name), NEW q \in Seq(Name), NEW d \in Content, Keeps(p)',
             ToCome(agenda, claim, p, q, d)
      PROVE  Served(p, q, d)'
  <2>1. PICK k \in 1..Len(agenda) : Brings(agenda, claim, k, p, q, d)
    BY <1>3 DEF ToCome
  <2>2. Fresh(claim, agenda[k]) /\ Spot(agenda[k]) = q /\ agenda[k].op = "member" /\ agenda[k].path = p
    <3>1. agenda[k].op # "unit"
      <4>1. /\ Bare(Rest) /\ Len(Rest) = Len(agenda) - 1 /\ agenda[1] = Head(agenda)
            /\ \A i \in 1..Len(agenda) - 1 : Rest[i] = agenda[i + 1]
        BY RestAlike DEF Sound, TasksInv, Rest
      <4>2. CASE k = 1
        BY <4>1, <4>2
      <4>3. CASE k # 1
        <5>1. k - 1 \in 1..Len(Rest) /\ Rest[k - 1] = agenda[k]
          <6>1. Len(agenda) \in Nat /\ k - 1 \in 1..Len(agenda) - 1 /\ (k - 1) + 1 = k
            BY <4>3, TypedAgenda
          <6> QED BY <4>1, <6>1
        <5> QED BY <4>1, <5>1 DEF Bare
      <4> QED BY <4>2, <4>3
    <3> QED BY <2>1, <3>1 DEF Brings, Fresh
  <2>3. ~(k <= m)
    <3>1. SUFFICES ASSUME k \in 1..m PROVE FALSE
      OBVIOUS
    <3>2. Due(agenda', p) /\ ~Uncapped(agenda', p)
      BY <2>2, <3>1
    <3> QED BY <1>3, <3>2 DEF Keeps
  <2>4. KeyOf(q) \notin claim'.claimed /\ \A x : x \in claim.claimed => x \in claim'.claimed
    BY <2>2 DEF Fresh
  <2>5. \A j \in 1..0 : Fresh(claim', agenda'[j]) => KeyOf(Spot(agenda'[j])) # KeyOf(q)
    OBVIOUS
  <2>6. ToCome(agenda', claim', p, q, d)
    <3>1. m < k
      BY <2>3
    <3> QED BY <2>1, <2>4, <2>5, <3>1, ComesLater
  <2> QED BY <2>6 DEF Served
<1>4. ASSUME NEW q \in Seq(Name), NEW d \in Content, Sure(q, d), ~Awaited(agenda, claim, q)
      PROVE  ~Awaited(agenda', claim', q)
  <2>1. PICK b, ce : b = agenda' /\ ce = claim'
    OBVIOUS
  <2>2. EndAlike(agenda, m, b, 0) /\ \A x : x \in claim.claimed => x \in ce.claimed
    BY <2>1
  <2>3. \A j \in 1..0 : Fresh(ce, b[j]) => Spot(b[j]) # q
    OBVIOUS
  <2>4. ~Awaited(b, ce, q)
    BY <1>4, <2>2, <2>3, AwaitedLater
  <2> QED BY <2>1, <2>4
<1>5. held' # None => held'.path \in X
  BY DEF X
<1>6. \A p, q \in Seq(Name), d \in Content :
        q \in X /\ Wants(p, q, d) /\ Sure(q, d) /\ ~Awaited(agenda, claim, q) => Sure(q, d)'
  BY DEF X
<1>9. \A p, q \in Seq(Name), d \in Content : p \in X /\ Wants(p, q, d)' => FALSE
  BY <1>2 DEF X
<1> HIDE DEF X
<1>7. MembersFine'
  BY <1>1, <1>3, <1>4, <1>5, <1>6, <1>9, NestedMembers DEF Filling
<1>8. OldMembers'
  BY OldMembersStay DEF Filling
<1> QED BY <1>7, <1>8 DEF Filling

LEMMA NoUnits ==
  ASSUME IInv, Sound, AtTask, claim # None, Head(agenda).op # "unit"
  PROVE  \A k \in 1..Len(agenda) : agenda[k].op # "unit"
<1>1. /\ Bare(Rest) /\ Len(Rest) = Len(agenda) - 1 /\ agenda[1] = Head(agenda)
      /\ \A i \in 1..Len(agenda) - 1 : Rest[i] = agenda[i + 1]
  BY RestAlike DEF Sound, TasksInv, Rest
<1>2. SUFFICES ASSUME NEW k \in 1..Len(agenda), k # 1 PROVE agenda[k].op # "unit"
  BY <1>1
<1>3. Len(agenda) \in Nat /\ k - 1 \in 1..Len(agenda) - 1 /\ (k - 1) + 1 = k
  BY <1>2, TypedAgenda
<1>4. k - 1 \in 1..Len(Rest) /\ Rest[k - 1] = agenda[k]
  BY <1>1, <1>3
<1> QED BY <1>1, <1>4 DEF Bare

\* A member that could be read is given up only with its container.
LEMMA RefusalReads ==
  ASSUME IInv, MemberRefused \/ MemberOverruns
  PROVE  LET t == Head(agenda)
         IN /\ held' # None => held'.path = Spot(t) /\ ~Readable(t.member)
            /\ agenda' = Capped \/ (agenda' = Rest /\ ~Readable(t.member))
<1> DEFINE t == Head(agenda)
           c == t.member.content
           z == ChildPath(t)
<1>1. AtTask /\ t.op = "member"
  BY DEF MemberRefused, MemberOverruns, Doing, AtTask
<1>2. z = Spot(t) /\ c \in Content \cup {Refused}
  BY <1>1, MemberIs DEF ChildPath, Spot
<1>3. CASE MemberRefused
  <2>1. c = Refused /\ agenda' = Rest /\ Fails(z, None)
    BY <1>3 DEF MemberRefused
  <2>2. held'.path = z /\ ~Readable(t.member)
    BY <2>1 DEF Fails, Refuse, Readable
  <2> QED BY <1>2, <2>1, <2>2
<1>4. CASE MemberOverruns
  <2> DEFINE e == Cap
  <2>1. /\ c # Refused /\ ~(Size[c] <= e)
        /\ (e = MaxMember /\ held'.path = z) \/ held' = None
        /\ agenda' = IF expanded + e + 1 > MaxExpanded THEN Capped ELSE Rest
    BY <1>1, <1>4 DEF MemberOverruns, Inflates, Fails, Refuse, AtTask
  <2>2. /\ Size[c] \in Nat /\ expanded \in Nat /\ MaxMember \in Nat /\ MaxExpanded \in Nat
        /\ e = IF expanded + MaxMember <= MaxExpanded THEN MaxMember
               ELSE IF expanded <= MaxExpanded THEN MaxExpanded - expanded ELSE 0
    BY <1>2, <2>1, ExpansionAssumption DEF IInv, TypeOK, Cap
  <2>3. e = MaxMember => ~Readable(t.member)
    BY <2>1 DEF Readable
  <2> HIDE DEF e, t, c, z
  <2>4. ~(expanded + e + 1 > MaxExpanded) => e = MaxMember
    BY <2>2
  <2> QED BY <1>2, <2>1, <2>3, <2>4 DEF t
<1> QED BY <1>3, <1>4

LEMMA RefusedMembers ==
  ASSUME IInv, IInv', NestInv, NestInv', Sound, Filling, MemberRefused \/ MemberOverruns
  PROVE  Filling'
<1> DEFINE t == Head(agenda)
<1>1. /\ AtTask /\ t.op = "member" /\ Works /\ claim # None
      /\ claim' = claim /\ (agenda' = Rest \/ agenda' = Capped)
      /\ held' # None => /\ held'.path \in Seq(Name) /\ held'.record.hash = None
                         /\ ~Due(agenda, held'.path)
  BY RefusedIs
<1>2. /\ held' # None => held'.path = Spot(t) /\ ~Readable(t.member)
      /\ agenda' = Capped \/ (agenda' = Rest /\ ~Readable(t.member))
  BY RefusalReads
<1>3. \A p, c : Closing(agenda', p, c) <=> Closing(agenda, p, c)
  BY <1>1, MemberEnd
<1>4. \A k \in 1..Len(agenda) : Fresh(claim, agenda[k]) => agenda[k].op = "member"
  BY <1>1, NoUnits DEF Fresh
<1>5. \E m \in 1..Len(agenda) :
        /\ EndAlike(agenda, m, agenda', 0)
        /\ \A k \in 1..m : Fresh(claim, agenda[k]) =>
             Due(agenda', agenda[k].path) /\ ~Uncapped(agenda', agenda[k].path)
  <2>1. CASE agenda' = Capped
    <3>1. PICK m \in 1..Len(agenda) :
            /\ EndAlike(agenda, m, agenda', 0)
            /\ \A k \in 1..m : agenda[k].op = "member" =>
                 Due(agenda', agenda[k].path) /\ ~Uncapped(agenda', agenda[k].path)
      BY <1>1, <2>1, CappedDrops
    <3>2. \A k \in 1..m : k \in 1..Len(agenda)
      BY TypedAgenda
    <3> QED BY <1>4, <3>1, <3>2
  <2>2. CASE agenda' = Rest /\ ~Readable(t.member)
    <3>1. EndAlike(agenda, 1, agenda', 0) /\ 1 \in 1..Len(agenda) /\ agenda[1] = t
      BY <1>1, <2>2, RestAlike
    <3>2. ~Fresh(claim, agenda[1]) /\ \A k \in 1..1 : k = 1
      BY <1>1, <2>2, <3>1 DEF Fresh
    <3> QED BY <3>1, <3>2
  <2> QED BY <1>2, <2>1, <2>2
<1>6. \A p : Uncapped(agenda', p) => Uncapped(agenda, p)
  BY <1>1, CappedDrops, UncappedRest
<1>7. ASSUME held' # None PROVE \A d : ~Sure(held'.path, d)
  <2>1. Pending(claim, t) /\ t.op # "leg"
    BY <1>1, <1>2, <1>7 DEF Pending, Spent
  <2>2. PICK o \in Tree(cur) : Promised(o, Spot(t), What(t))
    BY <1>1, <2>1, ContainerPromises
  <2>3. Spot(t) \in Below(cur) /\ Spot(t) \notin Emit
    BY <2>2 DEF Promised, Tree, Below
  <2>4. held'.path = Spot(t) /\ ~Due(agenda, Spot(t))
    BY <1>1, <1>2, <1>7
  <2> QED BY <1>1, <2>3, <2>4, Unsure
<1> HIDE DEF t
<1>8. PICK m \in 1..Len(agenda) :
        /\ EndAlike(agenda, m, agenda', 0)
        /\ \A k \in 1..m : Fresh(claim, agenda[k]) =>
             Due(agenda', agenda[k].path) /\ ~Uncapped(agenda', agenda[k].path)
  BY <1>5
<1>9. claim' # None /\ claim'.emitted = claim.emitted /\ claim'.claimed = claim.claimed
  BY <1>1
<1>10. \A p, q \in Seq(Name), d \in Content :
         held' # None /\ q = held'.path /\ Wants(p, q, d) => ~Sure(q, d)
  BY <1>7
<1> QED BY <1>1, <1>3, <1>6, <1>8, <1>9, <1>10, EndedMembers DEF t

\* No container has a member where a refused alias has its record.
LEMMA CollisionIsNobodys ==
  ASSUME Separate, IInv, NestInv, Sound, NoLoan, AtTask, Head(agenda).op = "member",
         NEW n \in DOMAIN CollisionName, NEW o, o = Head(agenda).path,
         NEW z, z = Append(o, CollisionName[n]),
         NEW p \in Seq(Name), NEW d \in Content, Wants(p, z, d)
  PROVE  FALSE
<1> DEFINE a == CollisionName[n]
           c == Bond[p]
<1>1. /\ claim # None /\ o \in Tree(cur) /\ o \in Seq(Name)
      /\ Head(agenda) = agenda[1] /\ 1 \in 1..Len(agenda)
  BY MemberIs, TaskAt, NestedRest DEF Tree, NestInv
<1>2. a \in Name
  <2>1. CollisionName \in Seq(Name)
    BY ExpansionAssumption
  <2> QED BY <2>1, LenProperties, ElementOfSeq
<1>3. Bond[o] # None
  <2>1. PICK j \in 1..Len(agenda) : agenda[j].op = "close" /\ agenda[j].path = o
    BY <1>1 DEF Sound, TasksInv, Homed
  <2>2. Closing(agenda, o, agenda[j].content)
    BY <2>1 DEF Closing
  <2>3. \A e : Closing(agenda, o, e) => Bond[o] = e /\ e \in Content
    BY <1>1, BondNow
  <2> QED BY <2>2, <2>3, ExpansionAssumption
<1>4. /\ z \in Seq(Name) /\ Under(o, z) /\ z = o \o <<a>>
      /\ \A e \in Seq(Name) : ~(Under(o, e) /\ Under(e, z))
  BY <1>1, <1>2, NextName
<1>5. c \in Content /\ Keeps(p) /\ Claims(p, c, z, d)
  BY DEF Wants, Keeps
<1> HIDE DEF a, c
<1>6. Under(p, z) /\ Kind[c] = "container"
  BY <1>4, <1>5, ClaimsIs
<1>7. p # o
  <2>1. SUFFICES ASSUME p = o PROVE FALSE
    OBVIOUS
  <2>2. PICK i \in DOMAIN Members[c] : z = o \o Members[c][i].name
    BY <1>5, <2>1 DEF Claims
  <2> DEFINE b == Members[c][i].name
  <2>3. b \in Seq(Name) \ {<<>>} /\ Head(b) # a
    BY <1>5, <2>2, NamesOfMembers DEF Separate, a
  <2> HIDE DEF b
  <2>4. <<a>> \in Seq(Name) /\ <<a>> # <<>> /\ Head(<<a>>) = a
    BY <1>2
  <2>5. o \o b = o \o <<a>>
    BY <1>4, <2>2 DEF b
  <2>6. <<a>> = b
    BY <1>1, <2>3, <2>4, <2>5, Siblings
  <2> QED BY <2>3, <2>4, <2>6
<1>8. Under(p, o)
  BY <1>1, <1>4, <1>6, <1>7, UnderIsOrder, Zenon
<1>9. ~Under(o, z)
  <2>1. Claims(p, Bond[p], z, d)
    BY <1>5 DEF c
  <2> QED BY <1>1, <1>3, <1>4, <1>5, <1>8, <2>1, Gap
<1> QED BY <1>4, <1>9

\* The member is dispatched as a unit.
LEMMA DispatchedMembers ==
  ASSUME IInv, IInv', NestInv, NestInv', Sound, Filling, AtTask, Works, Head(agenda).op = "member",
         claim # None, claim' # None, claim'.emitted = claim.emitted, held' = None,
         Fresh(claim, Head(agenda)), NEW unit \in Task(cur), unit.op = "unit",
         unit.path = Spot(Head(agenda)), unit.content = What(Head(agenda)),
         agenda' = <<unit>> \o Rest,
         \A k : k \in claim'.claimed <=> k \in claim.claimed \/ k = KeyOf(Spot(Head(agenda))),
         \A p, c : Closing(agenda', p, c) <=> Closing(agenda, p, c)
  PROVE  Filling'
<1>1. PICK b, ce, x : b = agenda' /\ ce = claim' /\ x = Spot(Head(agenda))
  OBVIOUS
<1>2. /\ EndAlike(agenda, 1, b, 1) /\ b[1] = unit
      /\ \A p : Uncapped(b, p) => Uncapped(agenda, p)
  BY <1>1, PushedAlike
<1>3. agenda[1] = Head(agenda) /\ Len(agenda) \in Nat \ {0} /\ 1 \in 1..Len(agenda)
  BY RestAlike
<1>4. \A k : k \in ce.claimed <=> k \in claim.claimed \/ k = KeyOf(x)
  BY <1>1
<1>5. Fresh(ce, b[1]) /\ Spot(b[1]) = x /\ What(b[1]) = What(Head(agenda)) /\ b[1].op = "unit"
  BY <1>1, <1>2 DEF Fresh, Spot, What
<1>6. \A p : p \in Emit' <=> p \in Emit
  BY EmitAfter
<1>7. \A j \in 1..1 : j = 1
  OBVIOUS
<1>8. 1 \in 1..Len(b)
  BY <1>2, <1>3 DEF EndAlike
<1>9. ASSUME NEW p \in Seq(Name), NEW q \in Seq(Name), NEW d \in Content,
             ToCome(agenda, claim, p, q, d)
      PROVE  Served(p, q, d)'
  <2>1. PICK k \in 1..Len(agenda) : Brings(agenda, claim, k, p, q, d)
    BY <1>9 DEF ToCome
  <2>2. CASE k = 1
    <3>1. q = x /\ d = What(Head(agenda))
      BY <1>1, <1>3, <2>1, <2>2 DEF Brings
    <3>2. Brings(b, ce, 1, p, q, d)
      <4>1. \A j \in 1..(1 - 1) : Fresh(ce, b[j]) => KeyOf(Spot(b[j])) # KeyOf(q)
        OBVIOUS
      <4> QED BY <1>5, <3>1, <4>1 DEF Brings
    <3>3. ToCome(agenda', claim', p, q, d)
      BY <1>1, <1>8, <3>2 DEF ToCome
    <3> QED BY <3>3 DEF Served
  <2>3. CASE 1 < k
    <3>1. KeyOf(q) # KeyOf(x)
      <4>1. 1 \in 1..(k - 1)
        BY <1>3, <2>3
      <4> QED BY <1>1, <1>3, <2>1, <4>1 DEF Brings
    <3>2. KeyOf(q) \notin claim.claimed
      <4>1. agenda[k].op # "unit"
        BY NoUnits
      <4> QED BY <2>1, <4>1 DEF Brings, Fresh
    <3>3. \A j \in 1..1 : Fresh(ce, b[j]) => KeyOf(Spot(b[j])) # KeyOf(q)
      BY <1>5, <1>7, <3>1
    <3>4. KeyOf(q) \notin ce.claimed /\ \A k1 : k1 \in claim.claimed => k1 \in ce.claimed
      BY <1>4, <3>1, <3>2
    <3>5. ToCome(b, ce, p, q, d)
      BY <1>2, <2>1, <2>3, <3>3, <3>4, ComesLater
    <3> QED BY <1>1, <3>5 DEF Served
  <2> QED BY <1>3, <2>1, <2>2, <2>3
<1>10. ASSUME NEW q \in Seq(Name), NEW d \in Content, Sure(q, d), ~Awaited(agenda, claim, q)
       PROVE  ~Awaited(agenda', claim', q)
  <2>1. x # q
    BY <1>1, <1>3, <1>10 DEF Awaited
  <2>2. \A j \in 1..1 : Fresh(ce, b[j]) => Spot(b[j]) # q
    BY <1>5, <1>7, <2>1
  <2>3. \A k : k \in claim.claimed => k \in ce.claimed
    BY <1>4
  <2>4. ~Awaited(b, ce, q)
    BY <1>2, <1>10, <2>2, <2>3, AwaitedLater
  <2> QED BY <1>1, <2>4
<1>11. MembersFine'
  <2> DEFINE X == {}
  <2>1. \A p : p \notin X
    OBVIOUS
  <2>2. \A p : Uncapped(agenda', p) => Uncapped(agenda, p)
    BY <1>1, <1>2
  <2> HIDE DEF X
  <2> QED BY <1>6, <1>9, <1>10, <2>1, <2>2, NestedMembers DEF Filling
<1>12. OldMembers'
  BY OldMembersStay DEF Filling
<1> QED BY <1>11, <1>12 DEF Filling

LEMMA MemberMembers ==
  ASSUME Separate, IInv, IInv', NestInv, NestInv', Sound, NoLoan, Filling, Member
  PROVE  Filling'
<1> DEFINE t == Head(agenda)
           key == KeyOf(ChildPath(t))
           unit == [op |-> "unit", path |-> ChildPath(t), content |-> t.member.content,
                    depth |-> t.depth, chain |-> t.chain]
<1>1. /\ AtTask /\ t.op = "member" /\ Works /\ claim # None /\ Readable(t.member)
      /\ claim' # None /\ claim'.emitted = claim.emitted
      /\ unit \in Task(cur) /\ unit.op = "unit" /\ unit.path = ChildPath(t)
      /\ unit.content = t.member.content
      /\ \/ /\ agenda' = Rest /\ claim'.claimed = claim.claimed
            /\ held' # None /\ held'.path \in Seq(Name) /\ held'.record.hash = None
            /\ ~Due(agenda, held'.path)
         \/ /\ agenda' = <<unit>> \o Rest /\ held' = None
            /\ key \notin claim.claimed
            /\ \A k : k \in claim'.claimed <=> k \in claim.claimed \/ k = key
            /\ \A p, c : Closing(agenda', p, c) <=> Closing(Rest, p, c)
  BY MemberDoes
<1>2. \/ key \in claim.claimed /\ \E n \in DOMAIN CollisionName :
                                     held'.path = Append(t.path, CollisionName[n])
      \/ held' = None
  <2>1. held = None
    BY <1>1 DEF AtTask
  <2>2. \/ key \in claim.claimed /\ \E n \in DOMAIN CollisionName : Fails(Append(t.path, CollisionName[n]), None)
        \/ UNCHANGED held
    BY DEF Member
  <2>3. \A z : Fails(z, None) => held'.path = z
    BY DEF Fails, Refuse
  <2> QED BY <2>1, <2>2, <2>3
<1>3. ChildPath(t) = Spot(t) /\ What(t) = t.member.content
  BY <1>1 DEF ChildPath, Spot, What
<1>4. \A p, c : Closing(Rest, p, c) <=> Closing(agenda, p, c)
  BY <1>1, ClosingRest
<1> HIDE DEF unit
<1>5. CASE held' # None
  <2>1. PICK n \in DOMAIN CollisionName : held'.path = Append(t.path, CollisionName[n])
    BY <1>2, <1>5
  <2>2. EndAlike(agenda, 1, agenda', 0) /\ 1 \in 1..Len(agenda) /\ agenda[1] = t
    BY <1>1, <1>5, RestAlike
  <2>3. \A k \in 1..1 : Fresh(claim, agenda[k]) =>
          Due(agenda', agenda[k].path) /\ ~Uncapped(agenda', agenda[k].path)
    <3>1. ~Fresh(claim, agenda[1]) /\ \A k \in 1..1 : k = 1
      BY <1>1, <1>2, <1>3, <1>5, <2>2 DEF Fresh
    <3> QED BY <3>1
  <2>4. \A p : Uncapped(agenda', p) => Uncapped(agenda, p)
    BY <1>1, <1>5, UncappedRest
  <2>5. \A p, q \in Seq(Name), d \in Content :
          held' # None /\ q = held'.path /\ Wants(p, q, d) => ~Sure(q, d)
    <3>1. PICK o, z : o = t.path /\ z = held'.path /\ z = Append(o, CollisionName[n])
      BY <2>1
    <3>2. \A p \in Seq(Name), d \in Content : ~Wants(p, z, d)
      BY <1>1, <3>1, CollisionIsNobodys
    <3> QED BY <3>1, <3>2
  <2>6. \A p, c : Closing(agenda', p, c) <=> Closing(agenda, p, c)
    BY <1>1, <1>4, <1>5
  <2> HIDE DEF t, key
  <2>7. /\ Head(agenda).op = "member" /\ claim'.claimed = claim.claimed
        /\ held' # None => /\ held'.path \in Seq(Name) /\ held'.record.hash = None
                           /\ ~Due(agenda, held'.path)
    BY <1>1, <1>5 DEF t
  <2> QED BY <1>1, <2>2, <2>3, <2>4, <2>5, <2>6, <2>7, EndedMembers
<1>6. CASE held' = None
  <2>1. Fresh(claim, t)
    BY <1>1, <1>3, <1>6 DEF Fresh
  <2>2. /\ agenda' = <<unit>> \o Rest
        /\ \A k : k \in claim'.claimed <=> k \in claim.claimed \/ k = KeyOf(Spot(t))
        /\ \A p, c : Closing(agenda', p, c) <=> Closing(agenda, p, c)
    BY <1>1, <1>3, <1>4, <1>6
  <2> HIDE DEF key
  <2> QED BY <1>1, <1>3, <1>6, <2>1, <2>2, DispatchedMembers
<1> QED BY <1>5, <1>6

-----------------------------------------------------------------------------
(* A container is closed *)

\* A task that brings nothing is done.
LEMMA RestLater ==
  ASSUME IInv, Sound, AtTask, claim # None, Head(agenda).op \in {"leg", "close"},
         NEW b, b = Rest, NEW ce, ce.claimed = claim.claimed
  PROVE  /\ \A p, q, d : ToCome(agenda, claim, p, q, d) => ToCome(b, ce, p, q, d)
         /\ \A q : ~Awaited(agenda, claim, q) => ~Awaited(b, ce, q)
<1>1. EndAlike(agenda, 1, b, 0) /\ agenda[1] = Head(agenda) /\ Len(agenda) \in Nat \ {0}
  BY RestAlike
<1>2. \A k \in 1..Len(agenda) : agenda[k].op # "unit"
  BY NoUnits
<1>3. \A x : x \in claim.claimed => x \in ce.claimed
  OBVIOUS
<1>4. ASSUME NEW p, NEW q, NEW d, ToCome(agenda, claim, p, q, d) PROVE ToCome(b, ce, p, q, d)
  <2>1. PICK k \in 1..Len(agenda) : Brings(agenda, claim, k, p, q, d)
    BY <1>4 DEF ToCome
  <2>2. Fresh(claim, agenda[k]) /\ Spot(agenda[k]) = q
    BY <2>1 DEF Brings
  <2>3. 1 < k
    <3>1. k # 1
      BY <1>1, <2>2 DEF Fresh
    <3> QED BY <1>1, <3>1
  <2>4. KeyOf(q) \notin ce.claimed
    BY <1>2, <2>2 DEF Fresh
  <2>5. \A j \in 1..0 : Fresh(ce, b[j]) => KeyOf(Spot(b[j])) # KeyOf(q)
    OBVIOUS
  <2> QED BY <1>1, <1>3, <2>1, <2>3, <2>4, <2>5, ComesLater
<1>5. ASSUME NEW q, ~Awaited(agenda, claim, q) PROVE ~Awaited(b, ce, q)
  <2>1. \A j \in 1..0 : Fresh(ce, b[j]) => Spot(b[j]) # q
    OBVIOUS
  <2> QED BY <1>1, <1>3, <1>5, <2>1, AwaitedLater
<1> QED BY <1>4, <1>5

\* By then all of its members are done.
LEMMA ClosedMembers ==
  ASSUME IInv, IInv', NestInv, NestInv', Sound, Filling, AtTask, Works, claim # None, claim' = claim,
         Head(agenda).op = "close", agenda' = Rest, NEW x \in Seq(Name), x = Head(agenda).path,
         NEW c \in Content, c = Head(agenda).content, ~Due(Rest, x),
         held' # None, held'.path = x, held'.record.hash = c,
         held'.record.status \in Bearing => ~Head(agenda).capped,
         \A p, e : Closing(agenda, p, e) <=> Closing(Rest, p, e) \/ (x = p /\ c = e)
  PROVE  Filling'
<1> DEFINE X == {x}
<1>1. \A p : p \notin X => (p \in Emit' <=> p \in Emit)
  BY EmitAfter
<1>2. \A p : p \notin X => \A e : Closing(agenda', p, e) <=> Closing(agenda, p, e)
  OBVIOUS
<1>3. \A p : Uncapped(agenda', p) => Uncapped(agenda, p)
  BY UncappedRest
<1>4. agenda[1] = Head(agenda) /\ Len(agenda) \in Nat \ {0} /\ 1 \in 1..Len(agenda)
  BY RestAlike
<1>5. Due(agenda, x) /\ Bond[x] = c /\ \A d : Closing(agenda, x, d) => d = c
  <2>1. Closing(agenda, x, c)
    OBVIOUS
  <2>2. \A d : Closing(agenda, x, d) => Bond[x] = d /\ Due(agenda, x)
    BY BondNow
  <2> QED BY <2>1, <2>2
<1>6. /\ \A p, q, d : ToCome(agenda, claim, p, q, d) => ToCome(agenda', claim', p, q, d)
      /\ \A q : ~Awaited(agenda, claim, q) => ~Awaited(agenda', claim', q)
  <2>1. PICK b, ce : b = agenda' /\ ce = claim'
    OBVIOUS
  <2>2. b = Rest /\ ce.claimed = claim.claimed
    BY <2>1
  <2>3. /\ \A p, q, d : ToCome(agenda, claim, p, q, d) => ToCome(b, ce, p, q, d)
        /\ \A q : ~Awaited(agenda, claim, q) => ~Awaited(b, ce, q)
    BY <2>2, RestLater
  <2> QED BY <2>1, <2>3
<1>7. ASSUME NEW q, NEW d, ToCome(agenda, claim, x, q, d) PROVE FALSE
  <2>1. PICK k \in 1..Len(agenda) : Brings(agenda, claim, k, x, q, d)
    BY <1>7 DEF ToCome
  <2>2. agenda[k].op = "member" /\ agenda[k].path = x
    BY <2>1, NoUnits DEF Brings, Fresh
  <2>3. PICK j \in 1..Len(agenda) : k < j /\ agenda[j].op = "close" /\ agenda[j].path = x
    BY <2>2 DEF Sound, TasksInv, Homed
  <2>4. j - 1 \in 1..Len(Rest) /\ Rest[j - 1] = agenda[j]
    <3>1. /\ Len(Rest) = Len(agenda) - 1
          /\ \A i \in 1..Len(agenda) - 1 : Rest[i] = agenda[i + 1]
      BY RestAlike DEF Rest
    <3>2. j - 1 \in 1..Len(agenda) - 1 /\ (j - 1) + 1 = j
      BY <1>4, <2>3
    <3> QED BY <3>1, <3>2
  <2> QED BY <2>3, <2>4 DEF Due
<1>8. ASSUME NEW q \in Seq(Name), NEW d \in Content, Wants(x, q, d)' PROVE Served(x, q, d)'
  <2>1. Keeps(x)' /\ Claims(x, Bond'[x], q, d) /\ Bond'[x] \in Content /\ ~Due(agenda', x)
    BY <1>8 DEF Wants, Keeps
  <2>2. x \in DOMAIN Now' /\ Now'[x].status \in Bearing
    BY <2>1 DEF Keeps
  <2>3. Bond'[x] = c
    <3>1. Bond'[x] = Old'[x]
      <4>1. Bond'[x] = IF x \in Lost(agenda', claim', held', cur') THEN None ELSE Old'[x]
        BY <2>1, BondNext, Zenon
      <4> QED BY <2>1, <4>1, ExpansionAssumption
    <3>2. Old'[x] = IF Stands(held'.record) THEN held'.record.hash ELSE None
      BY NowAfter
    <3> QED BY <2>1, <3>1, <3>2, ExpansionAssumption
  <2>4. Uncapped(agenda, x)
    <3>1. ~Head(agenda).capped
      BY <2>2, NowAfter
    <3> QED BY <1>4, <3>1 DEF Uncapped
  <2>5. Wants(x, q, d)
    BY <1>5, <2>1, <2>3, <2>4 DEF Wants, Keeps
  <2>6. Sure(q, d) /\ ~Awaited(agenda, claim, q)
    BY <1>7, <2>5 DEF Filling, MembersFine, Served
  <2>7. Sure(q, d)'
    <3>1. q # x
      <4>1. Under(x, q)
        BY <2>1, ClaimsIs
      <4> QED BY <4>1, UnderIsOrder
    <3>2. /\ \A e : Closing(agenda', q, e) <=> Closing(agenda, q, e)
          /\ q \in Emit' <=> q \in Emit
      BY <1>1, <1>2, <3>1
    <3> QED BY <2>6, <3>1, <3>2, NestedSure
  <2>8. ~Awaited(agenda', claim', q)
    BY <1>6, <2>6
  <2> QED BY <2>7, <2>8 DEF Served
<1>9. ASSUME NEW d \in Content, Sure(x, d) PROVE Sure(x, d)'
  <2>1. d = c
    BY <1>5, <1>9 DEF Sure
  <2> QED BY <2>1, WrittenSure
<1>10. MembersFine'
  <2>1. /\ \A p, q \in Seq(Name), d \in Content : p \in X /\ Wants(p, q, d)' => Served(p, q, d)'
        /\ \A q \in Seq(Name), d \in Content : q \in X /\ Sure(q, d) => Sure(q, d)'
        /\ held' # None => held'.path \in X
    BY <1>8, <1>9
  <2>2. \A p, q \in Seq(Name), d \in Content : ToCome(agenda, claim, p, q, d) => Served(p, q, d)'
    BY <1>6 DEF Served
  <2> HIDE DEF X
  <2> QED BY <1>1, <1>2, <1>3, <1>6, <2>1, <2>2, NestedMembers DEF Filling
<1>11. OldMembers'
  BY OldMembersStay DEF Filling
<1> QED BY <1>10, <1>11 DEF Filling

LEMMA CloseMembers ==
  ASSUME IInv, IInv', NestInv, NestInv', Sound, Filling, Close
  PROVE  Filling'
<1> DEFINE t == Head(agenda)
<1>1. /\ AtTask /\ t.op = "close" /\ Works /\ held' # None
      /\ agenda' = Rest /\ claim' = claim /\ claim # None
      /\ t.path \in Seq(Name) /\ t.content \in Content
      /\ held'.path = t.path /\ held'.record.hash = t.content
      /\ ~Due(Rest, t.path)
      /\ \A p, c : Closing(agenda, p, c) <=> Closing(Rest, p, c) \/ (t.path = p /\ t.content = c)
  BY CloseIs
<1>2. held'.record.status \in Bearing => ~t.capped
  BY DEF Close, Refuse, Write, Bearing
<1> QED BY <1>1, <1>2, ClosedMembers

-----------------------------------------------------------------------------
(* Members: the leg, and the end of an expansion *)

LEMMA LegMembers ==
  ASSUME IInv, IInv', NestInv, NestInv', Sound, Filling, Leg
  PROVE  Filling'
<1> DEFINE t == Head(agenda)
           x == Spot(t)
<1>1. /\ AtTask /\ t.op = "leg" /\ Works /\ HasLeg(t.content) /\ x \in Below(cur)
      /\ claim = None => claim' = NewClaim(cur) /\ agenda' = <<[op |-> "reconcile"]>>
      /\ claim # None => claim' = claim /\ agenda' = Rest
      /\ held' # None => held'.path = x
  BY LegIs
<1>2. /\ claim' # None
      /\ \A p \in Seq(Name) : held' = None \/ p # x => Bond'[p] = Bond[p]
      /\ held' # None => Bond'[x] = t.content
      /\ \A p, c : Closing(agenda', p, c) <=> Closing(agenda, p, c)
      /\ claim # None => \A q \in claim.emitted : q \in claim'.emitted
  BY LegBond
<1>3. Bond[x] = None /\ x \notin Emit /\ ~Due(agenda, x)
  <2>1. Promised(t.path, x, t.content)
    BY <1>1, LegPromises
  <2>2. x \in Tree(x)
    BY <1>1 DEF Tree, Below
  <2> QED BY <1>1, <2>1, <2>2 DEF Promised, Shut, Below
<1> HIDE DEF t, x
<1>4. \A p : Due(agenda', p) <=> Due(agenda, p)
  BY <1>2, DueIs, Zenon
<1>5. /\ \A p : Uncapped(agenda', p) => Uncapped(agenda, p)
      /\ \A p, q, d : ToCome(agenda, claim, p, q, d) => ToCome(agenda', claim', p, q, d)
      /\ \A q : ~Awaited(agenda, claim, q) => ~Awaited(agenda', claim', q)
  <2>1. PICK b, ce : b = agenda' /\ ce = claim'
    OBVIOUS
  <2>2. CASE claim # None
    <3>1. b = Rest /\ ce.claimed = claim.claimed
      BY <1>1, <2>1, <2>2
    <3>2. \A p : Uncapped(b, p) => Uncapped(agenda, p)
      BY <1>1, <3>1, UncappedRest
    <3>3. Head(agenda).op \in {"leg", "close"}
      BY <1>1 DEF t
    <3>4. /\ \A p, q, d : ToCome(agenda, claim, p, q, d) => ToCome(b, ce, p, q, d)
          /\ \A q : ~Awaited(agenda, claim, q) => ~Awaited(b, ce, q)
      BY <1>1, <2>2, <3>1, <3>3, RestLater
    <3> QED BY <2>1, <3>2, <3>4
  <2>3. CASE claim = None
    <3>1. \A k \in 1..Len(b) : b[k].op = "reconcile"
      <4> DEFINE r == [op |-> "reconcile"]
      <4>1. r.op = "reconcile"
        OBVIOUS
      <4> HIDE DEF r
      <4>2. b = <<r>>
        BY <1>1, <2>1, <2>3 DEF r
      <4> QED BY <4>1, <4>2
    <3>2. \A p : ~Uncapped(b, p)
      BY <3>1 DEF Uncapped
    <3>3. \A q : ~Awaited(b, ce, q)
      BY <3>1 DEF Awaited, Fresh
    <3>4. \A p, q, d : ~ToCome(agenda, claim, p, q, d)
      <4>1. Head(agenda).op # "unit"
        BY <1>1 DEF t
      <4> QED BY <1>1, <2>3, <4>1, TopAgenda
    <3> QED BY <2>1, <3>2, <3>3, <3>4
  <2> QED BY <2>2, <2>3
<1>6. /\ Now = terminal
      /\ \A p \in Seq(Name) : held' = None \/ p # x =>
           /\ p \in DOMAIN Now' <=> p \in DOMAIN terminal
           /\ p \in DOMAIN terminal => Now'[p] = terminal[p]
  BY <1>1, NowAfter
<1>7. ASSUME NEW q \in Seq(Name), q \in Lost(agenda', claim', held', cur')
      PROVE  q \in Lost(agenda, claim, held, cur)
  <2>1. q \in Below(cur) /\ q \notin Emit'
    BY <1>1, <1>2, <1>7, BondNext DEF Works
  <2>2. CASE claim # None
    <3>1. q \notin Emit
      BY <1>1, <1>2, <2>1, <2>2, EmitAfter
    <3> QED BY <2>1, <2>2, <3>1, BondNow
  <2>3. CASE claim = None
    BY <1>1, <2>1, <2>3 DEF Lost, AtTask, t
  <2> QED BY <2>2, <2>3
<1>8. \A d : ~Sure(x, d)
  <2>1. x \in Seq(Name)
    BY <1>1 DEF Below
  <2>2. x \in Lost(agenda, claim, held, cur)
    <3>1. CASE claim # None
      BY <1>1, <1>3, <2>1, <3>1, BondNow
    <3>2. CASE claim = None
      BY <1>1, <3>2 DEF Lost, AtTask, t
    <3> QED BY <3>1, <3>2
  <2>3. \A d : ~Closing(agenda, x, d)
    BY <1>3, DueIs
  <2> QED BY <2>2, <2>3 DEF Sure
<1>9. MembersFine'
  <2>1. SUFFICES ASSUME NEW p \in Seq(Name), NEW q \in Seq(Name), NEW d \in Content, Wants(p, q, d)'
                 PROVE  Served(p, q, d)'
    BY DEF MembersFine
  <2>2. Keeps(p)' /\ Claims(p, Bond'[p], q, d) /\ Bond'[p] \in Content
    BY <2>1 DEF Wants, Keeps
  <2>3. held' = None \/ p # x
    <3>1. SUFFICES ASSUME held' # None, p = x PROVE FALSE
      OBVIOUS
    <3>2. Bond'[p] = t.content
      BY <1>2, <3>1
    <3>3. Kind[Bond'[p]] = "container"
      BY <2>2, ClaimsIs
    <3> QED BY <1>1, <3>2, <3>3 DEF HasLeg
  <2>4. Wants(p, q, d)
    BY <1>2, <1>4, <1>5, <1>6, <2>2, <2>3 DEF Wants, Keeps
  <2>5. CASE ToCome(agenda, claim, p, q, d)
    BY <1>5, <2>5 DEF Served
  <2>6. CASE Sure(q, d) /\ ~Awaited(agenda, claim, q)
    <3>1. q # x
      BY <1>8, <2>6
    <3>2. Sure(q, d)'
      BY <1>2, <1>4, <1>6, <1>7, <2>6, <3>1 DEF Sure
    <3> QED BY <1>5, <2>6, <3>2 DEF Served
  <2> QED BY <2>4, <2>5, <2>6 DEF Filling, MembersFine, Served
<1>10. OldMembers'
  BY <1>1, <1>2, OldMembersStay DEF Filling, t
<1> QED BY <1>9, <1>10 DEF Filling

LEMMA EndMembers ==
  ASSUME IInv, IInv', NestInv, NestInv', Filling, NEW left, Ends(left)
  PROVE  Filling'
<1>1. /\ AtTask /\ Works /\ Head(agenda).op \in {"reconcile", "retire"} /\ Rest = <<>>
      /\ held' # None => /\ held'.record.hash = None
                         /\ held'.path \in Lost(agenda, claim, held, cur)
      /\ \A p \in left : p \in Lost(agenda, claim, held, cur)
      /\ claim' = None
  BY DEF Ends
<1>2. /\ agenda' # <<>> => Head(agenda').op = "retire"
      /\ Lost(agenda', claim', held', cur') = left
      /\ \A p : ~Due(agenda, p) /\ ~Due(agenda', p)
      /\ \A p \in Seq(Name) : Bond'[p] = Bond[p]
  BY EndBond
<1>3. \A k \in 1..Len(agenda) : agenda[k].op \in {"reconcile", "retire"}
  <2>1. /\ Len(agenda) \in Nat \ {0} /\ Head(agenda) = agenda[1]
        /\ Len(Rest) = Len(agenda) - 1
    BY <1>1, RestAlike DEF Rest
  <2>2. Len(Rest) = 0
    BY <1>1
  <2>3. Len(agenda) = 1
    BY <2>1, <2>2
  <2> QED BY <1>1, <2>1, <2>3
<1>4. \A k \in 1..Len(agenda') : agenda'[k].op = "retire"
  <2> DEFINE r == [op |-> "retire", left |-> left]
  <2>1. r.op = "retire"
    OBVIOUS
  <2> HIDE DEF r
  <2>2. agenda' = <<>> \/ agenda' = <<r>>
    BY DEF Ends, r
  <2> QED BY <2>1, <2>2
<1>5. /\ \A p, q, d : ~ToCome(agenda, claim, p, q, d)
      /\ \A q : ~Awaited(agenda', claim', q)
  BY <1>3, <1>4 DEF ToCome, Brings, Awaited, Fresh
<1>6. /\ Now = terminal
      /\ \A p \in Seq(Name) : held' = None \/ p # held'.path =>
           /\ p \in DOMAIN Now' <=> p \in DOMAIN terminal
           /\ p \in DOMAIN terminal => Now'[p] = terminal[p]
  BY <1>1, NowAfter
<1>7. MembersFine'
  <2>1. SUFFICES ASSUME NEW p \in Seq(Name), NEW q \in Seq(Name), NEW d \in Content, Wants(p, q, d)'
                 PROVE  Served(p, q, d)'
    BY DEF MembersFine
  <2>2. Keeps(p)' /\ Claims(p, Bond'[p], q, d) /\ Bond'[p] \in Content
    BY <2>1 DEF Wants, Keeps
  <2>3. held' = None \/ p # held'.path
    <3>1. SUFFICES ASSUME held' # None, p = held'.path PROVE FALSE
      OBVIOUS
    <3>2. Old'[p] = None
      BY <1>1, <3>1, NowAfter DEF Stands
    <3>3. Bond'[p] = IF p \in Lost(agenda', claim', held', cur') THEN None ELSE Old'[p]
      BY <1>2, BondNext, Zenon
    <3> QED BY <2>2, <3>2, <3>3, ExpansionAssumption
  <2>4. Wants(p, q, d)
    BY <1>2, <1>6, <2>2, <2>3 DEF Wants, Keeps
  <2>5. Sure(q, d)
    BY <1>5, <2>4 DEF Filling, MembersFine, Served
  <2>6. q \in DOMAIN Now /\ Now[q].hash = d /\ q \notin Lost(agenda, claim, held, cur)
    <3>1. ~Closing(agenda, q, d)
      BY <1>2, DueIs
    <3> QED BY <2>5, <3>1 DEF Sure
  <2>7. held' = None \/ q # held'.path
    BY <1>1, <2>6
  <2>8. Sure(q, d)'
    BY <1>1, <1>2, <1>6, <2>6, <2>7 DEF Sure
  <2> QED BY <1>5, <2>8 DEF Served
<1>8. OldMembers'
  BY <1>1, <1>2 DEF OldMembers
<1> QED BY <1>7, <1>8 DEF Filling

-----------------------------------------------------------------------------
(* Members: the unit of an entry *)

\* A container above an entry asks for nothing in its tree.
LEMMA TopMembers ==
  ASSUME IInv, IInv', NestInv, NestInv', AtTask, Works, MembersFine, claim = None,
         Head(agenda).op = "unit", held' # None => held'.path = cur,
         NEW X, (X = {cur} /\ agenda' = <<>>) \/ X = Tree(cur),
         \A p \in Seq(Name) : p \notin X => /\ Bond'[p] = Bond[p] /\ ~Due(agenda', p)
                                            /\ p \notin Lost(agenda', claim', held', cur'),
         \A p, q \in Seq(Name), d \in Content : p \in X /\ Wants(p, q, d)' => Served(p, q, d)'
  PROVE  MembersFine'
<1>1. /\ Now = terminal
      /\ \A p \in Seq(Name) : held' = None \/ p # held'.path =>
           /\ p \in DOMAIN Now' <=> p \in DOMAIN terminal
           /\ p \in DOMAIN terminal => Now'[p] = terminal[p]
  BY NowAfter
<1>2. cur \in Roots /\ cur \in Seq(Name) /\ cur \in Tree(cur) /\ cur' = cur
  BY TaskAt DEF Works
<1>3. /\ \A p \in Seq(Name) : Bond[p] = Old[p]
      /\ \A p, c : ~Closing(agenda, p, c)
  BY TopBond
<1>4. SUFFICES ASSUME NEW p \in Seq(Name), NEW q \in Seq(Name), NEW d \in Content, p \notin X,
                      Wants(p, q, d)'
               PROVE  Served(p, q, d)'
  BY DEF MembersFine
<1>5. Keeps(p)' /\ Claims(p, Bond'[p], q, d) /\ Bond'[p] \in Content
  BY <1>4 DEF Wants, Keeps
<1>6. p # cur /\ Under(p, q) /\ ~Crossed(p, q)
  BY <1>2, <1>4, <1>5, ClaimsIs
<1>7. q \notin X /\ q # cur
  <2>1. q \in Tree(cur) => p \in Tree(cur) /\ q # cur
    BY <1>2, <1>6, CrossedIs
  <2> QED BY <1>2, <1>4, <2>1
<1>8. Wants(p, q, d)
  <2>1. ~Due(agenda, p)
    BY <1>3, DueIs
  <2>2. p \in DOMAIN Now /\ Now[p].status \in Bearing
    BY <1>1, <1>4, <1>5, <1>6 DEF Keeps
  <2> QED BY <1>4, <1>5, <2>1, <2>2 DEF Wants, Keeps
<1>9. q \in DOMAIN Now /\ Now[q].hash = d
  <2>1. ~ToCome(agenda, claim, p, q, d)
    BY <1>7, TopAgenda
  <2>2. Sure(q, d)
    BY <1>8, <2>1 DEF MembersFine, Served
  <2> QED BY <1>3, <2>2 DEF Sure
<1>10. Sure(q, d)'
  BY <1>1, <1>4, <1>7, <1>9 DEF Sure
<1>11. ~Awaited(agenda', claim', q)
  <2>1. SUFFICES ASSUME NEW k \in 1..Len(agenda'), Fresh(claim', agenda'[k]), Spot(agenda'[k]) = q
                 PROVE  FALSE
    BY DEF Awaited
  <2>2. agenda'[k] \in Task(cur)
    BY <1>2, <2>1, PrimedAgenda, ElementOfSeq
  <2>3. agenda'[k].op \in {"unit", "leg", "member"}
    BY <2>1 DEF Fresh
  <2>4. q \in Tree(cur)
    BY <1>2, <2>1, <2>2, <2>3, SpotIs
  <2>5. agenda' # <<>>
    BY <2>1
  <2> QED BY <1>7, <2>4, <2>5
<1> QED BY <1>10, <1>11 DEF Served

\* An entry without members, or without a text.
LEMMA HeldWants ==
  ASSUME IInv, IInv', NestInv', AtTask, Works, held' # None, NEW x \in Seq(Name), x = held'.path,
         ~Due(agenda', x), held'.record.hash \in Content,
         held'.record.status \notin Bearing \/ Kind[held'.record.hash] # "container",
         NEW q \in Seq(Name), NEW d \in Content, Wants(x, q, d)'
  PROVE  FALSE
<1>1. Keeps(x)' /\ Claims(x, Bond'[x], q, d) /\ Bond'[x] \in Content
  BY DEF Wants, Keeps
<1>2. x \in DOMAIN Now' /\ Now'[x].status \in Bearing /\ Now'[x] = held'.record
  <2>1. x \in DOMAIN Now' /\ Now'[x].status \in Bearing
    BY <1>1 DEF Keeps
  <2> QED BY <2>1, NowAfter
<1>3. Bond'[x] = held'.record.hash
  <2>1. Bond'[x] = IF x \in Lost(agenda', claim', held', cur') THEN None ELSE Old'[x]
    BY BondNext, Zenon
  <2>2. Old'[x] = IF Stands(held'.record) THEN held'.record.hash ELSE None
    BY NowAfter
  <2> QED BY <1>1, <2>1, <2>2, ExpansionAssumption
<1>4. Kind[Bond'[x]] = "container"
  BY <1>1, ClaimsIs
<1> QED BY <1>2, <1>3, <1>4

LEMMA TopDoneMembers ==
  ASSUME IInv, IInv', NestInv, NestInv', Filling, AtTask, Works, claim = None,
         Head(agenda).op = "unit", claim' = None, agenda' = <<>>, held' # None, held'.path = cur,
         NEW r, r = cur, \A q \in Seq(Name), d \in Content : Wants(r, q, d)' => Served(r, q, d)'
  PROVE  Filling'
<1>1. \A p \in Seq(Name) : p # cur => Bond'[p] = Bond[p]
  BY TopRecorded
<1>2. \A p : ~Due(agenda', p)
  BY ClosingOne, DueIs
<1>3. Lost(agenda', claim', held', cur') = {}
  BY DEF Lost
<1>4. MembersFine'
  <2> DEFINE X == {cur}
  <2>1. /\ \A p : p \in X <=> p = cur
        /\ X = {cur}
    OBVIOUS
  <2> HIDE DEF X
  <2>2. \A p \in Seq(Name) : p \notin X => /\ Bond'[p] = Bond[p] /\ ~Due(agenda', p)
                                           /\ p \notin Lost(agenda', claim', held', cur')
    BY <1>1, <1>2, <1>3, <2>1
  <2>3. \A p, q \in Seq(Name), d \in Content : p \in X /\ Wants(p, q, d)' => Served(p, q, d)'
    BY <2>1
  <2> QED BY <2>1, <2>2, <2>3, TopMembers DEF Filling
<1>5. OldMembers'
  BY DEF OldMembers
<1> QED BY <1>4, <1>5 DEF Filling

LEMMA TopTreeMembers ==
  ASSUME IInv, IInv', NestInv, NestInv', Filling, AtTask, Works, claim = None,
         Head(agenda).op = "unit", held' # None => held'.path = cur,
         \A p : Due(agenda', p) => p = cur, Lost(agenda', claim', held', cur') = Below(cur),
         NEW r, r = cur, \A q \in Seq(Name), d \in Content : Wants(r, q, d)' => Served(r, q, d)'
  PROVE  Filling'
<1>1. cur \in Seq(Name) /\ cur' = cur
  BY TaskAt DEF Works
<1>2. ASSUME NEW p \in Seq(Name), p \notin Tree(cur)
      PROVE  /\ Bond'[p] = Bond[p] /\ ~Due(agenda', p)
             /\ p \notin Lost(agenda', claim', held', cur')
  <2>1. p # cur /\ p \notin Below(cur)
    BY <1>2 DEF Tree, Below
  <2>2. Old'[p] = Old[p]
    BY <2>1, NowAfter
  <2>3. Bond'[p] = Old'[p]
    BY <2>1, BondNext
  <2>4. Bond[p] = Old[p]
    BY TopBond
  <2> QED BY <2>1, <2>2, <2>3, <2>4
<1>3. ASSUME NEW p \in Tree(cur), p # cur, NEW q, NEW d, Wants(p, q, d)' PROVE FALSE
  <2>1. p \in Below(cur) /\ p \in Seq(Name)
    BY <1>3 DEF Tree, Below
  <2>2. Bond'[p] = None
    BY <1>3, <2>1, BondNext
  <2> QED BY <1>3, <2>2, ExpansionAssumption DEF Wants, Keeps
<1>4. MembersFine'
  <2> DEFINE X == Tree(cur)
  <2>1. X = Tree(cur)
    OBVIOUS
  <2> HIDE DEF X
  <2>2. \A p \in Seq(Name) : p \notin X => /\ Bond'[p] = Bond[p] /\ ~Due(agenda', p)
                                           /\ p \notin Lost(agenda', claim', held', cur')
    BY <1>2, <2>1
  <2>3. \A p, q \in Seq(Name), d \in Content : p \in X /\ Wants(p, q, d)' => Served(p, q, d)'
    BY <1>3, <2>1
  <2> QED BY <2>1, <2>2, <2>3, TopMembers DEF Filling
<1>5. OldMembers'
  BY OldMembersStart DEF Filling
<1> QED BY <1>4, <1>5 DEF Filling

LEMMA TopSkipMembers ==
  ASSUME IInv, IInv', NestInv, NestInv', Filling, Skip, claim = None
  PROVE  Filling'
<1>1. /\ AtTask /\ Head(agenda).op = "unit" /\ Works /\ agenda' = Rest
      /\ held' # None /\ held'.path = cur /\ held'.record = terminal[cur]
      /\ cur \in DOMAIN terminal /\ claim' = None
  BY SkipIs
<1>2. agenda' = <<>>
  BY <1>1, TaskAt
<1>3. /\ cur \in Seq(Name) /\ Now = terminal /\ cur \in DOMAIN Now' /\ Now'[cur] = held'.record
      /\ \A p \in Seq(Name) : Bond'[p] = Old'[p]
  BY <1>1, <1>2, TopRecorded
<1>4. \A p \in Seq(Name) : /\ p \in DOMAIN Now' <=> p \in DOMAIN Now
                           /\ p \in DOMAIN Now => Now'[p] = Now[p]
  <2>1. \A p \in Seq(Name) : p # cur => /\ p \in DOMAIN Now' <=> p \in DOMAIN Now
                                        /\ p \in DOMAIN Now => Now'[p] = Now[p]
    BY <1>1, <1>3, NowAfter
  <2> QED BY <1>1, <1>3, <2>1
<1>5. Bond'[cur] = Bond[cur]
  <2>1. Old'[cur] = Old[cur]
    BY <1>3, <1>4, HoldingIs DEF Old
  <2> QED BY <1>1, <1>3, <2>1, TopBond
<1> PICK r : r = cur
  OBVIOUS
<1>6. ASSUME NEW q \in Seq(Name), NEW d \in Content, Wants(r, q, d)' PROVE Served(r, q, d)'
  <2>1. Keeps(r)' /\ Claims(r, Bond'[r], q, d) /\ Bond'[r] \in Content
    BY <1>6 DEF Wants, Keeps
  <2>2. q # cur
    <3>1. Under(cur, q)
      BY <1>3, <2>1, ClaimsIs
    <3> QED BY <1>3, <3>1, UnderIsOrder
  <2>3. /\ \A p : ~Due(agenda, p) /\ ~Due(agenda', p)
        /\ \A p, c : ~Closing(agenda, p, c)
    BY <1>1, <1>2, TopBond, ClosingOne, DueIs
  <2>4. Wants(r, q, d)
    BY <1>3, <1>4, <1>5, <2>1, <2>3 DEF Wants, Keeps
  <2>5. Sure(q, d)
    <3>1. ~ToCome(agenda, claim, r, q, d)
      BY <1>1, <2>2, TopAgenda
    <3> QED BY <1>3, <2>4, <3>1 DEF Filling, MembersFine, Served
  <2>6. Sure(q, d)'
    <3>1. Lost(agenda', claim', held', cur') = {}
      BY <1>1, <1>2 DEF Lost
    <3> QED BY <1>4, <2>3, <2>5, <3>1 DEF Sure
  <2>7. ~Awaited(agenda', claim', q)
    BY <1>2 DEF Awaited
  <2> QED BY <2>6, <2>7 DEF Served
<1> QED BY <1>1, <1>2, <1>6, TopDoneMembers

LEMMA TopBorrowMembers ==
  ASSUME IInv, IInv', NestInv, NestInv', Filling, Borrow, claim = None
  PROVE  Filling'
<1>1. /\ AtTask /\ Head(agenda).op = "unit" /\ Works /\ held' # None /\ held'.path = cur
      /\ held'.record.hash = Head(agenda).content /\ Kind[Head(agenda).content] = "leaf"
      /\ Head(agenda).content \in Content
  BY RecordingIs
<1>2. claim' = None /\ agenda' = <<>>
  BY <1>1, TaskAt DEF Borrow
<1> PICK r : r = cur
  OBVIOUS
<1>3. r \in Seq(Name) /\ ~Due(agenda', r)
  BY <1>1, <1>2, TaskAt, ClosingOne, DueIs
<1>4. ASSUME NEW q \in Seq(Name), NEW d \in Content, Wants(r, q, d)' PROVE FALSE
  BY <1>1, <1>3, <1>4, HeldWants
<1> QED BY <1>1, <1>2, <1>4, TopDoneMembers

LEMMA ReconcileOnly ==
  ASSUME IInv, IInv', NestInv, NestInv', Sound, AtTask, Works, claim = None, Head(agenda).op = "unit",
         claim' = NewClaim(cur), held' = None \/ held'.path = cur,
         \A p, c : Closing(agenda', p, c) => p = cur
  PROVE  (\A p : Due(agenda', p) => p = cur) /\ Lost(agenda', claim', held', cur') = Below(cur)
<1>1. cur \in Seq(Name) /\ cur' = cur /\ claim' # None /\ \A p : p \notin Emit'
  <2>1. \A p : p \notin Emit'
    BY TopClaimed
  <2> QED BY <2>1, TaskAt, NewClaimIs DEF Works
<1>2. \A p : Due(agenda', p) => p = cur
  BY DueIs
<1>3. Lost(agenda', claim', held', cur') = Below(cur) \ Emit'
  BY <1>1, BondNext
<1> QED BY <1>1, <1>2, <1>3

LEMMA TopLeafMembers ==
  ASSUME IInv, IInv', NestInv, NestInv', Sound, Filling, Leaf, claim = None
  PROVE  Filling'
<1> DEFINE after == <<[op |-> "reconcile"]>>
<1>1. /\ AtTask /\ Head(agenda).op = "unit" /\ Head(agenda).path = cur /\ Works /\ held' # None
      /\ held'.path = cur /\ Head(agenda).content \in Content
      /\ held'.record.hash = Head(agenda).content /\ Kind[Head(agenda).content] = "leaf"
  BY RecordingIs
<1>2. Rest = <<>>
  BY <1>1, TaskAt
<1>3. \/ claim' = NewClaim(cur) /\ agenda' = after
      \/ claim' = None /\ agenda' = <<>>
  <2>1. <<[op |-> "reconcile"]>> \o Rest = after
    BY <1>2
  <2> HIDE DEF after
  <2> QED BY <1>1, <1>2, <2>1 DEF Leaf
<1>4. \A p, c : ~Closing(after, p, c)
  BY OnlyReconcile
<1> HIDE DEF after
<1> PICK r : r = cur
  OBVIOUS
<1>5. r \in Seq(Name) /\ ~Due(agenda', r)
  BY <1>1, <1>3, <1>4, TaskAt, ClosingOne, DueIs
<1>6. ASSUME NEW q \in Seq(Name), NEW d \in Content, Wants(r, q, d)' PROVE FALSE
  BY <1>1, <1>5, <1>6, HeldWants
<1>7. CASE claim' = NewClaim(cur) /\ agenda' = after
  <2>1. (\A p : Due(agenda', p) => p = cur) /\ Lost(agenda', claim', held', cur') = Below(cur)
    BY <1>1, <1>4, <1>7, ReconcileOnly
  <2> QED BY <1>1, <1>6, <2>1, TopTreeMembers
<1>8. CASE claim' = None /\ agenda' = <<>>
  BY <1>1, <1>6, <1>8, TopDoneMembers
<1> QED BY <1>3, <1>7, <1>8

LEMMA TopPrimaryMembers ==
  ASSUME IInv, IInv', NestInv, NestInv', Filling, Primary, claim = None
  PROVE  Filling'
<1> DEFINE u == Head(agenda)
           leg == [op |-> "leg", path |-> u.path, content |-> u.content]
<1>1. /\ AtTask /\ u.op = "unit" /\ Works /\ u.content \in Content /\ u.path = cur
      /\ held' # None /\ held'.path = cur /\ held'.record.hash = u.content /\ HasLeg(u.content)
  BY RecordingIs
<1>2. Rest = <<>> /\ cur \in Roots /\ cur \in Seq(Name) /\ cur' = cur
  BY <1>1, TaskAt DEF Works
<1>3. claim' = None /\ (agenda' = <<leg>> \/ agenda' = <<>>)
  <2>1. <<leg>> \o Rest = <<leg>>
    BY <1>2
  <2> HIDE DEF leg
  <2>2. claim' = None
    BY DEF Primary
  <2>3. agenda' = <<leg>> \o Rest \/ agenda' = Rest
    BY <1>1 DEF Primary, leg
  <2> QED BY <1>2, <2>1, <2>2, <2>3
<1>4. leg.op = "leg"
  OBVIOUS
<1> HIDE DEF leg
<1>5. \A p : ~Due(agenda', p)
  <2>1. \A p, c : ~Closing(agenda', p, c)
    BY <1>3, <1>4, ClosingOne
  <2> QED BY <2>1, DueIs
<1> PICK r : r = cur
  OBVIOUS
<1>6. ASSUME NEW q \in Seq(Name), NEW d \in Content, Wants(r, q, d)' PROVE FALSE
  <2>1. Kind[held'.record.hash] # "container"
    BY <1>1 DEF HasLeg
  <2> QED BY <1>1, <1>2, <1>5, <1>6, <2>1, HeldWants
<1> HIDE DEF u
<1>7. CASE agenda' = <<>>
  BY <1>1, <1>3, <1>6, <1>7, TopDoneMembers DEF u
<1>8. CASE agenda' = <<leg>>
  <2>1. Head(agenda') = leg /\ agenda' # <<>>
    BY <1>8
  <2>2. Lost(agenda', claim', held', cur') = Below(cur)
    BY <1>2, <1>3, <1>4, <2>1 DEF Lost
  <2> QED BY <1>1, <1>5, <1>6, <2>2, TopTreeMembers DEF u
<1> QED BY <1>3, <1>7, <1>8

LEMMA TopOpeningMembers ==
  ASSUME IInv, IInv', NestInv, NestInv', Sound, Filling, Open, claim = None
  PROVE  Filling'
<1> DEFINE u == Head(agenda)
           after == <<[op |-> "reconcile"]>>
<1>1. /\ AtTask /\ u.op = "unit" /\ Works /\ u.content \in Content
      /\ u \in Task(cur) /\ cur \in Seq(Name) /\ claim' = NewClaim(cur) /\ u.path = cur
      /\ \/ /\ agenda' = after
            /\ held' # None /\ held'.path = cur /\ held'.record.status = "failed"
            /\ held'.record.hash = u.content
         \/ agenda' = Tasks(u) \o after /\ held' = None
  <2>1. AtTask
    BY OpenIs
  <2>2. Rest = <<>>
    BY <2>1, TaskAt
  <2>3. <<[op |-> "reconcile"]>> \o Rest = after
    BY <2>2
  <2> QED BY <2>3, OpenIs
<1>2. after \in Seq(Task(cur)) /\ \A p, c : ~Closing(after, p, c)
  BY OnlyReconcile
<1> HIDE DEF after, u
<1> PICK r : r = cur
  OBVIOUS
<1>3. CASE agenda' = after /\ held' # None /\ held'.path = cur /\ held'.record.status = "failed"
           /\ held'.record.hash = u.content
  <2>1. \A p : ~Due(agenda', p)
    BY <1>2, <1>3, DueIs
  <2>2. ASSUME NEW q \in Seq(Name), NEW d \in Content, Wants(r, q, d)' PROVE FALSE
    <3>1. held'.record.status \notin Bearing
      BY <1>3 DEF Bearing
    <3> QED BY <1>1, <1>3, <2>1, <2>2, <3>1, HeldWants
  <2>3. Lost(agenda', claim', held', cur') = Below(cur)
    BY <1>1, <1>2, <1>3, ReconcileOnly DEF u
  <2> QED BY <1>1, <1>3, <2>1, <2>2, <2>3, TopTreeMembers DEF u
<1>4. CASE agenda' = Tasks(u) \o after /\ held' = None
  <2>1. \A p, c : Closing(agenda', p, c) <=> cur = p /\ u.content = c
    BY <1>1, <1>2, <1>4, ClosingTasks
  <2>2. (\A p : Due(agenda', p) => p = cur) /\ Lost(agenda', claim', held', cur') = Below(cur)
    BY <1>1, <1>4, <2>1, ReconcileOnly DEF u
  <2>3. Bond'[r] = u.content
    <3>1. Closing(agenda', r, u.content)
      BY <2>1
    <3> QED BY <1>1, <3>1, BondNext
  <2>4. ASSUME NEW q \in Seq(Name), NEW d \in Content, Wants(r, q, d)' PROVE Served(r, q, d)'
    <3>1. Claims(r, u.content, q, d)
      BY <2>3, <2>4 DEF Wants
    <3>2. PICK v, b, ce : v = u /\ b = after /\ ce = claim'
      OBVIOUS
    <3>3. \A y \in Seq(Name) : Under(r, y) => KeyOf(y) \notin ce.claimed
      BY <1>1, <3>2 DEF NewClaim
    <3>4. v \in Task(r) /\ v.op = "unit" /\ b \in Seq(Task(r)) /\ v.path = r /\ v.content \in Content
          /\ r \in Seq(Name)
      BY <1>1, <1>2, <3>2
    <3>5. Claims(r, v.content, q, d)
      BY <3>1, <3>2
    <3>6. ToCome(Tasks(v) \o b, ce, r, q, d)
      BY <3>3, <3>4, <3>5, MembersToCome
    <3>7. agenda' = Tasks(v) \o b /\ claim' = ce
      BY <1>4, <3>2
    <3>8. ToCome(agenda', claim', r, q, d)
      BY <3>6, <3>7
    <3> QED BY <3>8 DEF Served
  <2> QED BY <1>1, <1>4, <2>2, <2>4, TopTreeMembers DEF u
<1> QED BY <1>1, <1>3, <1>4

-----------------------------------------------------------------------------
(* Members: the run and the environment *)

\* What only touches the files, or appends what is in hand.
LEMMA PassingMembers ==
  ASSUME Filling, Now' = Now, Emit' = Emit, UNCHANGED <<agenda, cur>>,
         Lost(agenda', claim', held', cur') = Lost(agenda, claim, held, cur),
         claim' = None <=> claim = None, claim' = claim \/ claim'.claimed = claim.claimed
  PROVE  Filling'
<1>1. Old' = Old /\ Bond' = Bond
  BY DEF Old, Bond
<1>2. \A t : Fresh(claim', t) <=> Fresh(claim, t)
  BY DEF Fresh
<1>3. /\ \A p, q, d : ToCome(agenda, claim', p, q, d) <=> ToCome(agenda, claim, p, q, d)
      /\ \A q : Awaited(agenda, claim', q) <=> Awaited(agenda, claim, q)
  BY <1>2 DEF ToCome, Brings, Awaited
<1>4. MembersFine'
  <2>1. SUFFICES ASSUME NEW p \in Seq(Name), NEW q \in Seq(Name), NEW d \in Content, Wants(p, q, d)'
                 PROVE  Served(p, q, d)'
    BY DEF MembersFine
  <2>2. Wants(p, q, d)
    BY <1>1, <2>1 DEF Wants, Keeps
  <2>3. Served(p, q, d)
    BY <2>2 DEF Filling, MembersFine
  <2>4. Sure(q, d) => Sure(q, d)'
    BY DEF Sure
  <2> QED BY <1>3, <2>3, <2>4 DEF Served
<1>5. OldMembers'
  <2>1. SUFFICES ASSUME claim # None \/ (agenda # <<>> /\ Head(agenda).op = "leg"),
                        NEW p \in Below(cur), NEW q \in Seq(Name), NEW d \in Content,
                        Untouched(p), Old[p] \in Content, p \in DOMAIN Now,
                        Now[p].status \in Bearing, Claims(p, Old[p], q, d)
                 PROVE  q \in DOMAIN Now /\ Now[q].hash = d
    BY <1>1 DEF OldMembers, Untouched
  <2> QED BY <2>1 DEF Filling, OldMembers
<1> QED BY <1>4, <1>5 DEF Filling

LEMMA AppendMembers ==
  ASSUME IInv, Filling, AppendRecord
  PROVE  Filling'
<1>1. /\ held # None /\ held' = None /\ terminal' = With(terminal, held.path, held.record)
      /\ claim' = IF claim # None /\ Under(claim.prefix, held.path)
                  THEN [claim EXCEPT !.emitted = @ \cup {held.path}] ELSE claim
      /\ UNCHANGED <<agenda, cur>>
  BY DEF AppendRecord, run
<1>2. claim # None => claim \in Claim
  BY DEF IInv, TypeOK
<1>3. Now' = Now
  BY <1>1 DEF Now, Recorded
<1>4. claim # None => /\ claim'.prefix = claim.prefix /\ claim'.claimed = claim.claimed
                      /\ \A p : p \in claim'.emitted <=>
                           p \in claim.emitted \/ (p = held.path /\ p \in Below(claim.prefix))
  <2>1. held.path \in Seq(Name)
    BY <1>1 DEF IInv, TypeOK, Held
  <2> QED BY <1>1, <1>2, <2>1 DEF Claim, Below
<1>5. claim' = None <=> claim = None
  <2>1. CASE claim # None /\ Under(claim.prefix, held.path)
    <3>1. held.path \in Seq(Name)
      BY <1>1 DEF IInv, TypeOK, Held
    <3>2. claim' \in Claim
      BY <1>1, <1>2, <2>1, <3>1 DEF Claim
    <3> QED BY <2>1, <3>2, ExpansionAssumption
  <2> QED BY <1>1, <2>1
<1>6. Emitted(claim', None) = Emitted(claim, held)
  BY <1>1, <1>4, <1>5 DEF Emitted
<1>7. Emit' = Emit /\ Lost(agenda', claim', held', cur') = Lost(agenda, claim, held, cur)
  BY <1>1, <1>5, <1>6 DEF Emit, Lost
<1>8. claim' = claim \/ claim'.claimed = claim.claimed
  BY <1>1, <1>4
<1> QED BY <1>1, <1>3, <1>5, <1>7, <1>8, PassingMembers

LEMMA DisturbedMembers ==
  ASSUME Filling, UNCHANGED <<terminal, walked, cur, agenda, claim, held>>
  PROVE  Filling'
<1>1. Now' = Now /\ Emit' = Emit
  BY DEF Now, Emit
<1>2. Lost(agenda', claim', held', cur') = Lost(agenda, claim, held, cur)
  OBVIOUS
<1> QED BY <1>1, <1>2, PassingMembers

\* Between two entries, and before the first task of the next one, w.
LEMMA RestingMembers ==
  ASSUME MembersFine, claim = None, agenda = <<>>, claim' = None, NEW w \in Roots \cup {None},
         agenda' = <<>> \/ \E t : agenda' = <<t>> /\ t.op = "unit" /\ t.path = w,
         \A p \in Seq(Name) : p # w => /\ p \in DOMAIN Now' <=> p \in DOMAIN Now
                                       /\ p \in DOMAIN Now => Now'[p] = Now[p],
         Now' = Now \/ (w \in DOMAIN Now' /\ Now'[w].status \notin Bearing)
  PROVE  Filling'
<1>1. /\ \A p \in Seq(Name) : Bond'[p] = Old'[p] /\ Bond[p] = Old[p]
      /\ \A p \in Seq(Name) : ~Due(agenda, p) /\ ~Due(agenda', p)
  <2>1. \A p \in Seq(Name) : Bond'[p] = Old'[p]
    BY RestingNext
  <2>2. \A p \in Seq(Name) : Bond[p] = Old[p]
    BY RestingBond
  <2>3. (agenda = <<>> \/ \E t : agenda = <<t>> /\ t.op = "unit")
        /\ (agenda' = <<>> \/ \E t : agenda' = <<t>> /\ t.op = "unit")
    OBVIOUS
  <2>4. \A p \in Seq(Name) : ~Due(agenda, p) /\ ~Due(agenda', p)
    BY <2>3, Plain
  <2> QED BY <2>1, <2>2, <2>4
<1>2. agenda' # <<>> => Head(agenda').op = "unit"
  OBVIOUS
<1>3. \A p \in Seq(Name) : p # w => Bond'[p] = Bond[p]
  <2>1. SUFFICES ASSUME NEW p \in Seq(Name), p # w PROVE Old'[p] = Old[p]
    BY <1>1
  <2>2. Old'[p] = IF p \in DOMAIN Now' /\ Stands(Now'[p]) THEN Now'[p].hash ELSE None
    BY HoldingIs DEF Old
  <2>3. Old[p] = IF p \in DOMAIN Now /\ Stands(Now[p]) THEN Now[p].hash ELSE None
    BY HoldingIs DEF Old
  <2> QED BY <2>1, <2>2, <2>3
<1>4. MembersFine'
  <2>1. SUFFICES ASSUME NEW p \in Seq(Name), NEW q \in Seq(Name), NEW d \in Content, Wants(p, q, d)'
                 PROVE  Served(p, q, d)'
    BY DEF MembersFine
  <2>2. Keeps(p)' /\ Claims(p, Bond'[p], q, d) /\ Bond'[p] \in Content
        /\ p \in DOMAIN Now' /\ Now'[p].status \in Bearing
    BY <1>1, <2>1 DEF Wants, Keeps
  <2>3. q # w
    <3>1. Under(p, q) /\ ~Crossed(p, q)
      BY <2>2, ClaimsIs
    <3>2. w \in Roots => q # w
      <4>1. SUFFICES ASSUME w \in Roots, q = w PROVE FALSE
        OBVIOUS
      <4>2. q \in Tree(w)
        BY <4>1 DEF Tree
      <4> QED BY <3>1, <4>1, <4>2, CrossedIs
    <3> QED BY <3>2, ExpansionAssumption
  <2>4. Wants(p, q, d)
    <3>1. CASE Now' = Now
      <4>1. Old' = Old
        BY <3>1 DEF Old
      <4> QED BY <1>1, <2>1, <2>2, <3>1, <4>1 DEF Wants, Keeps
    <3>2. CASE p # w
      BY <1>1, <1>3, <2>1, <2>2, <3>2 DEF Wants, Keeps
    <3> QED BY <2>2, <3>1, <3>2
  <2>5. \A a, b, c : ~ToCome(agenda, claim, a, b, c)
    BY DEF ToCome
  <2>6. Sure(q, d)
    BY <2>4, <2>5 DEF MembersFine, Served
  <2>7. q \in DOMAIN Now /\ Now[q].hash = d
    <3>1. ~Closing(agenda, q, d)
      BY <1>1, DueIs
    <3> QED BY <2>6, <3>1 DEF Sure
  <2>8. Lost(agenda', claim', held', cur') = {}
    BY <1>2 DEF Lost
  <2>9. Sure(q, d)'
    BY <1>1, <2>3, <2>7, <2>8 DEF Sure
  <2>10. ~Awaited(agenda', claim', q)
    <3>1. CASE agenda' = <<>>
      BY <3>1 DEF Awaited
    <3>2. CASE agenda' # <<>>
      <4>1. PICK t : agenda' = <<t>> /\ t.op = "unit" /\ t.path = w
        BY <3>2
      <4>2. \A k \in 1..Len(agenda') : Spot(agenda'[k]) = w
        <5>1. \A k \in 1..Len(agenda') : agenda'[k] = t
          BY <4>1
        <5> QED BY <4>1, <5>1 DEF Spot
      <4> QED BY <2>3, <4>2 DEF Awaited
    <3> QED BY <3>1, <3>2
  <2> QED BY <2>9, <2>10 DEF Served
<1>5. OldMembers'
  BY <1>2 DEF OldMembers
<1> QED BY <1>4, <1>5 DEF Filling

LEMMA StartMembers ==
  ASSUME IInv, Filling, Start
  PROVE  Filling'
<1>1. agenda = <<>> /\ held = None /\ claim = None
  BY IdleIs DEF IInv, OrderInv, TypeOK, Start
<1>2. UNCHANGED <<terminal, agenda, claim, held>>
  BY DEF Start, disk
<1>3. Now' = Now
  BY <1>2 DEF Now
<1>4. PICK w : w = None
  OBVIOUS
<1> QED BY <1>1, <1>2, <1>3, <1>4, RestingMembers DEF Filling

LEMMA FinishMembers ==
  ASSUME IInv, Filling, Finish
  PROVE  Filling'
<1>1. agenda = <<>> /\ claim = None
  BY Completing DEF Between, Finish
<1>2. UNCHANGED <<terminal, walked, agenda, claim, held>>
  BY DEF Finish, disk
<1>3. Now' = Now
  BY <1>2 DEF Now
<1>4. PICK w : w = None
  OBVIOUS
<1> QED BY <1>1, <1>2, <1>3, <1>4, RestingMembers DEF Filling

LEMMA TakeUpMembers ==
  ASSUME IInv, Filling, TakeUp
  PROVE  Filling'
<1> DEFINE unit == [op |-> "unit", path |-> cur', content |-> source[cur'], depth |-> 0, chain |-> {}]
           rec == [status |-> "failed", hash |-> None]
<1>1. /\ agenda = <<>> /\ held = None /\ claim = None /\ claim' = None
      /\ walked \subseteq Roots /\ queue \subseteq walked
  BY Completing DEF Between, TakeUp, IInv, TypeOK
<1>2. /\ cur' \in queue /\ UNCHANGED <<terminal, walked>>
      /\ \/ Fails(cur', None) /\ agenda' = agenda
         \/ agenda' = <<unit>> /\ held' = held
  BY DEF TakeUp
<1>3. cur' \in Roots /\ cur' \in Seq(Name)
  BY <1>1, <1>2, PlaceIs
<1>4. unit.op = "unit" /\ unit.path = cur' /\ rec.status = "failed"
  OBVIOUS
<1>5. \/ agenda' = <<>> /\ held' # None /\ held'.path = cur' /\ held'.record = rec
      \/ agenda' = <<unit>> /\ held' = None
  <2>1. CASE Fails(cur', None) /\ agenda' = agenda
    <3>1. held' = [path |-> cur', record |-> rec]
      BY <2>1 DEF Fails, Refuse
    <3>2. [path |-> cur', record |-> rec] \in Held
      BY <1>3 DEF Held, Record, Status
    <3>3. held' # None /\ held'.path = cur' /\ held'.record = rec
      BY <3>1, <3>2, ExpansionAssumption
    <3> HIDE DEF unit, rec
    <3> QED BY <1>1, <2>1, <3>3
  <2> HIDE DEF unit, rec
  <2> QED BY <1>1, <1>2, <2>1
<1> HIDE DEF unit, rec
<1>6. Now = terminal
  BY <1>1 DEF Now, Recorded
<1>7. PICK w : w = cur'
  OBVIOUS
<1>8. w \in Roots \cup {None}
      /\ (agenda' = <<>> \/ \E t : agenda' = <<t>> /\ t.op = "unit" /\ t.path = w)
  BY <1>3, <1>4, <1>5, <1>7
<1>9. CASE agenda' = <<unit>> /\ held' = None
  <2>1. Now' = Now
    BY <1>1, <1>2, <1>9 DEF Now
  <2> QED BY <1>1, <1>8, <2>1, RestingMembers DEF Filling
<1>10. CASE agenda' = <<>> /\ held' # None /\ held'.path = cur' /\ held'.record = rec
  <2>1. Now' = With(terminal, w, rec)
    BY <1>2, <1>7, <1>10 DEF Now, Recorded
  <2>2. /\ w \in DOMAIN Now' /\ Now'[w] = rec
        /\ \A p : p # w => /\ p \in DOMAIN Now' <=> p \in DOMAIN Now
                           /\ p \in DOMAIN Now => Now'[p] = Now[p]
    BY <1>6, <2>1 DEF With
  <2>3. Now'[w].status \notin Bearing
    BY <1>4, <2>2 DEF Bearing
  <2> QED BY <1>1, <1>8, <2>2, <2>3, RestingMembers DEF Filling
<1> QED BY <1>5, <1>9, <1>10

LEMMA FillingStep ==
  ASSUME Separate, IInv, IInv', NestInv, NestInv', Sound, Minting, NoLoan, Filling, [Next]_vars,
         killed' = "never"
  PROVE  Filling'
<1>1. CASE Start \/ TakeUp \/ Finish \/ AppendRecord
  BY <1>1, StartMembers, TakeUpMembers, FinishMembers, AppendMembers
<1>2. CASE Skip
  BY <1>2, SkipMembers, TopSkipMembers
<1>3. CASE GuardFails \/ Borrow \/ Leaf
  BY <1>3, RecordingMembers, TopGuard, TopBorrowMembers, TopLeafMembers
<1>4. CASE Primary
  BY <1>4, PrimaryMembers, TopPrimaryMembers
<1>5. CASE Open
  BY <1>5, OpeningMembers, TopOpeningMembers
<1>6. CASE Leg \/ MemberRefused \/ MemberOverruns \/ Member
  BY <1>6, LegMembers, RefusedMembers, MemberMembers
<1>7. CASE Close \/ Reconcile \/ Retire
  BY <1>7, CloseMembers, ReconcileEnds, RetireEnds, EndMembers
<1>8. CASE Kill \/ AppendFails
  BY <1>8 DEF Kill, AppendFails
<1>9. CASE Edit \/ Damage \/ UNCHANGED vars
  <2>1. UNCHANGED <<terminal, walked, cur, agenda, claim, held>>
    BY <1>9 DEF Edit, Damage, vars, disk, run
  <2> QED BY <2>1, DisturbedMembers
<1> QED BY <1>1, <1>2, <1>3, <1>4, <1>5, <1>6, <1>7, <1>8, <1>9 DEF Next, Run

\* What is borrowed is a plain source or one with a leg.
LEMMA NoLoanStep ==
  ASSUME IInv, NoLoan, [Next]_vars
  PROVE  NoLoan'
<1> DEFINE Lent == held' # None /\ held'.record.status = "borrowed"
                     => Kind[held'.record.hash] # "container"
<1>1. CASE AppendRecord
  <2>1. held # None /\ held' = None /\ terminal' = With(terminal, held.path, held.record)
    BY <1>1 DEF AppendRecord
  <2>2. /\ terminal'[held.path] = held.record
        /\ \A p \in DOMAIN terminal' : p # held.path => p \in DOMAIN terminal /\ terminal'[p] = terminal[p]
    BY <2>1 DEF With
  <2> QED BY <2>1, <2>2 DEF NoLoan
<1>2. ASSUME UNCHANGED terminal, Lent PROVE NoLoan'
  BY <1>2 DEF NoLoan
<1>3. CASE Skip
  <2>1. held'.record = terminal[Head(agenda).path] /\ Head(agenda).path \in DOMAIN terminal
    BY <1>3, SkipIs
  <2>2. Lent
    BY <2>1 DEF NoLoan
  <2>3. UNCHANGED terminal
    BY <1>3 DEF Skip, disk
  <2> QED BY <1>2, <2>2, <2>3
<1>4. CASE GuardFails \/ Borrow \/ Leaf \/ Primary
  <2>1. Lent
    BY <1>4, RecordingIs DEF HasLeg
  <2>2. UNCHANGED terminal
    BY <1>4 DEF GuardFails, Borrow, Leaf, Primary
  <2> QED BY <1>2, <2>1, <2>2
<1>5. ASSUME UNCHANGED terminal, held' = held \/ held' = None PROVE NoLoan'
  BY <1>5 DEF NoLoan
<1>6. ASSUME UNCHANGED terminal, NEW p, NEW s \in {"text", "failed", "capped", "removed"}, NEW h,
             held' = [path |-> p, record |-> [status |-> s, hash |-> h]]
      PROVE  NoLoan'
  <2>1. held'.record.status # "borrowed"
    BY <1>6
  <2> QED BY <1>2, <1>6, <2>1
<1> HIDE DEF Lent
<1>7. CASE TakeUp \/ Leg \/ Open \/ MemberRefused \/ MemberOverruns \/ Member \/ Close
  <2>1. UNCHANGED terminal
    BY <1>7 DEF TakeUp, Leg, Open, MemberRefused, MemberOverruns, Member, Close
  <2>2. \/ held' = held
        \/ \E p, h : \E s \in {"text", "failed", "capped", "removed"} :
             held' = [path |-> p, record |-> [status |-> s, hash |-> h]]
    BY <1>7 DEF TakeUp, Leg, Open, MemberRefused, MemberOverruns, Member, Close, Fails, Refuse, Write
  <2> QED BY <1>5, <1>6, <2>1, <2>2
<1>8. CASE Retire
  <2>1. UNCHANGED terminal
    BY <1>8 DEF Retire
  <2>2. PICK p : held' = [path |-> p, record |-> [status |-> "removed", hash |-> None]]
    BY <1>8 DEF Retire, Refuse
  <2> QED BY <1>6, <2>1, <2>2
<1>9. CASE \/ Start \/ Finish \/ Reconcile \/ Kill \/ AppendFails \/ Edit \/ Damage
            \/ UNCHANGED vars
  <2>1. UNCHANGED terminal /\ (held' = held \/ held' = None)
    BY <1>9 DEF Start, Finish, Reconcile, Kill, AppendFails, Edit, Damage, disk, vars
  <2> QED BY <1>5, <2>1
<1> QED BY <1>1, <1>3, <1>4, <1>7, <1>8, <1>9 DEF Next, Run

LEMMA MembersInvInit == Init => MembersInv
<1> SUFFICES ASSUME Init PROVE MembersInv
  OBVIOUS
<1>1. terminal = <<>> /\ agenda = <<>> /\ claim = None /\ held = None
  BY DEF Init
<1>2. DOMAIN <<>> = {}
  OBVIOUS
<1>3. DOMAIN Now = {}
  BY <1>1, <1>2 DEF Now, Recorded
<1>4. NoLoan
  BY <1>1, <1>2 DEF NoLoan
<1>5. \A p : ~Due(agenda, p)
  BY <1>1, ClosingOne, DueIs
<1>6. MembersFine /\ OldMembers
  BY <1>1, <1>3, <1>5 DEF MembersFine, Wants, Keeps, OldMembers
<1> QED BY <1>4, <1>6 DEF MembersInv, Filling

LEMMA MembersInvStep ==
  ASSUME Separate
  PROVE  IInv /\ NestInv /\ DropInv /\ LegsInv /\ MembersInv /\ [Next]_vars => MembersInv'
<1> SUFFICES ASSUME IInv, NestInv, DropInv, LegsInv, MembersInv, [Next]_vars PROVE MembersInv'
  OBVIOUS
<1>1. NoLoan'
  BY NoLoanStep DEF MembersInv
<1>2. ASSUME killed' = "never" PROVE Filling'
  <2>1. killed = "never"
    <3>1. \/ UNCHANGED killed
          \/ Kill \/ AppendFails
      BY DEF Next, Run, Start, TakeUp, Finish, AppendRecord, Skip, GuardFails, Borrow, Leaf,
             Primary, Leg, Open, MemberRefused, MemberOverruns, Member, Close, Reconcile, Retire,
             Edit, Damage, book, vars
    <3>2. Kill \/ AppendFails => FALSE
      BY <1>2 DEF Kill, AppendFails
    <3> QED BY <1>2, <3>1, <3>2
  <2>2. Sound /\ Minting /\ NoLoan /\ Filling
    BY <2>1 DEF DropInv, LegsInv, MembersInv
  <2>3. IInv' /\ NestInv'
    BY IInvStep, NestInvStep
  <2> QED BY <1>2, <2>2, <2>3, FillingStep
<1> QED BY <1>1, <1>2 DEF MembersInv

-----------------------------------------------------------------------------
(* No member is silently missing *)

\* The tasks of an entry are at work in its own tree.
LEMMA WorkInTree ==
  ASSUME IInv, NestInv, NEW p \in Seq(Name), cur # None => p \notin Tree(cur)
  PROVE  /\ ~Due(agenda, p)
         /\ \A cl : ~Awaited(agenda, cl, p)
<1>1. agenda # <<>> => cur # None /\ cur \in Seq(Name) /\ agenda \in Seq(Task(cur)) /\ Nested(agenda)
  <2>1. SUFFICES ASSUME agenda # <<>>
                 PROVE  cur # None /\ cur \in Seq(Name) /\ agenda \in Seq(Task(cur)) /\ Nested(agenda)
    OBVIOUS
  <2>2. cur # None
    BY <2>1, IdleIs
  <2> QED BY <2>2, TypedAgenda, PlaceIs DEF NestInv, IInv, TypeOK
<1>2. ~Due(agenda, p)
  <2>1. CASE agenda = <<>>
    BY <2>1, ClosingOne, DueIs
  <2>2. CASE agenda # <<>>
    BY <1>1, <2>2, OnceIs
  <2> QED BY <2>1, <2>2
<1>3. ASSUME NEW cl, NEW k \in 1..Len(agenda), Fresh(cl, agenda[k]), Spot(agenda[k]) = p PROVE FALSE
  <2>1. agenda # <<>>
    BY <1>3
  <2>2. agenda[k] \in Task(cur)
    BY <1>1, <1>3, <2>1, ElementOfSeq
  <2>3. agenda[k].op \in {"unit", "leg", "member"}
    BY <1>3 DEF Fresh
  <2> QED BY <1>1, <1>3, <2>1, <2>2, <2>3, SpotIs
<1> QED BY <1>2, <1>3 DEF Awaited

LEMMA NoMemberMissing ==
  ASSUME IInv, NestInv, Sound, Filling
  PROVE  MembersRecorded
<1> SUFFICES ASSUME NEW p \in DOMAIN terminal, Live(p), cur # None => p # cur /\ ~Under(cur, p),
                    NEW i \in DOMAIN Members[terminal[p].hash],
                    Admitted(terminal[p].hash, i),
                    ~Crossed(p, p \o Members[terminal[p].hash][i].name)
             PROVE  /\ p \o Members[terminal[p].hash][i].name \in DOMAIN terminal
                    /\ terminal[p \o Members[terminal[p].hash][i].name].hash =
                         Members[terminal[p].hash][i].content
  BY DEF MembersRecorded
<1>1. PICK c, q : /\ c = terminal[p].hash /\ i \in DOMAIN Members[c]
                  /\ q = p \o Members[c][i].name /\ Admitted(c, i) /\ ~Crossed(p, q)
  OBVIOUS
<1>2. p \in Seq(Name) /\ (cur # None => p \notin Tree(cur) /\ cur \in Roots)
  BY <1>1 DEF IInv, TypeOK, Tree
<1>3. /\ p \in DOMAIN Now /\ Now[p] = terminal[p]
      /\ Bond[p] = IF Stands(terminal[p]) THEN terminal[p].hash ELSE None
  BY <1>1, <1>2, BondOutside
<1>4. terminal[p].status \in Bearing /\ c # None /\ Bond[p] = c /\ c \in Content
  <2>1. terminal[p].status \in Bearing /\ c # None
    BY <1>1, <1>3 DEF Live, Sound, Shapely
  <2>2. terminal[p] \in Record
    BY <1>1 DEF IInv, TypeOK
  <2>3. c \in Content
    BY <1>1, <2>1, <2>2 DEF Record
  <2> QED BY <1>1, <1>3, <2>1, <2>3 DEF Stands
<1>5. PICK d : d = Members[c][i].content
  OBVIOUS
<1>6. d \in Content /\ q \in Seq(Name)
  <2>1. /\ Members[c][i].name \in Seq(Name) \ {<<>>}
        /\ Members[c][i].content \in Content \cup {Refused}
    BY <1>1, <1>4, NamesOfMembers
  <2>2. Members[c][i].content # Refused
    BY <1>1 DEF Admitted, Readable
  <2> QED BY <1>1, <1>2, <1>5, <2>1, <2>2, ConcatProperties
<1>7. Claims(p, c, q, d)
  BY <1>1, <1>5 DEF Claims
<1>8. Wants(p, q, d)
  <2>1. ~Due(agenda, p)
    BY <1>2, WorkInTree
  <2> QED BY <1>3, <1>4, <1>7, <2>1 DEF Wants, Keeps
<1>9. cur # None => q \notin Tree(cur)
  <2>1. Under(p, q)
    BY <1>2, <1>4, <1>6, <1>7, ClaimsIs
  <2> QED BY <1>1, <1>2, <1>6, <2>1, CrossedIs
<1>10. ~Due(agenda, q) /\ ~Awaited(agenda, claim, q)
  BY <1>6, <1>9, WorkInTree
<1>11. ~ToCome(agenda, claim, p, q, d)
  BY <1>10 DEF ToCome, Brings, Awaited
<1>12. q \in DOMAIN Now /\ Now[q].hash = d
  <2>1. Sure(q, d)
    BY <1>2, <1>6, <1>8, <1>11 DEF Filling, MembersFine, Served
  <2>2. ~Closing(agenda, q, d)
    BY <1>10, DueIs
  <2> QED BY <2>1, <2>2 DEF Sure
<1>13. /\ q \in DOMAIN Now <=> q \in DOMAIN terminal
       /\ q \in DOMAIN terminal => Now[q] = terminal[q]
  BY <1>6, <1>9, BondOutside
<1> QED BY <1>1, <1>5, <1>12, <1>13

-----------------------------------------------------------------------------
(* The theorem *)

\* As long as no run is cut short, no child is silently missing, for any archives
\* whose members lie apart: a live source whose leg has something to write has
\* the leg's record of the same bytes, and a live container has a record of
\* the bytes of each member that it admits and no file of the division covers.
THEOREM ChildrenAreRecordedHolds ==
  ASSUME Separate
  PROVE  Spec => []ChildrenAreRecorded
<1>1. Init => NestInv /\ DropInv /\ LegsInv /\ MembersInv
  <2>1. Init => agenda = <<>> /\ held = None
    BY DEF Init
  <2>2. Init => NestInv
    BY <2>1, NestedAlone DEF NestInv, HeldIsOld
  <2> QED BY <2>2, DropInvInit, LegsInvInit, MembersInvInit
<1>2. IInv /\ NestInv /\ DropInv /\ LegsInv /\ MembersInv => ChildrenAreRecorded
  <2> SUFFICES ASSUME IInv, NestInv, DropInv, LegsInv, MembersInv, killed = "never"
               PROVE  LegMinted /\ MembersRecorded
    BY DEF ChildrenAreRecorded
  <2>1. Sound /\ LegsFine /\ Walking /\ Filling
    BY DEF DropInv, LegsInv, Minting, MembersInv
  <2> QED BY <2>1, NoLegMissing, NoMemberMissing DEF LegMinted
<1>3. IInv /\ NestInv /\ DropInv /\ [Next]_vars => DropInv'
  BY DropInvStep
<1>4. IInv /\ NestInv /\ DropInv /\ LegsInv /\ [Next]_vars => LegsInv'
  BY LegsInvStep
<1>5. IInv /\ NestInv /\ DropInv /\ LegsInv /\ MembersInv /\ [Next]_vars => MembersInv'
  BY MembersInvStep
<1> QED BY <1>1, <1>2, <1>3, <1>4, <1>5, InvariantHolds, NestInvStep, PTL DEF Spec
=============================================================================
