------------------------------ MODULE Expansion ------------------------------
(***************************************************************************)
(* Sources that own derived children (src/src/pipeline.rs): containers,    *)
(* whose members are routed back through dispatch, and image and vector    *)
(* sources, whose auxiliary leg writes a second record.  The module models *)
(* the checkpoint over a subtree, the claim on a `.d/` namespace, the      *)
(* cumulative budget, the depth and quine guards and the reconciliation    *)
(* that retires dropped descendants, with kills between any two effects    *)
(* and appends that fail under a claim.                                    *)
(*                                                                         *)
(* A path is the sequence of its names: "a.zip.d/b" is <<"a.zip", "b">>.   *)
(* A content stands for bytes, for their hash and for the text they        *)
(* convert to.  The recursion of process() is an agenda of tasks, the next *)
(* one first.  Formats, sidecars and rules versions are in Pipeline.tla.   *)
(***************************************************************************)
EXTENDS SequencesExt

CONSTANTS Name, Content,
          Key,          \* collision_key: the case-folded form of a name
          Rank,         \* the place of a name in the byte order
          Walk,         \* the paths of the division's files, in walk order
          MayHold,      \* bound: what each of those files may hold
          Kind,         \* leaf, container, raster, vector, or barred (a
                        \* symlink, a source over the ceiling), per content
          Members,      \* of a container: [name, content] in archive order
          Size,         \* the bytes a member really inflates to
          Declared,     \* the sum of the sizes a container declares
          Converts,     \* contents whose own conversion succeeds
          LegOutcome,   \* text, failed or nothing, per content with a leg
          LegName,      \* the child name of a raster's and a vector's leg
          CollisionName,  \* the names of refused colliding members (bound: as
                        \* many as are refused)
          Refused,      \* a member refused by its name, encryption or
                        \* declared size
          Absent, None,
          MaxDepth, MaxExpanded, MaxMember,    \* the container limits
          Disturbances,     \* which of edit, kill, append, damage, provider may happen
          MaxDisturbances   \* bound on how many of them do

Roots == {Walk[i] : i \in DOMAIN Walk}
Bearing == {"text", "borrowed"}
Status == Bearing \cup {"failed", "capped", "removed"}
Record == [status : Status, hash : Content \cup {None}]
Held == [path : Seq(Name), record : Record]
Claim == [prefix : Seq(Name), claimed : SUBSET Seq(Name), emitted : SUBSET Seq(Name),
          collisions : 0..Len(CollisionName)]

\* A file comes before what lies in its namespace: "a" sorts before "a.d".
ASSUME ExpansionAssumption ==
  /\ Key \in [Name -> Name] /\ Rank \in [Name -> Nat] /\ IsInjective(Rank)
  /\ Walk \in Seq(Seq(Name) \ {<<>>}) /\ IsInjective(Walk)
  /\ \A i, j \in DOMAIN Walk : IsStrictPrefix(Walk[i], Walk[j]) => i < j
  /\ MayHold \in [Roots -> SUBSET (Content \cup {Absent})]
  /\ Kind \in [Content -> {"leaf", "container", "raster", "vector", "barred"}]
  /\ Members \in [Content -> Seq([name : Seq(Name) \ {<<>>}, content : Content \cup {Refused}])]
  /\ \A c \in Content : Kind[c] # "container" => Members[c] = <<>>
  /\ Size \in [Content -> Nat] /\ Declared \in [Content -> Nat]
  /\ Converts \subseteq Content
  /\ LegOutcome \in [Content -> {"text", "failed", "nothing"}]
  /\ LegName \in [{"raster", "vector"} -> Name]
  /\ CollisionName \in Seq(Name)
  /\ Refused \notin Content /\ Absent \notin Content
  /\ None \notin Content \cup Seq(Name) \cup Held \cup Claim
  /\ {MaxDepth, MaxExpanded, MaxMember, MaxDisturbances} \subseteq Nat
  /\ Disturbances \subseteq {"edit", "kill", "append", "damage", "provider"}

VARIABLES
  source,     \* the division's files
  mirror,     \* the artifacts: a content per path that has one
  terminal,   \* the last shard record per path that has one
  running, queue, walked,  \* the run: entries to come, and the walked set
  cur,        \* the entry being worked on
  agenda,     \* what is left to do for it, innermost first
  claim,      \* the ClaimState of the outermost owner, or None
  expanded,   \* inflated bytes charged to the entry
  dedup,      \* the canonical path of a content, or None
  held,       \* the record whose artifact is in place, not appended yet
  visited,    \* entries this run has completed
  moved,      \* paths edited, damaged or left half done by a failed append
              \* since the run took up their entry
  killed,     \* history: whether a run was ever cut short, and whether that
              \* broke off a retirement or the replacement of a live container
  used        \* disturbances so far

disk == <<source, mirror, terminal>>
run == <<running, queue, walked, cur>>
book == <<visited, moved, killed, used>>
vars == <<disk, run, dedup, agenda, claim, expanded, held, book>>

TypeOK ==
  /\ source \in [Roots -> Content \cup {Absent}] /\ \A r \in Roots : source[r] \in MayHold[r]
  /\ \A p \in DOMAIN mirror : p \in Seq(Name) /\ mirror[p] \in Content
  /\ \A p \in DOMAIN terminal : p \in Seq(Name) /\ terminal[p] \in Record
  /\ running \in BOOLEAN /\ killed \in {"never", "expanding", "broken"}
  /\ queue \subseteq walked /\ walked \subseteq Roots
  /\ cur \in Roots \cup {None}
  /\ dedup \in [Content -> Seq(Name) \cup {None}]
  /\ \A i \in DOMAIN agenda :
       agenda[i].op \in {"unit", "leg", "member", "close", "reconcile", "retire"}
  /\ claim \in Claim \cup {None}
  /\ expanded \in Nat
  /\ held \in Held \cup {None}
  /\ visited \subseteq Roots
  /\ used \in 0..MaxDisturbances

NoDedup == [c \in Content |-> None]

Init == /\ source \in [Roots -> Content \cup {Absent}]
        /\ \A r \in Roots : source[r] \in MayHold[r]
        /\ mirror = <<>> /\ terminal = <<>>
        /\ running = FALSE /\ queue = {} /\ walked = {} /\ cur = None
        /\ dedup = NoDedup
        /\ agenda = <<>> /\ claim = None /\ expanded = 0 /\ held = None
        /\ visited = {} /\ moved = {} /\ killed = "never" /\ used = 0

-----------------------------------------------------------------------------
(* Paths, children and claims *)

\* The path starts with `<owner>.d/`.
Under(owner, p) == IsStrictPrefix(owner, p)
KeyOf(p) == [i \in DOMAIN p |-> Key[p[i]]]

HasLeg(c) == Kind[c] \in {"raster", "vector"}
HasChildren(c) == Kind[c] = "container" \/ HasLeg(c)
LegPath(p, c) == Append(p, LegName[Kind[c]])

Live(p) == p \in DOMAIN terminal /\ terminal[p].status \in Bearing
Intact(p) == p \in DOMAIN mirror /\ mirror[p] = terminal[p].hash

\* expansion_collides: a real walked source lies in the namespace.
Occupied(p) == \E w \in walked : Under(p, w)

\* Only a walked file can change between its hash and its load; a member's
\* bytes are in memory.
Loaded(u) == u.depth = 0 => source[u.path] = u.content

NewClaim(p) == [prefix |-> p, claimed |-> {}, emitted |-> {}, collisions |-> 0]

\* Faulty variant: only the direct children are looked at.
ChildrenIntact(p) ==
  \A q \in DOMAIN terminal :
    Under(p, q) /\ Len(q) = Len(p) + 1 /\ Live(q) => Intact(q)

DescendantsIntact(p) == \A q \in DOMAIN terminal : Under(p, q) /\ Live(q) => Intact(q)

\* The checkpoint.  A failed child of a vector's leg, a retired one included,
\* keeps it from skipping.
Skippable(p, c) ==
  /\ Live(p) /\ terminal[p].hash = c /\ Intact(p)
  /\ HasChildren(c) => DescendantsIntact(p)
  /\ Kind[c] = "vector" /\ LegPath(p, c) \in DOMAIN terminal => Live(LegPath(p, c))

\* seed_dedup: the first path in byte order that converted the content.  A
\* leg's child and a container have converters no format routes to.
Before(p, q) ==
  \/ IsStrictPrefix(p, q)
  \/ \E i \in DOMAIN p \cap DOMAIN q :
       SubSeq(p, 1, i - 1) = SubSeq(q, 1, i - 1) /\ Rank[p[i]] < Rank[q[i]]

Seeds(c) == {p \in DOMAIN terminal :
               /\ terminal[p].status = "text" /\ terminal[p].hash = c
               /\ Kind[c] # "container"
               /\ HasLeg(c) => p[Len(p)] # LegName[Kind[c]]}

Seeded == [c \in Content |->
             IF Seeds(c) = {} THEN None
             ELSE CHOOSE p \in Seeds(c) : \A q \in Seeds(c) \ {p} : Before(p, q)]

\* The dedup borrow, from another path whose artifact is still intact.
Borrowable(u) ==
  LET p == dedup[u.content]
  IN /\ p # None /\ p # u.path
     /\ p \in DOMAIN mirror /\ mirror[p] = u.content

-----------------------------------------------------------------------------
(* Emitting: the artifact is written or removed, then the record appended *)

With(f, x, v) == [y \in DOMAIN f \cup {x} |-> IF y = x THEN v ELSE f[y]]

Write(p, s, c) == /\ mirror' = With(mirror, p, c)
                  /\ held' = [path |-> p, record |-> [status |-> s, hash |-> c]]

\* A record without text, after remove_stale_artifact.
Refuse(p, s, h) == /\ mirror' = Restrict(mirror, DOMAIN mirror \ {p})
                   /\ held' = [path |-> p, record |-> [status |-> s, hash |-> h]]

Fails(p, h) == Refuse(p, "failed", h)

\* convert_leaf, whose artifact later twins may borrow.
Convert(u) ==
  IF Loaded(u) /\ u.content \in Converts
  THEN Write(u.path, "text", u.content) /\ dedup' = [dedup EXCEPT ![u.content] = u.path]
  ELSE Fails(u.path, u.content) /\ UNCHANGED dedup

\* emit and record_outcome.
AppendRecord ==
  /\ held # None
  /\ terminal' = With(terminal, held.path, held.record)
  /\ claim' = IF claim # None /\ Under(claim.prefix, held.path)
              THEN [claim EXCEPT !.emitted = @ \cup {held.path}] ELSE claim
  /\ held' = None
  /\ UNCHANGED <<source, mirror, run, dedup, agenda, expanded, book>>

Doing(op) == running /\ held = None /\ agenda # <<>> /\ Head(agenda).op = op
Rest == Tail(agenda)

-----------------------------------------------------------------------------
(* The run over the walked entries *)

Present(p) == source[p] # Absent

Start == /\ ~running
         /\ running' = TRUE
         /\ walked' = {p \in Roots : Present(p)} /\ queue' = walked'
         /\ dedup' = Seeded
         /\ visited' = {} /\ moved' = {}
         /\ UNCHANGED <<disk, cur, agenda, claim, expanded, held, killed, used>>

Between == running /\ held = None /\ agenda = <<>>
Completed == IF cur = None THEN visited ELSE visited \cup {cur}

\* The next entry: stat, hash and detect.  One that is gone or barred has
\* its record at once, and that path reconciles nothing.
Barred(p) == Present(p) /\ Kind[source[p]] = "barred"

Place(r) == CHOOSE i \in DOMAIN Walk : Walk[i] = r

TakeUp ==
  /\ Between
  /\ cur' \in queue /\ \A r \in queue : Place(cur') =< Place(r)
  /\ queue' = queue \ {cur'}
  /\ expanded' = 0
  /\ visited' = Completed
  /\ moved' = {p \in moved : p # cur' /\ ~Under(cur', p)}
  /\ \/ /\ ~Present(cur') \/ Barred(cur')
        /\ Fails(cur', None)
        /\ UNCHANGED agenda
     \/ /\ Present(cur') /\ ~Barred(cur')
        /\ agenda' = <<[op |-> "unit", path |-> cur', content |-> source[cur'],
                        depth |-> 0, chain |-> {}]>>
        /\ UNCHANGED <<mirror, held>>
  /\ UNCHANGED <<source, terminal, running, walked, dedup, claim, killed, used>>

Finish == /\ Between /\ queue = {}
          /\ running' = FALSE /\ cur' = None /\ dedup' = NoDedup
          /\ visited' = Completed
          /\ UNCHANGED <<disk, queue, walked, agenda, claim, expanded, held, moved, killed,
                         used>>

-----------------------------------------------------------------------------
(* process: one unit, top level or member *)

\* Faulty variant: a skip does not keep its subtree.
SkipForgetting ==
  /\ Doing("unit")
  /\ LET u == Head(agenda)
     IN /\ Skippable(u.path, u.content)
        /\ held' = [path |-> u.path, record |-> terminal[u.path]]
  /\ agenda' = Rest
  /\ UNCHANGED <<disk, run, dedup, claim, expanded, book>>

\* A skip inside a re-expansion keeps its whole prior subtree, and a source
\* with a leg keeps its claim on its child's path.
Skip ==
  /\ Doing("unit")
  /\ LET u == Head(agenda)
         kept == {q \in DOMAIN terminal : Under(u.path, q)}
         keys == IF HasLeg(u.content) THEN {KeyOf(q) : q \in kept} ELSE {}
     IN /\ Skippable(u.path, u.content)
        /\ held' = [path |-> u.path, record |-> terminal[u.path]]
        /\ claim' = IF claim = None \/ ~HasChildren(u.content) THEN claim
                    ELSE [claim EXCEPT !.emitted = @ \cup kept, !.claimed = @ \cup keys]
  /\ agenda' = Rest
  /\ UNCHANGED <<disk, run, dedup, expanded, book>>

\* Faulty variant: the depth cap is the only guard.
ExpandableByDepth(u) == u.depth =< MaxDepth

Expandable(u) == u.depth =< MaxDepth /\ u.content \notin u.chain

\* A container past the depth cap, or inside itself, is not opened.
GuardFails ==
  /\ Doing("unit")
  /\ LET u == Head(agenda)
     IN /\ ~Skippable(u.path, u.content)
        /\ Kind[u.content] = "container" /\ ~Expandable(u)
        /\ Fails(u.path, u.content)
  /\ agenda' = Rest
  /\ UNCHANGED <<source, terminal, run, dedup, claim, expanded, book>>

\* A plain source borrows: nothing is loaded and nothing reconciled.
Borrow ==
  /\ Doing("unit")
  /\ LET u == Head(agenda)
     IN /\ ~Skippable(u.path, u.content)
        /\ Kind[u.content] = "leaf" /\ Borrowable(u)
        /\ Write(u.path, "borrowed", u.content)
  /\ agenda' = Rest
  /\ UNCHANGED <<source, terminal, run, dedup, claim, expanded, book>>

\* convert_leaf_with_children without a leg: a top-level source whose
\* namespace holds records from an earlier life retires them.
Leaf ==
  /\ Doing("unit")
  /\ LET u == Head(agenda)
         stale == claim = None /\ \E q \in DOMAIN terminal : Under(u.path, q)
     IN /\ ~Skippable(u.path, u.content)
        /\ Kind[u.content] = "leaf" /\ ~Borrowable(u)
        /\ Convert(u)
        /\ claim' = IF stale THEN NewClaim(u.path) ELSE claim
        /\ agenda' = IF stale THEN <<[op |-> "reconcile"]>> \o Rest ELSE Rest
  /\ UNCHANGED <<source, terminal, run, expanded, book>>

\* The primary record of a source with a leg, borrowed or converted.  A
\* source that cannot be loaded fails here and its leg does not run; one
\* whose child path is taken records its primary alone.
Primary ==
  /\ Doing("unit")
  /\ LET u == Head(agenda)
         key == KeyOf(LegPath(u.path, u.content))
         claims == Loaded(u) /\ claim # None /\ ~Occupied(u.path)
         collides == Occupied(u.path) \/ (claim # None /\ key \in claim.claimed)
     IN /\ ~Skippable(u.path, u.content)
        /\ HasLeg(u.content)
        /\ \/ /\ Loaded(u) /\ Borrowable(u)
              /\ Write(u.path, "borrowed", u.content)
              /\ UNCHANGED dedup
           \/ /\ ~(Loaded(u) /\ Borrowable(u))
              /\ Convert(u)
        /\ claim' = IF claims THEN [claim EXCEPT !.claimed = @ \cup {key}] ELSE claim
        /\ agenda' = IF Loaded(u) /\ ~collides
                     THEN <<[op |-> "leg", path |-> u.path, content |-> u.content]>> \o Rest
                     ELSE Rest
  /\ UNCHANGED <<source, terminal, run, expanded, book>>

Disturb(kind) == /\ kind \in Disturbances
                 /\ used < MaxDisturbances
                 /\ used' = used + 1

\* run_child_leg: the child's record, if it has one, under the claim in force
\* or under one of its own.  A vector's leg asks an external provider, which
\* may refuse what it would otherwise read.
Leg ==
  /\ Doing("leg")
  /\ LET t == Head(agenda)
         child == LegPath(t.path, t.content)
     IN /\ \/ /\ \/ LegOutcome[t.content] = "text" /\ Write(child, "text", t.content)
                 \/ LegOutcome[t.content] = "failed" /\ Fails(child, t.content)
                 \/ LegOutcome[t.content] = "nothing" /\ UNCHANGED <<mirror, held>>
              /\ UNCHANGED used
           \/ /\ Kind[t.content] = "vector" /\ Disturb("provider")
              /\ Fails(child, t.content)
        /\ claim' = IF claim = None THEN NewClaim(t.path) ELSE claim
        /\ agenda' = IF claim = None THEN <<[op |-> "reconcile"]>> \o Rest ELSE Rest
  /\ UNCHANGED <<source, terminal, run, dedup, expanded, visited, moved, killed>>

-----------------------------------------------------------------------------
(* expand_zip and expand_eml *)

Opens(u) == /\ ~Occupied(u.path) /\ Loaded(u)
            /\ u.content \in Converts
            /\ Declared[u.content] =< MaxExpanded

\* Faulty variant: the parent is recorded before its members.
TasksParentFirst(u) ==
  <<[op |-> "close", path |-> u.path, content |-> u.content, capped |-> FALSE]>>
  \o [i \in DOMAIN Members[u.content] |->
        [op |-> "member", path |-> u.path, member |-> Members[u.content][i],
         depth |-> u.depth + 1, chain |-> u.chain \cup {u.content}]]

Tasks(u) ==
  [i \in DOMAIN Members[u.content] |->
     [op |-> "member", path |-> u.path, member |-> Members[u.content][i],
      depth |-> u.depth + 1, chain |-> u.chain \cup {u.content}]]
  \o <<[op |-> "close", path |-> u.path, content |-> u.content, capped |-> FALSE]>>

\* The members first, the parent last, and under the outermost owner's claim.
Open ==
  /\ Doing("unit")
  /\ LET u == Head(agenda)
         after == IF claim = None THEN <<[op |-> "reconcile"]>> \o Rest ELSE Rest
     IN /\ ~Skippable(u.path, u.content)
        /\ Kind[u.content] = "container" /\ Expandable(u)
        /\ claim' = IF claim = None THEN NewClaim(u.path) ELSE claim
        /\ \/ /\ ~Opens(u)
              /\ Fails(u.path, u.content)
              /\ agenda' = after
           \/ /\ Opens(u)
              /\ agenda' = Tasks(u) \o after
              /\ UNCHANGED <<mirror, held>>
  /\ UNCHANGED <<source, terminal, run, dedup, expanded, book>>

ChildPath(t) == t.path \o t.member.name

\* Faulty variant: the record names bytes that were never inflated.
MemberRefusedHashed ==
  /\ Doing("member")
  /\ LET t == Head(agenda)
     IN t.member.content = Refused /\ Fails(ChildPath(t), Refused)
  /\ agenda' = Rest
  /\ UNCHANGED <<source, terminal, run, dedup, claim, expanded, book>>

\* A member refused before it is inflated claims nothing and is not charged.
MemberRefused ==
  /\ Doing("member")
  /\ LET t == Head(agenda)
     IN t.member.content = Refused /\ Fails(ChildPath(t), None)
  /\ agenda' = Rest
  /\ UNCHANGED <<source, terminal, run, dedup, claim, expanded, book>>

\* What a member may inflate to: its own ceiling, or what is left.
Cap == IF expanded + MaxMember =< MaxExpanded THEN MaxMember
       ELSE IF expanded =< MaxExpanded THEN MaxExpanded - expanded ELSE 0

Inflates(t) == t.member.content # Refused /\ Size[t.member.content] =< Cap

\* The container of the next member fails: its other members are not looked
\* at.
IsClose(t) == t.op = "close"
Capped == LET i == SelectInSeq(agenda, IsClose)
          IN <<[agenda[i] EXCEPT !.capped = TRUE]>> \o SubSeq(agenda, i + 1, Len(agenda))

\* Inflation stops one byte past the cap: the member overran its own ceiling,
\* or the container its budget, or both.
MemberOverruns ==
  /\ Doing("member")
  /\ LET t == Head(agenda)
     IN /\ t.member.content # Refused /\ ~Inflates(t)
        /\ \/ Cap = MaxMember /\ Fails(ChildPath(t), None)
           \/ Cap < MaxMember /\ UNCHANGED <<mirror, held>>
  /\ expanded' = expanded + Cap + 1
  /\ agenda' = IF expanded' > MaxExpanded THEN Capped ELSE Rest
  /\ UNCHANGED <<source, terminal, run, dedup, claim, book>>

\* process_member: the later of two aliasing members is refused under a
\* synthetic name, any other is dispatched.
Member ==
  /\ Doing("member")
  /\ LET t == Head(agenda)
         key == KeyOf(ChildPath(t))
         n == claim.collisions + 1
     IN /\ Inflates(t)
        /\ expanded' = expanded + Size[t.member.content]
        /\ \/ /\ key \in claim.claimed /\ n \in DOMAIN CollisionName
              /\ claim' = [claim EXCEPT !.collisions = n]
              /\ Fails(Append(t.path, CollisionName[n]), None)
              /\ agenda' = Rest
           \/ /\ key \notin claim.claimed
              /\ claim' = [claim EXCEPT !.claimed = @ \cup {key}]
              /\ agenda' = <<[op |-> "unit", path |-> ChildPath(t),
                              content |-> t.member.content, depth |-> t.depth,
                              chain |-> t.chain]>> \o Rest
              /\ UNCHANGED <<mirror, held>>
  /\ UNCHANGED <<source, terminal, run, dedup, book>>

\* write_parent, or the failure of a container that overran its budget.
Close ==
  /\ Doing("close")
  /\ LET t == Head(agenda)
     IN \/ t.capped /\ Refuse(t.path, "capped", t.content)
        \/ ~t.capped /\ Write(t.path, "text", t.content)
  /\ agenda' = Rest
  /\ UNCHANGED <<source, terminal, run, dedup, claim, expanded, book>>

-----------------------------------------------------------------------------
(* reconcile *)

\* Faulty variant: only the direct members are reconciled.
StaleMembers == {q \in DOMAIN terminal : /\ Under(claim.prefix, q)
                                         /\ Len(q) = Len(claim.prefix) + 1
                                         /\ q \notin claim.emitted
                                         /\ terminal[q].status # "removed"}

\* What the owner's namespace holds and this expansion did not emit.
Stale == {q \in DOMAIN terminal : /\ Under(claim.prefix, q)
                                  /\ q \notin claim.emitted
                                  /\ terminal[q].status # "removed"}

Reconcile ==
  /\ Doing("reconcile")
  /\ claim' = None
  /\ agenda' = IF Stale = {} THEN Rest ELSE <<[op |-> "retire", left |-> Stale]>> \o Rest
  /\ UNCHANGED <<disk, run, dedup, expanded, held, book>>

Retire ==
  /\ Doing("retire")
  /\ \E q \in Head(agenda).left :
       /\ Refuse(q, "removed", None)
       /\ agenda' = LET left == Head(agenda).left \ {q}
                    IN IF left = {} THEN Rest
                       ELSE <<[op |-> "retire", left |-> left]>> \o Rest
  /\ UNCHANGED <<source, terminal, run, dedup, claim, expanded, book>>

-----------------------------------------------------------------------------
(* The environment *)

\* A run that stops here has retired some descendants and not others, or has
\* opened a container over the live record of another one.
Retiring == \/ agenda # <<>> /\ Head(agenda).op = "retire"
            \/ held # None /\ held.record.status = "removed"

Replacing == \E i \in DOMAIN agenda :
               /\ agenda[i].op = "close"
               /\ Live(agenda[i].path) /\ terminal[agenda[i].path].hash # agenda[i].content

\* The run is killed between any two effects, or an append fails that nobody
\* owns a claim around: an artifact in place whose record was not appended
\* stays behind.
Kill == /\ running
        /\ Disturb("kill")
        /\ running' = FALSE /\ queue' = {} /\ cur' = None
        /\ agenda' = <<>> /\ claim' = None /\ held' = None /\ dedup' = NoDedup
        /\ killed' = IF killed = "broken" \/ Retiring \/ Replacing THEN "broken"
                     ELSE "expanding"
        /\ UNCHANGED <<disk, walked, expanded, visited, moved>>

\* An append fails under a claim, after the emission was noted.  The error
\* leaves every open container unfinished and ends the run, but not before
\* the owner of the claim has reconciled: that retires what the expansion had
\* not come to emit.
AppendFails ==
  /\ held # None /\ claim # None
  /\ Disturb("append")
  /\ claim' = IF Under(claim.prefix, held.path)
              THEN [claim EXCEPT !.emitted = @ \cup {held.path}] ELSE claim
  /\ held' = None
  /\ agenda' = <<[op |-> "reconcile"]>>
  /\ queue' = {}
  /\ moved' = moved \cup {cur, held.path}
  /\ killed' = "broken"
  /\ UNCHANGED <<disk, running, walked, cur, dedup, expanded, visited>>

Edit == /\ Disturb("edit")
        /\ \E r \in Roots : \E c \in MayHold[r] \ {source[r]} :
             /\ source' = [source EXCEPT ![r] = c]
             /\ moved' = moved \cup {r}
        /\ UNCHANGED <<mirror, terminal, run, dedup, agenda, claim, expanded, held, visited,
                       killed>>

Damage == /\ Disturb("damage")
          /\ \E p \in DOMAIN mirror : /\ mirror' = Restrict(mirror, DOMAIN mirror \ {p})
                                      /\ moved' = moved \cup {p}
          /\ UNCHANGED <<source, terminal, run, dedup, agenda, claim, expanded, held, visited,
                         killed>>

Run == \/ Start \/ TakeUp \/ Finish \/ AppendRecord
       \/ Skip \/ GuardFails \/ Borrow \/ Leaf \/ Primary \/ Leg
       \/ Open \/ MemberRefused \/ MemberOverruns \/ Member \/ Close
       \/ Reconcile \/ Retire

Next == Run \/ Kill \/ AppendFails \/ Edit \/ Damage

Spec == Init /\ [][Next]_vars

-----------------------------------------------------------------------------
(* Properties *)

\* The entries this run completed that are still on disk, and that nobody has
\* edited or damaged, in themselves or in their subtree, since.
Settled == {r \in visited : /\ source[r] # Absent
                            /\ \A p \in moved : p # r /\ ~Under(r, p)}

\* What the shard knows of r and below it, except the part of another entry,
\* whose record stays as it is when its file is deleted.
Subtree(r) ==
  {p \in DOMAIN terminal : /\ p = r \/ Under(r, p)
                           /\ \A w \in Roots : Under(r, w) => p # w /\ ~Under(w, p)}

\* A walked entry has, or had, its path below p.
EverOccupied(p) == \E w \in Roots : Under(p, w) /\ w \in walked \cup DOMAIN terminal

\* The entries whose outcome goes through a reconciliation: not what is
\* barred, not a plain source that was borrowed, and not a source whose leg
\* was kept from its namespace.
Reconciling == {r \in Settled : LET c == source[r]
                                IN /\ r \in DOMAIN terminal
                                   /\ Kind[c] # "barred"
                                   /\ HasLeg(c) => ~EverOccupied(r)
                                   /\ terminal[r].status = "borrowed" => HasLeg(c)}

\* A completed container, image or vector leaves every live record of its
\* subtree over its own artifact, although a kill or a loss before this run
\* may have left one without: the checkpoint looks at the descendants too.
SubtreeIntact ==
  \A r \in Reconciling :
    Live(r) /\ HasChildren(terminal[r].hash) => \A p \in Subtree(r) : Live(p) => Intact(p)

\* A live record below p is owed to a live parent that holds its bytes, or to
\* one that ran over the budget after it had emitted them.
OwedTo(q, o) ==
  /\ o \in DOMAIN terminal /\ terminal[o].hash # None
  /\ Live(o) \/ terminal[o].status = "capped" \/ HasLeg(terminal[o].hash)
  /\ LET c == terminal[o].hash
     IN \/ \E i \in DOMAIN Members[c] :
             q = o \o Members[c][i].name /\ terminal[q].hash = Members[c][i].content
        \/ HasLeg(c) /\ q = LegPath(o, c) /\ terminal[q].hash = c

Owed(q) == \E n \in 1..(Len(q) - 1) : OwedTo(q, SubSeq(q, 1, n))

\* q and everything live between r and q is owed: q is part of what r holds.
Belongs(r, q) ==
  \A o \in Subtree(r) \ {r} : Live(o) /\ (o = q \/ Under(o, q)) => Owed(o)

\* A member that nothing of its own keeps from being read.
Readable(m) == m.content # Refused /\ Size[m.content] =< MaxMember

\* Member i of the container c is readable and no earlier one aliases it.
Admitted(c, i) ==
  LET m == Members[c]
  IN /\ Readable(m[i])
     /\ \A j \in 1..(i - 1) : Readable(m[j]) => KeyOf(m[j].name) # KeyOf(m[i].name)

\* A file of the division lies at q, or between p and q, up to case.
Crossed(p, q) == \E w \in Roots : Under(p, w) /\ IsPrefix(KeyOf(w), KeyOf(q))

\* Every admitted member of every live container that r holds has its own
\* bytes on record, where no file of the division is in the way.
Complete(r) ==
  \A p \in Subtree(r) : Live(p) /\ Belongs(r, p) =>
    \A i \in DOMAIN Members[terminal[p].hash] :
      LET c == terminal[p].hash
          q == p \o Members[c][i].name
      IN Admitted(c, i) /\ ~Crossed(p, q) =>
           q \in DOMAIN terminal /\ terminal[q].hash = Members[c][i].content

SkippedAreComplete ==
  ~running => \A r \in Roots : source[r] # Absent /\ Skippable(r, source[r]) => Complete(r)

\* Whenever the next run would skip a source, its expansion is complete,
\* whatever was lost or edited before, in any order, and however often a run
\* was killed in an expansion.  Left out is what a run leaves that was killed
\* while it retired members or while it replaced one live container by
\* another, or whose append failed: those are findings (SafeToKill).
\* It is said of archives whose members lie apart (Separate).
SkipMeansComplete == killed # "broken" => SkippedAreComplete

Strays(r) == {q \in Subtree(r) \ {r} : Live(q) /\ ~Owed(q)}

\* Archives whose members lie apart: none lies in the `.d/` of another (a
\* directory of that name), two at one path are both read, and the synthetic
\* names of refused aliases are nobody's.
Separate ==
  /\ \A c \in Content : \A i, j \in DOMAIN Members[c] : i # j =>
       /\ ~IsStrictPrefix(KeyOf(Members[c][i].name), KeyOf(Members[c][j].name))
       /\ Members[c][i].name = Members[c][j].name => Readable(Members[c][i])
  /\ \A n \in DOMAIN CollisionName :
       /\ \A c \in Content : \A i \in DOMAIN Members[c] :
            Head(Members[c][i].name) # CollisionName[n]
       /\ \A w \in Roots : w[Len(w)] # CollisionName[n]

\* As long as no run is cut short, no dropped member, and no child of a source
\* that no longer has one, stays live below a reconciling entry, whatever
\* became of the source: another archive, an image, a plain file, a container
\* that does not open or overruns its budget.
DroppedAreRetired == killed = "never" => \A r \in Reconciling : Strays(r) = {}

\* The child of a leg that has something to write is due, unless its path
\* was taken: the warning a taken path leaves is never looked at again.
LegDue(p) ==
  LET c == terminal[p].hash
  IN /\ Live(p) /\ HasLeg(c) /\ LegOutcome[c] = "text"
     /\ p[Len(p)] # LegName[Kind[c]] /\ ~EverOccupied(p)

\* "a failure on the record rather than a silently missing child"
\* (src/src/pipeline.rs:1448): a due leg left a record.  The code keeps this
\* only as long as no run is cut short (README.md, Findings).
LegMinted ==
  \A r \in Settled : \A p \in Subtree(r) :
    LegDue(p) => LET q == LegPath(p, terminal[p].hash)
                 IN /\ q \in DOMAIN terminal
                    /\ terminal[q].hash = terminal[p].hash
                    /\ terminal[q].status \in {"text", "failed"}

\* Outside the entry at work, every admitted member of a live container has
\* its own bytes on record.
MembersRecorded ==
  \A p \in DOMAIN terminal :
    Live(p) /\ (cur # None => p # cur /\ ~Under(cur, p)) =>
      LET c == terminal[p].hash
      IN \A i \in DOMAIN Members[c] :
           LET q == p \o Members[c][i].name
           IN Admitted(c, i) /\ ~Crossed(p, q) =>
                q \in DOMAIN terminal /\ terminal[q].hash = Members[c][i].content

\* As long as no run is cut short, no child is silently missing, whatever was
\* edited or lost: neither that of a leg nor, where no file of the division
\* is in the way, a member.
ChildrenAreRecorded == killed = "never" => LegMinted /\ MembersRecorded

\* The containers that are open: their own records are still to come.
Opened == {i \in DOMAIN agenda : agenda[i].op = "close"}

\* A quine stops.  The open containers lie one in the other, no two with the
\* same bytes, and at most MaxDepth + 1; and while a container is open, no
\* record of its own bytes becomes live: one that is put in place is a skip,
\* live with these bytes before.
NoSelfNesting ==
  /\ \A i, j \in Opened : i < j => /\ Under(agenda[j].path, agenda[i].path)
                                   /\ agenda[i].content # agenda[j].content
  /\ Cardinality({agenda[i].content : i \in Opened}) =< MaxDepth + 1
  /\ \A i \in Opened :
       /\ held # None /\ held.record.status \in Bearing
       /\ held.record.hash = agenda[i].content
       => held.path \in DOMAIN terminal /\ terminal[held.path] = held.record

\* More claims the code does not keep (README.md, Findings).

\* "Safe to kill and re-run" (src/src/pipeline.rs:1957): whatever was killed,
\* a run that completes leaves no stray and no leg unminted below the entries
\* it reconciles or skips, and what the next run would skip is complete ("an
\* intact parent artifact proves the whole expansion finished",
\* docs/DESIGN.md:53).
SafeToKill == /\ SkippedAreComplete
              /\ LegMinted
              /\ \A r \in Reconciling : Strays(r) = {}

\* The paths of the members that the record at p says it holds.
MemberKeys(p) == {KeyOf(p \o Members[terminal[p].hash][i].name) :
                    i \in {i \in DOMAIN Members[terminal[p].hash] :
                             Members[terminal[p].hash][i].content # Refused}}

\* "two members whose normalized paths would alias one artifact are refused as
\* `member-path-collision`" (docs/DESIGN.md:51): where two live containers of
\* one expansion share a member's path, one of them has a collision record.
AliasesAreRefused == \A r \in Settled : \A p, o \in Subtree(r) :
  /\ Live(p) /\ Live(o) /\ p # o
  /\ MemberKeys(p) \cap MemberKeys(o) # {}
  => \E c \in {p, o}, i \in DOMAIN CollisionName :
       LET q == Append(c, CollisionName[i])
       IN q \in DOMAIN terminal /\ terminal[q].status = "failed"

\* "a member repeating an ancestor container's hash" is refused "as
\* `container-recursive`" (docs/DESIGN.md:51): no live container's member has
\* its own bytes on a live record.  The checkpoint comes before the guard.
QuinesAreRefused == \A r \in Settled : \A p \in Subtree(r) : Live(p) =>
  LET c == terminal[p].hash
  IN \A i \in DOMAIN Members[c] :
       LET q == p \o Members[c][i].name
       IN ~(Members[c][i].content = c /\ Live(q) /\ terminal[q].hash = c)
=============================================================================
