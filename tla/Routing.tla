------------------------------- MODULE Routing -------------------------------
(***************************************************************************)
(* What the rules and the deployment make of a file before any converter   *)
(* runs: the format table and detection (src/src/detect.rs), the registry  *)
(* of converters as one build binds it (src/src/convert/mod.rs), and the   *)
(* provider a deployment configures (src/src/convert/provider.rs).         *)
(*                                                                         *)
(* Each is the sequence of its entries.  A name stands for an extension or *)
(* a basename, a path is the sequence of its components, and a build is    *)
(* what it was compiled with and for.                                      *)
(***************************************************************************)
EXTENDS Integers, Sequences, FiniteSets, SequencesExt, TLC

CONSTANTS Kind,     \* what lies at each real path: "dir", "file" or another kind
          Link,     \* where each symlink leads
          Shared    \* the roots many programs share

\* Whatever lies above a shared root is shared or too shallow to be granted.
ASSUME RoutingAssumption ==
  /\ \A l \in DOMAIN Link : Link[l] \in DOMAIN Kind
  /\ \A s \in Shared : \A n \in 2..Len(s) : SubSeq(s, 1, n) \in Shared

Unknown == "unknown"
Reserved == {Unknown, "symlink"}

-----------------------------------------------------------------------------
(* Formats: each entry has an id, claims names, and may refine another id *)

ParseTable(entries) ==
  LET refined(k) == {j \in DOMAIN entries : entries[j].id = entries[k].refines}
  IN  CASE \E k \in DOMAIN entries : entries[k].id \in Reserved -> "reserved"
        [] \E j, k \in DOMAIN entries : j # k /\ (entries[j].id = entries[k].id
                 \/ entries[j].names \cap entries[k].names # {}) -> "claimed twice"
        [] \E k \in DOMAIN entries : entries[k].refines # "none" /\
             (k \in refined(k) \/ ~\E j \in refined(k) : entries[j].refines = "none") -> "bad refinement"
        [] OTHER -> "none"

\* The id that claims a name, and the one an id refines.
DeclaredFormat(entries, name) ==
  LET claims == {k \in DOMAIN entries : name \in entries[k].names}
  IN  IF claims = {} THEN "none" ELSE entries[CHOOSE k \in claims : TRUE].id
RefinedParent(entries, id) ==
  LET own == {k \in DOMAIN entries : entries[k].id = id}
  IN  IF own = {} THEN "none" ELSE entries[CHOOSE k \in own : TRUE].refines

\* The bytes decide, unless the name declares what refines them; bytes of a
\* format outside the table leave it to the name.
ResolveDetection(entries, name, magic) ==
  LET declared == DeclaredFormat(entries, name)
      bytes == DeclaredFormat(entries, magic)
      refines == declared # "none" /\ bytes # "none" /\ bytes # declared
                   /\ RefinedParent(entries, declared) = bytes
      detected == CASE bytes # "none" /\ ~refines -> bytes
                    [] declared # "none" -> declared
                    [] OTHER -> Unknown
  IN  [declared |-> declared, detected |-> detected,
       mismatch |-> declared # "none" /\ bytes # "none" /\ ~refines /\ bytes # declared,
       warned |-> magic # "none" /\ bytes = "none" /\ declared # "none"]

-----------------------------------------------------------------------------
(* The provider: an executable in each of its two roles, with the closure  *)
(* it may load from                                                        *)

Roles == {"raster", "encoder"}
NoProvider == <<>>

Canonical(path) ==
  LET links == {n \in 1..Len(path) : SubSeq(path, 1, n) \in DOMAIN Link}
      first == CHOOSE n \in links : \A m \in links : n <= m
  IN  IF links = {} THEN path
      ELSE Link[SubSeq(path, 1, first)] \o SubSeq(path, first + 1, Len(path))

NamesSharedRoot(path) == path \in Shared \/ Len(path) < 2
LiesInside(path, root) == IsPrefix(root, path)

\* Faulty variant: a closure entry is judged by the path as written.
RootRefusedAsWritten(root) ==
  \/ ".." \in ToSet(root) \/ root \in DOMAIN Link
  \/ NamesSharedRoot(root)
  \/ Canonical(root) \notin DOMAIN Kind
  \/ Canonical(root) \in DOMAIN Kind /\ Kind[Canonical(root)] \notin {"dir", "file"}

\* A closure entry is a real file or directory in normal form that is no
\* shared root, neither as written nor where it leads.
RootRefused(root) ==
  \/ ".." \in ToSet(root) \/ root \in DOMAIN Link
  \/ NamesSharedRoot(root) \/ NamesSharedRoot(Canonical(root))
  \/ Canonical(root) \notin DOMAIN Kind
  \/ Canonical(root) \in DOMAIN Kind /\ Kind[Canonical(root)] \notin {"dir", "file"}

\* Everything after this sees the real paths only; an executable with a
\* closure lies in it.
RoleRefused(role) ==
  LET real == Canonical(role.path)
  IN  \/ ".." \in ToSet(role.path)
      \/ real \notin DOMAIN Kind
      \/ real \in DOMAIN Kind /\ Kind[real] # "file"
      \/ \E root \in role.roots : RootRefused(root)
      \/ role.roots # {} /\ ~\E root \in role.roots : LiesInside(real, Canonical(root))

Validated(role) ==
  [role EXCEPT !.path = Canonical(@), !.roots = {Canonical(root) : root \in @}]

\* Both roles, or a configuration that is refused.
ParseProvider(roles) ==
  CASE roles = <<>> -> [error |-> "none", svg |-> NoProvider]
    [] {roles[k].role : k \in DOMAIN roles} # Roles -> [error |-> "missing role", svg |-> NoProvider]
    [] \E k \in DOMAIN roles : RoleRefused(roles[k]) -> [error |-> "role", svg |-> NoProvider]
    [] OTHER -> [error |-> "none", svg |-> [k \in DOMAIN roles |-> Validated(roles[k])]]

\* The sections of the rules: the roles that are pinned, and those of them
\* with a closure digest; a closure and its digest are a pair.
ValidatePins(sections) == sections.roles \in {{}, Roles} /\ sections.closures \subseteq sections.roles
CheckClosureIsPinned(role, sections) == role.roots # {} <=> role.role \in sections.closures

-----------------------------------------------------------------------------
(* The registry *)

Gated == {"records", "image-ocr", "asr"}   \* converters a build may be without
Known == Gated \cup {"passthrough", "metadata"}

\* The speech engine is pinned for one machine class.
Built(build, id) == \/ id \notin Gated \cup {"metadata"}
                    \/ id \in build.features /\ (id = "asr" => build.pinned)
NotBuilt(build, id) == IF id \in build.features THEN "engine-unpinned" ELSE "not built"
NoConverter == "no converter"

RegistryStart == [error |-> "none", converters |-> <<>>, byFormat |-> <<>>, reasons |-> <<>>,
                  svg |-> 0, metadata |-> 0]
RulesError(r, what) == [r EXCEPT !.error = what]

\* Faulty variant: a reason does not look at what converters claim.
ClaimReasonAnyway(r, format, reason) ==
  CASE r.error # "none" -> r
    [] format \in Reserved -> RulesError(r, "reserved")
    [] format \in DOMAIN r.reasons -> RulesError(r, "claimed twice")
    [] OTHER -> [r EXCEPT !.reasons = (format :> reason) @@ @]

ClaimReason(r, format, reason) ==
  CASE r.error # "none" -> r
    [] format \in Reserved -> RulesError(r, "reserved")
    [] format \in DOMAIN r.byFormat \cup DOMAIN r.reasons -> RulesError(r, "claimed twice")
    [] OTHER -> [r EXCEPT !.reasons = (format :> reason) @@ @]

ClaimConverter(r, format, index) ==
  CASE r.error # "none" -> r
    [] format \in Reserved -> RulesError(r, "reserved")
    [] format \in DOMAIN r.byFormat -> RulesError(r, "claimed twice")
    [] OTHER -> [r EXCEPT !.byFormat = (format :> index) @@ @]

\* An entry the build can serve.  A configured provider rides on the image
\* converter, and only with pins for all of it.
Bind(r, entry, svg, sections) ==
  LET index == Len(r.converters) + 1
      rides == svg # NoProvider /\ entry.id = "image-ocr"
      bound == [r EXCEPT !.converters = Append(@, entry.id),
                         !.svg = IF rides THEN index ELSE @,
                         !.metadata = IF entry.id = "metadata" THEN index ELSE @]
  IN  CASE entry.id \notin Known -> RulesError(r, "unknown converter")
        [] rides /\ sections.roles = {} -> RulesError(r, "unpinned provider")
        [] rides /\ \E k \in DOMAIN svg : ~CheckClosureIsPinned(svg[k], sections) -> RulesError(r, "unpinned closure")
        [] entry.id = "asr" /\ ~sections.asr -> RulesError(r, "no asr section")
        [] entry.version # "current" -> RulesError(r, "version")
        [] OTHER -> FoldLeft(LAMBDA o, format : ClaimConverter(o, format, index), bound, entry.formats)

\* An entry the build cannot serve gives its formats a reason instead; the
\* metadata converter claims no format and is left out.
Enter(r, entry, build, svg, sections) ==
  LET give(reason) == FoldLeft(LAMBDA o, format : ClaimReason(o, format, reason), r, entry.formats)
  IN  CASE r.error # "none" -> r
        [] entry.e = "unsupported" -> give(entry.reason)
        [] Built(build, entry.id) -> Bind(r, entry, svg, sections)
        [] entry.id = "metadata" -> r
        [] OTHER -> give(NotBuilt(build, entry.id))

\* The converters in the order of the rules, the unsupported entries last.
ParseRegistry(rules, build, provider, sections) ==
  LET order == SelectSeq(rules, LAMBDA x : x.e = "converter") \o SelectSeq(rules, LAMBDA x : x.e = "unsupported")
      svg == IF "svg-provider" \in build.features THEN provider ELSE NoProvider
      step(r, entry) == Enter(r, entry, build, svg, sections)
  IN  IF ~ValidatePins(sections) THEN RulesError(RegistryStart, "pins")
      ELSE FoldLeft(step, RegistryStart, order)

\* The converter of a format, or the reason it has none.
Route(r, format) ==
  CASE format \in DOMAIN r.byFormat -> <<"converter", r.converters[r.byFormat[format]]>>
    [] format \in DOMAIN r.reasons -> <<"reason", r.reasons[format]>>
    [] OTHER -> <<"reason", NoConverter>>

-----------------------------------------------------------------------------
(* For the checks *)

\* What a file is detected as is claimed by its bytes or by its name, its
\* bytes are never overruled but by what refines them, and it is marked a
\* mismatch exactly when its name declares something else.
DetectsAsClaimed(entries) ==
  LET names == UNION {entries[k].names : k \in DOMAIN entries} \cup {"none", "foreign"}
      claims(k, name) == name \in entries[k].names
  IN  ParseTable(entries) = "none" =>
        \A name, magic \in names :
          LET d == ResolveDetection(entries, name, magic)
          IN  /\ d.detected = Unknown <=> ~\E k \in DOMAIN entries : claims(k, name) \/ claims(k, magic)
              /\ d.detected # Unknown => \E k \in DOMAIN entries :
                   entries[k].id = d.detected /\ (claims(k, name) \/ claims(k, magic))
              /\ \A k \in DOMAIN entries : claims(k, magic) /\ d.detected # entries[k].id =>
                   \E j \in DOMAIN entries : /\ claims(j, name) /\ d.detected = entries[j].id
                                             /\ entries[j].refines = entries[k].id
              /\ d.mismatch <=> \E k \in DOMAIN entries : claims(k, name) /\ entries[k].id # d.detected
              /\ d.warned => ~d.mismatch

Full == [features |-> Gated \cup {"metadata", "svg-provider"}, pinned |-> TRUE]
Builds == [features : SUBSET Full.features, pinned : BOOLEAN]
Sections(asr) == [roles |-> {}, closures |-> {}, asr |-> asr]

\* Rules the full build accepts are accepted by every build, and give every
\* format one route: to the entry that lists it where the build has its
\* converter, to a reason otherwise.
RoutesAgree(rules) ==
  \A asr \in BOOLEAN : ParseRegistry(rules, Full, NoProvider, Sections(asr)).error = "none" =>
    \A build \in Builds :
      LET r == ParseRegistry(rules, build, NoProvider, Sections(asr))
      IN  /\ r.error = "none"
          /\ \A format \in Reserved : Route(r, format) = <<"reason", NoConverter>>
          /\ \A k \in DOMAIN rules : \A format \in ToSet(rules[k].formats) :
               Route(r, format) =
                 CASE rules[k].e = "unsupported" -> <<"reason", rules[k].reason>>
                   [] Built(build, rules[k].id) -> <<"converter", rules[k].id>>
                   [] OTHER -> <<"reason", NotBuilt(build, rules[k].id)>>
          /\ r.metadata # 0 => r.converters[r.metadata] = "metadata"
          /\ "metadata" \in ToSet(r.converters) <=> r.metadata # 0

\* A leg that a provider serves runs only what the deployment enumerated:
\* real trees, none of them a shared root or above one, the executable in
\* one of them, and a pinned digest over them.
GrantsAreEnumerated(config) ==
  LET entry == [e |-> "converter", id |-> "image-ocr", version |-> "current", formats |-> <<"png">>]
      granted(role) == role.roots \cup {role.path}
      sections(pinned, closures) == [roles |-> pinned, closures |-> closures, asr |-> FALSE]
  IN  config.error = "none" =>
        \A closures \in SUBSET Roles, pinned \in {{}, Roles} :
          \A r \in {ParseRegistry(<<entry>>, Full, config.svg, sections(pinned, closures))} :
            r.error = "none" /\ r.svg # 0 =>
              /\ r.converters[r.svg] = "image-ocr" /\ Route(r, "svg") = <<"reason", NoConverter>>
              /\ pinned = Roles /\ {config.svg[k].role : k \in DOMAIN config.svg} = Roles
              /\ \A k \in DOMAIN config.svg :
                   LET role == config.svg[k]
                   IN  /\ \A tree \in granted(role) :
                            /\ tree \in DOMAIN Kind /\ Canonical(tree) = tree
                            /\ \A s \in Shared : ~LiesInside(s, tree)
                       /\ role.roots # {} => /\ role.role \in closures
                                             /\ \E root \in role.roots : LiesInside(role.path, root)
                       /\ role.role \in closures => role.roots # {}

GrantsEnumerated(roles) == GrantsAreEnumerated(ParseProvider(roles))

=============================================================================
