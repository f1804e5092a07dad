---------------------------- MODULE MCExpansion ----------------------------
(***************************************************************************)
(* A root r, and in `r.d/` a real file that some instances put there.      *)
(* The contents take every control path: v1 and v2 are two versions of     *)
(* one archive that share a nested archive, v1 holds an aliasing pair and  *)
(* a refused member, quine holds itself and wrap a quine at the same       *)
(* path, over overruns the budget, bad does not open, huge declares too    *)
(* much, pics holds an image and a member over its own ceiling; image and  *)
(* vector have a leg, blank one with nothing to write, torn one that       *)
(* fails; junk is a plain file that does not convert and link is a         *)
(* symlink.  alias1 and alias2 hold a nested archive and a literal member  *)
(* at the path of the nested archive's own member; an instance without     *)
(* them meets the hypothesis of RetirementProofs.                          *)
(***************************************************************************)
EXTENDS Expansion

CONSTANTS RootMayHold, NeighbourMayHold   \* per instance

E(n, c) == [name |-> <<n>>, content |-> c]

Archive ==
  [inner |-> <<E("a", "t1")>>,
   v1 |-> <<E("n", "inner"), E("a", "t1"), E("A", "t2"), E("x", Refused)>>,
   v2 |-> <<E("n", "inner"), E("b", "t2")>>,
   quine |-> <<E("q", "quine"), E("a", "t1")>>,
   wrap |-> <<E("q", "quine")>>,
   deep |-> <<E("n", "nest"), E("b", "t2")>>,
   nest |-> <<E("n", "inner"), E("b", "t2")>>,
   over |-> <<E("n", "inner"), E("a", "t1"), E("b", "t2"), E("c", "t1"), E("p", "image")>>,
   bad |-> <<>>, huge |-> <<>>,
   pics |-> <<E("p", "image"), E("b", "big")>>,
   alias1 |-> <<E("n", "inner"), [name |-> <<"n", "a">>, content |-> "t2"]>>,
   alias2 |-> <<E("n", "inner"), [name |-> <<"n", "a">>, content |-> "t2"], E("b", "t2")>>]

Legs == [image |-> "raster", blank |-> "raster", torn |-> "raster", vector |-> "vector"]

Aliases == {"alias1", "alias2"}   \* archives whose members are not apart

MCContent == (DOMAIN Archive \ (Aliases \ RootMayHold)) \cup DOMAIN Legs
               \cup {"t1", "t2", "big", "junk", "link"}
MCNames == <<"#c1", "#leg", "A", "a", "b", "c", "n", "p", "q", "r", "w", "x">>
MCName == {MCNames[i] : i \in DOMAIN MCNames}
MCRank == [n \in MCName |-> CHOOSE i \in DOMAIN MCNames : MCNames[i] = n]
MCKey == [n \in MCName |-> IF n = "A" THEN "a" ELSE n]
MCWalk == <<<<"r">>, <<"r", "w">>>>
MCMayHold == [p \in Roots |-> IF p = <<"r">> THEN RootMayHold ELSE NeighbourMayHold]
MCKind == [c \in Content |-> IF c \in DOMAIN Archive THEN "container"
                             ELSE IF c \in DOMAIN Legs THEN Legs[c]
                             ELSE IF c = "link" THEN "barred" ELSE "leaf"]
MCMembers == [c \in Content |-> IF c \in DOMAIN Archive THEN Archive[c] ELSE <<>>]
MCSize == [c \in Content |-> IF c = "big" THEN 3 ELSE 1]
MCDeclared == [c \in Content |-> IF c = "huge" THEN 9 ELSE 0]
MCConverts == Content \ {"bad", "junk"}
MCLegOutcome == [c \in Content |-> IF c = "blank" THEN "nothing"
                                   ELSE IF c = "torn" THEN "failed" ELSE "text"]
MCLegName == [k \in {"raster", "vector"} |-> "#leg"]
MCCollisionName == <<"#c1">>

ASSUME ApartAssumption == RootMayHold \cap Aliases = {} => Separate
=============================================================================
