----------------------------- MODULE MCHandoff -----------------------------
(***************************************************************************)
(* Two divisions over two paths whose names do not fold together.  The    *)
(* first one is bundled while it is run, the second is there to merge with:*)
(* a bundle whose mirror is empty.                                         *)
(***************************************************************************)
EXTENDS Handoff

Presences == {{}, {1, 2}}
Distinct == <<1, 2>>
Both == {{1, 2}}
Texts == Permutations(TextValue)
=============================================================================
