---------------------------- MODULE MCPipeline ----------------------------
(***************************************************************************)
(* A division of two paths and three contents.  c1 and c2 convert to the   *)
(* same text under different sidecars (a workbook with and without a       *)
(* hidden row), c3 detects as another format, whose converter exists only  *)
(* from rules 2 on and reads the other contents too; under rules 1 c3 is   *)
(* unsupported.  The two converters carry the same version, as most do.    *)
(***************************************************************************)
EXTENDS Pipeline, TLC

CONSTANTS c1, c2, c3, f1, f2, k1, k2, v, t1, t2, s1, s2, s3

MCDetected == [c \in Content |-> IF c = c3 THEN f2 ELSE f1]
MCRoute == [r \in Version |-> f1 :> k1 @@ f2 :> (IF r = 1 THEN None ELSE k2)]
MCVersionOf == k1 :> v @@ k2 :> v
MCResult ==
  k1 :> [r \in Version |-> [c \in Content |->
           IF c = c3 THEN Fail ELSE [text |-> t1, seg |-> IF c = c1 THEN s1 ELSE s2]]]
  @@
  k2 :> [r \in Version |-> [c \in Content |->
           IF c = c2 THEN Fail ELSE [text |-> t2, seg |-> s3]]]
MCFits == {<<s1, t1>>, <<s2, t1>>, <<s3, t2>>}
=============================================================================
