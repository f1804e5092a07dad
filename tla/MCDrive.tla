------------------------------ MODULE MCDrive ------------------------------
(***************************************************************************)
(* One worker, one descendant, one unit of stderr and two of memory: what  *)
(* each may hold, the leader and an unspoilt descendant together included. *)
(***************************************************************************)
EXTENDS Drive
=============================================================================
