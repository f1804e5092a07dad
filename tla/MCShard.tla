------------------------------ MODULE MCShard ------------------------------
(* A small shard: two distinct records, at most three lines.               *)
EXTENDS Shard
=============================================================================
