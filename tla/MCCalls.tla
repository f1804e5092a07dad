------------------------------ MODULE MCCalls ------------------------------
(* Two threads, which are interchangeable. *)
EXTENDS Calls, TLC

CONSTANTS c1, c2

Symmetric == Permutations(Caller)

=============================================================================
