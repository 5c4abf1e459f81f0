-------------------------- MODULE MCTokenRevocation ---------------------------
(* Instances of TokenRevocation for TLC. *)
EXTENDS TokenRevocation, TLC

\* No action singles out a process, a token or a slot.
Symmetry == Permutations(Instance) \cup Permutations(Jti) \cup Permutations(Check)
=============================================================================
