---------------------------- MODULE MCDeviceAuth ------------------------------
(* Instances of DeviceAuth for TLC. *)
EXTENDS DeviceAuth, TLC

\* Everything but the action of a handler is chosen from these sets alone.
Symmetry ==
    Permutations(Activation) \cup Permutations(Key) \cup Permutations(Session)
        \cup Permutations(Token) \cup Permutations(Task)
=============================================================================
