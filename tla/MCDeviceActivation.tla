-------------------------- MODULE MCDeviceActivation --------------------------
(* Instances of DeviceActivation for TLC. *)
EXTENDS DeviceActivation, TLC

\* Everything but the action of a handler is chosen from these sets alone.
Symmetry ==
    Permutations(Activation) \cup Permutations(Key) \cup Permutations(Task)
        \cup Permutations(View)
=============================================================================
