--------------------------- MODULE MCDeviceIdentity ---------------------------
(* Instances of DeviceIdentity for TLC. *)
EXTENDS DeviceIdentity, TLC

CONSTANTS i1, i2, i3, m1, m2, m3

\* A machine with two installations and one with a single one; the third MAC
\* address is only ever sent by an installation of another machine.
TwoAndOne == i1 :> m1 @@ i2 :> m1 @@ i3 :> m2

\* Tasks and rows are interchangeable, and so are the two installations.
Symmetry == Permutations(Device) \cup Permutations(Task) \cup Permutations({i1, i2})

\* Calls mix the machine of the single installation with the third one while it
\* is orderly, the machine of the two stays clean, and one of the two machines
\* is orderly at any time: the properties ask nothing of mixed machines, only
\* that a clean one does not suffer from them.
Bounded ==
    /\ m1 \notin mixed
    /\ m2 \in mixed => Orderly(m2)
    /\ Orderly(m1) \/ Orderly(m2)
=============================================================================
