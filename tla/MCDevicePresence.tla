--------------------------- MODULE MCDevicePresence ---------------------------
(* Instances of DevicePresence for TLC. *)
EXTENDS DevicePresence

CONSTANT d1

\* Every socket connects with a token of d1.
AllOfD1 == [s \in Socket |-> d1]
=============================================================================
