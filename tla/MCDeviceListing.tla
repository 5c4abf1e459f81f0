---------------------------- MODULE MCDeviceListing ---------------------------
(* Instances of DeviceListing for TLC. *)
EXTENDS DeviceListing

CONSTANT d1

\* Every socket connects with a token of d1.
AllOfD1 == [s \in Socket |-> d1]
=============================================================================
