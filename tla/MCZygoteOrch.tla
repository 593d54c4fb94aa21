---------------------------- MODULE MCZygoteOrch ----------------------------
(* Instances of ZygoteOrch for TLC. *)
EXTENDS ZygoteOrch

\* Around the limits of the app uids of user 0
BoundaryUids == {9999, 10000, 90000}

\* An app and the system uid of user 10
SecondaryUids == {1010007, 1001000}
=============================================================================
