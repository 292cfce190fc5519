---------------------------- MODULE MCConnections ----------------------------
(* Instances of Connections for TLC. *)
EXTENDS Connections, TLC

CONSTANTS u1, u2, u3

MCUsers == <<u1, u2>>
MCThreeUsers == <<u1, u2, u3>>
\* Connection and message ids are interchangeable.
Symm == Permutations(ConnId) \cup Permutations(MsgId)
=============================================================================
