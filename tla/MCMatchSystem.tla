--------------------------- MODULE MCMatchSystem ---------------------------
(* Instances of MatchSystem for TLC. *)
EXTENDS MatchSystem, TLC

CONSTANTS u1, u2, u3

MCUsers == <<u1, u2>>
MCThreeUsers == <<u1, u2, u3>>
\* Connection ids are interchangeable.
Symm == Permutations(ConnId)
MCNoGroups == {}
MCPairs == {<<u1, u2>>}
MCPairAndLone == {<<u1, u2>>, <<u2>>}
\* For a journey of three.
MCTrio == {<<u1, u2, u3>>}
=============================================================================
