---------------------------- MODULE MCUserFiles ----------------------------
(* Two ports, one or two values of everything. *)
EXTENDS UserFiles

Symmetry == Permutations(Ports)
MCEvents == {"goal_created", "goal_ended"}
MCRequests == [profile |-> 3, reminders |-> 4, journal |-> 4, user |-> 4]
=============================================================================
