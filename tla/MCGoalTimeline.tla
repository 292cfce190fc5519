---------------------------- MODULE MCGoalTimeline ----------------------------
(* Instances of GoalTimeline for TLC. *)
EXTENDS GoalTimeline

CONSTANTS phone, laptop, own, forwarded

OnePort == [c \in Client |-> own]
\* For two devices, one on each port.
TwoPorts == [c \in Client |-> IF c = phone THEN own ELSE forwarded]

\* Short children, one that is decomposed in turn, a big journal leaf.
MCSplits == {<< <<10, FALSE>>, <<36, FALSE>> >>, << <<36, TRUE>>, <<10, FALSE>> >>,
             << <<12, TRUE>>, <<28, FALSE>> >>}
=============================================================================
