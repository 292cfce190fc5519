--------------------------- MODULE SharedJourney ---------------------------
(****************************************************************************)
(* What a shared journey promises the people in it: it is one object.       *)
(* Its root is created once, its steps are worked in their order and        *)
(* passed on only before they start.  Once something has gone wrong on the  *)
(* way to it (trouble), a version may replace another, but it is still one  *)
(* that people may get to; what is dismissed stays gone.                    *)
(****************************************************************************)
EXTENDS Naturals, Sequences

CONSTANTS
    Participants,   \* the people in it, in the order of its table of users
    Gone,           \* a journey that was dismissed
    Sizes           \* how many leaves a root may be decomposed into

Person == {Participants[k] : k \in DOMAIN Participants}

\* The leaves of the root, in their order; no root yet is no leaf.
LeafRec == [status : {"open", "running", "done"}, who : Person]
Version == UNION {[1 .. n -> LeafRec] : n \in Sizes \cup {0}}

\* A leaf is started only when those before it are done.
WorkedInOrder(v) ==
    \A i \in DOMAIN v : v[i].status # "open" => \A k \in 1 .. i - 1 : v[k].status = "done"

Created == {v \in Version : v # <<>> /\ \A i \in DOMAIN v : v[i].status = "open"}
Changed(v) == UNION {{[v EXCEPT ![i] = l] : l \in LeafRec} : i \in DOMAIN v}

\* Where one action of one person may lead.
Steps(v) ==
    IF v = <<>> THEN Created
    ELSE {w \in Changed(v) :
             /\ WorkedInOrder(w)
             /\ \A i \in DOMAIN v :
                   \/ w[i] = v[i]
                   \/ v[i].status = "open" /\ w[i].status = "running" /\ w[i].who = v[i].who
                   \/ v[i].status = "running" /\ w[i].status = "done" /\ w[i].who = v[i].who
                   \/ v[i].status = "open" /\ w[i].status = "open"}

VARIABLES current, trouble

Init == current = <<>> /\ trouble = FALSE

Act == current # Gone /\ ~trouble /\ current' \in Steps(current) /\ trouble' = FALSE
Replace == current # Gone /\ trouble' /\ current' \in {v \in Version : WorkedInOrder(v)}
Trouble == trouble' /\ UNCHANGED current
Dismiss == current' = Gone /\ (trouble => trouble')

Spec == Init /\ [][Act \/ Replace \/ Trouble \/ Dismiss]_<<current, trouble>>
=============================================================================
