---------------------------- MODULE UserProfile ----------------------------
(****************************************************************************)
(* What is in the profile of a user (ne/profile/user-profile.c): a list of  *)
(* the inputs, a list of what happened to goals and a section of derived    *)
(* keys, some the system's own and the others set by the user or the AI.    *)
(* Every operation reads all three, changes them and writes all three.      *)
(*                                                                          *)
(* Values are short of the limits they are cut at, and times are left out.  *)
(****************************************************************************)
EXTENDS Sequences, Functions, SequencesExt

CONSTANTS None   \* the value of a key that is empty

Profile(inputs, goals, derived) == [inputs |-> inputs, goals |-> goals, derived |-> derived]

\* A file that is missing is made so; an empty one reads like it.
NewProfile == Profile(<<>>, <<>>, << >>)

\* The keys write_derived_state writes; all others are carried over.
SystemKeys == {"latest_input", "last_goal_event", "last_goal_id", "current_focus_goal_id"}
ProfilesOf(texts, events, goals, keys, values) ==
    [inputs  : Seq(texts),
     goals   : Seq(events \X goals),
     derived : UNION {[lines -> texts \cup events \cup goals \cup values \cup {None}] :
                         lines \in SUBSET (SystemKeys \cup keys)}]

Drop(f, keys) == Restrict(f, DOMAIN f \ keys)
Set(f, k, v) == [x \in DOMAIN f \cup {k} |-> IF x = k THEN v ELSE f[x]]

\* The system's own keys, empty where the section has no line for them.
parse_derived_state(derived) ==
    [k \in SystemKeys |-> IF k \in DOMAIN derived THEN derived[k] ELSE None]

\* The section with the system's keys replaced and the others as they were.
write_derived_state(derived, state) ==
    [k \in DOMAIN derived \cup SystemKeys |-> IF k \in SystemKeys THEN state[k] ELSE derived[k]]

append_input_record(inputs, text) == Append(inputs, text)
append_goal_record(goals, event, goal) == Append(goals, <<event, goal>>)

UserProfileRecordInput(p, text) ==
    Profile(append_input_record(p.inputs, text), p.goals,
            write_derived_state(p.derived,
                [parse_derived_state(p.derived) EXCEPT !["latest_input"] = text]))

Focusing == {"goal_created", "goal_repaired", "goal_started", "goal_started_deep"}

\* The goal in focus is the one last created, repaired or started, until it ends.
\* (fault: any goal that ends takes the focus away)
Focus_AnyEnd(now, event, goal) ==
    IF event \in Focusing THEN goal ELSE IF event = "goal_ended" THEN None ELSE now
Focus(now, event, goal) ==
    IF event \in Focusing THEN goal
    ELSE IF event = "goal_ended" /\ now = goal THEN None ELSE now

UserProfileRecordGoalEvent(p, event, goal) ==
    LET state == parse_derived_state(p.derived)
    IN  Profile(p.inputs, append_goal_record(p.goals, event, goal),
                write_derived_state(p.derived,
                    [state EXCEPT !["last_goal_event"] = event, !["last_goal_id"] = goal,
                                  !["current_focus_goal_id"] = Focus(@, event, goal)]))

\* One key is set, or cleared.
UserProfileSetDerivedField(p, key, value) == [p EXCEPT !.derived = Set(@, key, value)]
UserProfileClearDerivedField(p, key) == [p EXCEPT !.derived = Drop(@, {key})]

\* What is looked up, None if there is no line for it.
UserProfileGetDerivedField(p, key) == IF key \in DOMAIN p.derived THEN p.derived[key] ELSE None

\* The newest lines of a section.
append_last_lines(lines, n) ==
    SubSeq(lines, IF Len(lines) > n THEN Len(lines) - n + 1 ELSE 1, Len(lines))

\* What the AI is given of the profile.
SerializeUserProfileHistorySection(p, section, n) == append_last_lines(p[section], n)
SerializeUserProfileDerivedSummary(p) ==
    {<<k, p.derived[k]>> : k \in {x \in DOMAIN p.derived : p.derived[x] # None}}
=============================================================================
