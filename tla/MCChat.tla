------------------------------- MODULE MCChat -------------------------------
(* Two sessions, a table of one, two attempts. *)
EXTENDS Chat

Action(type, key, value, thing, ask) ==
    [type |-> type, key |-> key, value |-> value, thing |-> thing, ask |-> ask]
Do(type) == Action(type, None, None, None, FALSE)
OfGoal(type, thing) == Action(type, None, None, thing, FALSE)
Set(key, value, ask) == Action("set_profile", key, value, None, ask)

Says(talk, dismiss, title) == [talk |-> talk, dismiss |-> dismiss, title |-> title]
Chatter == Says(FALSE, FALSE, FALSE)
MCSaid == [goals |-> {Says(TRUE, FALSE, FALSE)}, profile |-> {Chatter}, streams |-> {Chatter},
           reminding |-> {Chatter, Says(FALSE, TRUE, FALSE), Says(TRUE, FALSE, TRUE)}]

MCAnswers ==
    [goals |-> {<<>>, <<Do("create_goal")>>,
                <<Do("update_graph"), OfGoal("set_goal_priority", "g2")>>,
                <<OfGoal("delay_goal", "g1"), OfGoal("drop_goal", "g1")>>,
                <<OfGoal("repair_branch", "g1"), OfGoal("set_goal_priority", "g1")>>,
                <<Do("set_private"), Do("find_match")>>},
     profile |-> {<<Do("reply")>>, <<Set("age", "v1", FALSE)>>, <<Set("age", "v2", FALSE)>>,
                  <<Set("focus", "v1", TRUE)>>,
                  <<Action("clear_profile", "age", None, None, FALSE),
                    Action("set_reminder", None, "v1", None, FALSE)>>,
                  <<Set("focus", "v1", FALSE), Set("secret", "v1", FALSE)>>},
     reminding |-> {<<>>, Garbage},
     streams |-> {<<>>, <<Do("call_deep_search")>>}]

MCChats == [goals |-> {"page"}, profile |-> {"page"}, reminding |-> Sessions, streams |-> Sessions]
MCTurns == [goals |-> 2, profile |-> 2, reminding |-> 2, streams |-> 1]
MCReplies == [goals |-> 0, profile |-> 2, reminding |-> 0, streams |-> 0]
MCTabs == [goals |-> 0, profile |-> 0, reminding |-> 0, streams |-> 1]
=============================================================================
