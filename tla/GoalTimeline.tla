------------------------------ MODULE GoalTimeline ------------------------------
(****************************************************************************)
(* The goals of one journey of a user: a tree whose leaves form a timeline  *)
(* and are worked in order, decomposed by AI calls when a leaf that is next *)
(* is still too big (ne/goal/goal.c and the routes of                       *)
(* srv/http-server/goal-handlers.c).                                        *)
(*                                                                          *)
(* A goal is its localIndex. Of its dates only their presence counts: open  *)
(* (neither), running (started), done (ended; whatever ends a goal also     *)
(* starts it). Times are minutes; pauses are part of them.                  *)
(*                                                                          *)
(* Each port runs one handler at a time: the port of the client server, and *)
(* the forwarded routes of the central server. A handler is split at its AI *)
(* calls. A client sends what its screen allows; until the request is       *)
(* served, other clients may change what it was about.                      *)
(****************************************************************************)
EXTENDS Naturals, Sequences, FiniteSets, SequencesExt

CONSTANTS
    Client,       \* devices with the app open
    Port,         \* the ports requests come in by
    PortOf,       \* the port each device uses
    NoClient,     \* who waits for a background request
    RootMinutes,  \* estimates an AI call may give a new goal
    LeafMinutes,  \* estimates it may give a reshaped leaf
    Splits,       \* answers to a decomposition: <<minutes, is a journal>> of each child
    MayReopen,    \* whether a finished journal step is opened again and left
    MaxGoals,     \* bound of the model: goals
    MaxRoots,     \* bound of the model: trees
    MaxRetry      \* bound of the model: extensions of a leaf

NoGoal == 0
GOAL_MIN == 16    \* GOAL_MIN_SECONDS

ASSUME ClientsAssumption == PortOf \in [Client -> Port] /\ NoClient \notin Client
ASSUME SplitsAssumption ==
    /\ Splits \subseteq Seq((Nat \ {0}) \X BOOLEAN)
    /\ \A s \in Splits : Len(s) \in 2 .. 9
ASSUME GoalBounds ==
    /\ RootMinutes \subseteq Nat \ {0} /\ LeafMinutes \subseteq Nat \ {0}
    /\ MayReopen \in BOOLEAN /\ MaxGoals \in Nat /\ MaxRoots \in Nat /\ MaxRetry \in Nat

VARIABLES
    up,     \* no assertion has ended the process
    goal,   \* the goals of the journey, by localIndex
    sent,   \* the request each client waits for, not yet served
    work    \* the handler each port is in

vars == <<up, goal, sent, work>>

Goals == DOMAIN goal
Kids(g) == goal[g].kids
Parent(g) == goal[g].parent
Open(g) == goal[g].status = "open"
Done(g) == goal[g].status = "done"

NewGoal(parent, prev, minutes, journal) ==
    [parent |-> parent, prev |-> prev, kids |-> <<>>, minutes |-> minutes,
     journal |-> journal, status |-> "open", attached |-> FALSE, retry |-> 0,
     dropped |-> FALSE]

Ops == {"none", "create", "start", "end", "extend", "reshape", "cancel", "drop", "session"}
NoRequest == [op |-> "none", goal |-> NoGoal]
NoWork == [op |-> "none", who |-> NoClient, at |-> NoGoal, todo |-> {},
           thinking |-> FALSE, cap |-> 0]

\* The values in a journey of n goals.
GoalRec(n) ==
    [parent : 0 .. n, prev : 0 .. n, kids : Seq(1 .. n), minutes : Nat, journal : BOOLEAN,
     status : {"open", "running", "done"}, attached : BOOLEAN, retry : 0 .. MaxRetry,
     dropped : BOOLEAN]
Requests(n) == [op : Ops, goal : 0 .. n]
Handlers(n) ==
    [op : Ops, who : Client \cup {NoClient}, at : 0 .. n, todo : SUBSET (1 .. n),
     thinking : BOOLEAN, cap : Nat]

TypeOK ==
    /\ up \in BOOLEAN
    /\ Len(goal) <= MaxGoals
    /\ goal \in Seq(GoalRec(Len(goal)))
    /\ sent \in [Client -> Requests(Len(goal))]
    /\ work \in [Port -> Handlers(Len(goal))]

----------------------------------------------------------------------------
\* The tree and its timeline

\* Where a loop ends that goes from goal to goal by next until there is none.
Follow(next, g) ==
    LET end[h \in DOMAIN next] == IF next[h] = NoGoal THEN h ELSE end[next[h]]
    IN  end[g]

last_leaf(g) == Follow([h \in Goals |-> IF Kids(h) = <<>> THEN NoGoal ELSE Last(Kids(h))], g)

\* The leaf before a goal: the last one of the previous sibling, of the goal
\* or of the nearest ancestor that has one.
previous_timeline_leaf(g) ==
    LET from == Follow([h \in Goals |-> IF goal[h].prev # NoGoal THEN NoGoal ELSE Parent(h)], g)
    IN  IF goal[from].prev = NoGoal THEN NoGoal ELSE last_leaf(goal[from].prev)

\* The leaves before a goal, as can_start_leaf goes back through them.
Earlier(g) ==
    LET back[i \in 0 .. Len(goal)] ==
            IF i = 0 THEN g
            ELSE IF back[i - 1] = NoGoal THEN NoGoal ELSE previous_timeline_leaf(back[i - 1])
    IN  {back[i] : i \in 1 .. Len(goal)} \ {NoGoal}

\* the goal and its ancestors
Line(g) ==
    LET up_[h \in Goals] == IF Parent(h) = NoGoal THEN {h} ELSE {h} \cup up_[Parent(h)]
    IN  up_[g]
CalcGoalRoot(g) == Follow([h \in Goals |-> Parent(h)], g)
Roots == {g \in Goals : Parent(g) = NoGoal}

IsLeaf(g) == Kids(g) = <<>>

\* The first leaf below g that has not been started, as the tree is now.
\* (fault: a goal with children counts as a leaf)
FirstOpen_Itself(g) ==
    LET first[h \in Goals] ==
            LET found == {i \in DOMAIN Kids(h) : first[Kids(h)[i]] # NoGoal}
            IN  IF Open(h) THEN h
                ELSE IF found = {} THEN NoGoal ELSE first[Kids(h)[Min(found)]]
    IN  first[g]
FirstOpen(g) ==
    LET first[h \in Goals] ==
            LET found == {i \in DOMAIN Kids(h) : first[Kids(h)[i]] # NoGoal}
            IN  IF IsLeaf(h) /\ Open(h) THEN h
                ELSE IF found = {} THEN NoGoal ELSE first[Kids(h)[Min(found)]]
    IN  first[g]
TooBig(g) == g # NoGoal /\ goal[g].minutes >= 2 * GOAL_MIN

\* (fault: any open leaf can be started)
can_start_leaf_Any(g) == g # NoGoal /\ Open(g) /\ Kids(g) = <<>>
can_start_leaf(g) ==
    g # NoGoal /\ Open(g) /\ Kids(g) = <<>> /\ \A l \in Earlier(g) : Done(l)

\* The goals after some of them have been ended: on the way up from g every
\* parent whose children are all ended ends, too.
\* (fault: only the parent of g is looked at)
refresh_goal_completion_DirectParent(done, g) ==
    done \cup {h \in {Parent(g)} \ {NoGoal} : ToSet(Kids(h)) \subseteq done}
refresh_goal_completion_from_children_upwards(done, g) ==
    LET finished[h \in Goals] ==
            \/ h \in done
            \/ /\ h \in Line(g) /\ Kids(h) # <<>>
               /\ \A k \in ToSet(Kids(h)) : finished[k]
    IN  {h \in Goals : finished[h]}

WithDone(goals, done) ==
    [h \in DOMAIN goals |-> IF h \in done THEN [goals[h] EXCEPT !.status = "done"] ELSE goals[h]]

----------------------------------------------------------------------------
\* Requests

Waiting(c) == sent[c] # NoRequest \/ \E p \in Port : work[p].who = c

\* What the app offers: to create a goal, to start one that is open, to end or
\* to stop the running leaf, to extend or reshape it if it is a timer, to drop a
\* tree that is not finished. A journal leaf, in whatever state, opens in an
\* editor, and leaving that is a cancel.
Offered(g) ==
    {op \in {"start", "end", "extend", "reshape", "cancel", "drop"} :
        \/ op = "start" /\ Open(g)
        \/ op \in {"end", "cancel"} /\ goal[g].status = "running"
        \/ op \in {"extend", "reshape"} /\ goal[g].status = "running" /\ ~goal[g].journal
        \/ op = "cancel" /\ goal[g].journal /\ Kids(g) = <<>> /\ (Done(g) => MayReopen)
        \/ op = "drop" /\ Parent(g) = NoGoal /\ ~Done(g)}

Ask(c) ==
    /\ up /\ ~Waiting(c)
    /\ \/ /\ Cardinality(Roots) < MaxRoots /\ Len(goal) < MaxGoals
          /\ sent' = [sent EXCEPT ![c] = [op |-> "create", goal |-> NoGoal]]
       \/ \E g \in Goals : \E op \in Offered(g) :
             /\ op = "extend" => goal[g].retry < MaxRetry
             /\ sent' = [sent EXCEPT ![c] = [op |-> op, goal |-> g]]
    /\ UNCHANGED <<up, goal, work>>

\* The port of c takes its request.
Take(c, op) ==
    /\ up /\ sent[c].op = op /\ work[PortOf[c]] = NoWork
    /\ sent' = [sent EXCEPT ![c] = NoRequest]

Work(p, w) == work' = [work EXCEPT ![p] = w]

----------------------------------------------------------------------------
\* Decomposition

Total(split) ==
    LET sum[i \in 0 .. Len(split)] == IF i = 0 THEN 0 ELSE sum[i - 1] + split[i][1]
    IN  sum[Len(split)]

\* The hard cap of a goal of at most two hours: 1 + HARD_K * T, with T = 0.2.
HardCap(minutes) == (minutes * 14) \div 10

\* The handler of p asks for a decomposition of f; what the children may take
\* is settled by the estimate f has now.
Thinking(w, f) == [w EXCEPT !.thinking = TRUE, !.at = f, !.cap = HardCap(goal[f].minutes)]

\* goal f gets the children of split, chained by prev, and their total.
WithChildren(f, split) ==
    LET n == Len(goal)
    IN  [h \in 1 .. n + Len(split) |->
            IF h = f THEN [goal[f] EXCEPT !.kids = [i \in DOMAIN split |-> n + i],
                                          !.minutes = Total(split)]
            ELSE IF h <= n THEN goal[h]
            ELSE NewGoal(f, IF h = n + 1 THEN NoGoal ELSE h - 1, split[h - n][1], split[h - n][2])]

\* The AI call of DecomposeGoal returns and the goal gets its children,
\* whatever happened to it meanwhile. CreateUserGoal goes on with the first
\* child, unless the goal has become shorter than 20 minutes; a search goes on
\* below the goal.
DecomposeGoal(p) ==
    LET w == work[p]
        f == w.at
    IN  /\ up /\ w.thinking /\ w.op # "reshape"
        /\ \E split \in Splits :
              /\ Total(split) <= w.cap
              /\ Len(goal) + Len(split) <= MaxGoals
              /\ goal' = WithChildren(f, split)
              /\ IF w.op # "create" THEN Work(p, [w EXCEPT !.thinking = FALSE, !.cap = 0, !.todo = @ \cup {f}])
                 ELSE IF Total(split) < 20 THEN Work(p, NoWork)
                 ELSE Work(p, [w EXCEPT !.thinking = FALSE, !.cap = 0, !.at = Len(goal) + 1])
        /\ UNCHANGED <<up, sent>>

\* CreateUserGoal: the goal its AI calls came up with, then
\* ComputePartialDecomposition from its root.
handle_post_goal_create(c) ==
    /\ Take(c, "create") /\ Len(goal) < MaxGoals
    /\ \E m \in RootMinutes : goal' = Append(goal, NewGoal(NoGoal, NoGoal, m, FALSE))
    /\ Work(PortOf[c], [NoWork EXCEPT !.op = "create", !.who = c, !.at = Len(goal) + 1])
    /\ UNCHANGED up

\* One turn of its loop before the AI call; a goal that has children by now is
\* not decomposed again.
ComputePartialDecomposition(p) ==
    LET w == work[p]
    IN  /\ up /\ w.op = "create" /\ ~w.thinking
        /\ \/ goal[w.at].minutes < 30 /\ Work(p, NoWork)
           \/ /\ goal[w.at].minutes >= 30
              /\ Work(p, IF Kids(w.at) = <<>> THEN Thinking(w, w.at)
                                              ELSE [w EXCEPT !.at = Head(Kids(w.at))])
        /\ UNCHANGED <<up, goal, sent>>

----------------------------------------------------------------------------
\* Sessions: the next leaf to work on

\* GetSessionGoals looks into every tree, /goal/start into one goal.
handle_get_session_goals(p) ==
    /\ up /\ work[p] = NoWork /\ Roots # {}
    /\ Work(p, [NoWork EXCEPT !.op = "session", !.todo = Roots])
    /\ UNCHANGED <<up, goal, sent>>

handle_post_goal_start(c) ==
    /\ Take(c, "start")
    /\ Work(PortOf[c], [NoWork EXCEPT !.op = "start", !.who = c, !.todo = {sent[c].goal}])
    /\ UNCHANGED <<up, goal>>

\* first_unstarted_leaf: while the first open leaf is too big, be it a journal
\* leaf, it is decomposed.
first_unstarted_leaf(p) ==
    LET w == work[p]
    IN  /\ up /\ w.op \in {"start", "session"} /\ ~w.thinking
        /\ \E g \in w.todo :
              /\ TooBig(FirstOpen(g))
              /\ Work(p, Thinking([w EXCEPT !.todo = @ \ {g}], FirstOpen(g)))
        /\ UNCHANGED <<up, goal, sent>>

\* The answer. A leaf that may start is started; a journal leaf gets a draft
\* entry then, if one can be created.
StartGoalDeepFromGoal(p) ==
    LET w == work[p]
    IN  /\ up /\ w.op \in {"start", "session"} /\ ~w.thinking
        /\ \A g \in w.todo : ~TooBig(FirstOpen(g))
        /\ \/ /\ w.op = "start"
              /\ \E g \in w.todo : \E draft \in BOOLEAN :
                    LET l == FirstOpen(g)
                    IN  /\ can_start_leaf(l)
                        /\ draft => goal[l].journal
                        /\ goal' = [goal EXCEPT ![l].status = "running",
                                                ![l].attached = @ \/ draft]
           \/ /\ \/ w.op = "session"
                 \/ \A g \in w.todo : ~can_start_leaf(FirstOpen(g))
              /\ UNCHANGED goal
        /\ Work(p, NoWork)
        /\ UNCHANGED <<up, sent>>

----------------------------------------------------------------------------
\* What happens to a goal that was started

\* EndGoalFromGoal asserts that the children and the earlier leaves are ended:
\* if they are not, the process exits.
Endable(g) == (\A k \in ToSet(Kids(g)) : Done(k)) /\ (\A l \in Earlier(g) : Done(l))

\* (fault: a journal leaf is ended without its entry)
EndGoal_NoEntry(g) ==
    WithDone(goal, refresh_goal_completion_from_children_upwards({h \in Goals : Done(h)} \cup {g}, g))
EndGoal(g) ==
    LET ended == refresh_goal_completion_from_children_upwards({h \in Goals : Done(h)} \cup {g}, g)
    IN  WithDone([goal EXCEPT ![g].attached = @ \/ goal[g].journal], ended)

\* Only a running goal; the app names the entry of a journal leaf.
handle_post_goal_end(c) ==
    LET g == sent[c].goal
    IN  /\ Take(c, "end")
        /\ \/ goal[g].status # "running" /\ UNCHANGED <<up, goal>>
           \/ goal[g].status = "running" /\ Endable(g) /\ goal' = EndGoal(g) /\ UNCHANGED up
           \/ goal[g].status = "running" /\ ~Endable(g) /\ up' = FALSE /\ UNCHANGED goal
        /\ UNCHANGED work

handle_post_goal_extend(c) ==
    LET g     == sent[c].goal
        extra == IF 5 + goal[g].retry > 10 THEN 10 ELSE 5 + goal[g].retry
    IN  /\ Take(c, "extend")
        /\ IF Kids(g) = <<>> /\ ~goal[g].journal /\ goal[g].retry < MaxRetry
           THEN goal' = [goal EXCEPT ![g].minutes = @ + extra, ![g].retry = @ + 1]
           ELSE UNCHANGED goal
        /\ UNCHANGED <<up, work>>

handle_post_goal_reshape(c) ==
    LET g == sent[c].goal
    IN  /\ Take(c, "reshape")
        /\ IF Kids(g) = <<>>
           THEN Work(PortOf[c], [NoWork EXCEPT !.op = "reshape", !.who = c, !.at = g,
                                               !.thinking = TRUE])
           ELSE UNCHANGED work
        /\ UNCHANGED <<up, goal>>

\* The AI call returns, with a new estimate or none: the leaf starts afresh.
\* (fault: the leaves next to it do, too)
reshape_goal_leaf_Branch(p) ==
    LET w == work[p]
    IN  /\ up /\ w.op = "reshape"
        /\ \E m \in LeafMinutes \cup {goal[w.at].minutes} :
              goal' = [h \in Goals |->
                          IF IsLeaf(h) /\ Parent(h) = Parent(w.at)
                          THEN [goal[h] EXCEPT !.status = "open", !.retry = 0,
                                               !.minutes = IF h = w.at THEN m ELSE @]
                          ELSE goal[h]]
        /\ Work(p, NoWork)
        /\ UNCHANGED <<up, sent>>

reshape_goal_leaf(p) ==
    LET w == work[p]
    IN  /\ up /\ w.op = "reshape"
        /\ \E m \in LeafMinutes \cup {goal[w.at].minutes} :
              goal' = [goal EXCEPT ![w.at].status = "open", ![w.at].retry = 0,
                                   ![w.at].minutes = m]
        /\ Work(p, NoWork)
        /\ UNCHANGED <<up, sent>>

\* Whatever the goal is by now.
handle_post_goal_cancel(c) ==
    LET g == sent[c].goal
    IN  /\ Take(c, "cancel")
        /\ goal' = [goal EXCEPT ![g].status = "open", ![g].attached = FALSE]
        /\ UNCHANGED <<up, work>>

\* Every goal of the tree that is not ended is.
handle_post_goal_drop(c) ==
    LET tree == {h \in Goals : CalcGoalRoot(h) = CalcGoalRoot(sent[c].goal) /\ ~Done(h)}
    IN  /\ Take(c, "drop")
        /\ goal' = [h \in Goals |-> IF h \in tree THEN [goal[h] EXCEPT !.status = "done",
                                                                       !.dropped = TRUE]
                                    ELSE goal[h]]
        /\ UNCHANGED <<up, work>>

----------------------------------------------------------------------------

Init ==
    /\ up = TRUE /\ goal = <<>>
    /\ sent = [c \in Client |-> NoRequest]
    /\ work = [p \in Port |-> NoWork]

Next ==
    \/ \E c \in Client :
          \/ Ask(c)
          \/ handle_post_goal_create(c) \/ handle_post_goal_start(c) \/ handle_post_goal_end(c)
          \/ handle_post_goal_extend(c) \/ handle_post_goal_reshape(c)
          \/ handle_post_goal_cancel(c) \/ handle_post_goal_drop(c)
    \/ \E p \in Port :
          \/ handle_get_session_goals(p) \/ first_unstarted_leaf(p) \/ StartGoalDeepFromGoal(p)
          \/ ComputePartialDecomposition(p) \/ DecomposeGoal(p) \/ reshape_goal_leaf(p)

Spec == Init /\ [][Next]_vars

----------------------------------------------------------------------------
\* Properties

\* The timeline is worked in order (can_start_leaf): whatever has been started
\* or ended, everything before it is ended.
InSequence ==
    \A g \in Goals : IsLeaf(g) /\ ~Open(g) => \A l \in Earlier(g) : Done(l)

\* A goal with children is ended exactly when all of them are, over ends,
\* drops, decompositions and leaves that start afresh.
ParentsFollowChildren ==
    \A g \in Goals : ~IsLeaf(g) => (Done(g) <=> \A k \in ToSet(Kids(g)) : Done(k))

\* The user is never stuck: an unfinished tree has a leaf that is being worked
\* on, or its first open leaf can be started or decomposed.
AlwaysSomethingNext ==
    \A r \in Roots : ~Done(r) =>
        \/ \E l \in Goals : CalcGoalRoot(l) = r /\ goal[l].status = "running"
        \/ can_start_leaf(FirstOpen(r))

\* "Cannot end goal before previous timeline goals are finished." (goal.c:2120)
\* and the assertion about subgoals before it: as long as nobody opens a finished
\* journal step again, no request reaches them.
AssertionsHold == up

\* "Journal leaves cannot be completed without the journal entry they produced"
\* (goal-handlers.c:436).
JournalDoneHasEntry ==
    \A g \in Goals : IsLeaf(g) /\ goal[g].journal /\ Done(g) /\ ~goal[g].dropped
                        => goal[g].attached

\* What is finished stays finished, with whatever is asked for at the same time.
FinishedStaysFinished ==
    [][\A g \in Goals : Done(g) => goal'[g].status = "done"]_vars

\* "the domain systems are not thread-safe, so handler execution is serialized"
\* (central-server.c:37): every goal is a child of the goal it was made for, so
\* that no step of the plan drops out of the timeline.
EveryGoalHasItsPlace ==
    \A g \in Goals : Parent(g) # NoGoal => g \in ToSet(Kids(Parent(g)))

\* The tree of goals holds together over decompositions, ends and drops: every
\* goal has its place in it, and a goal with children is ended exactly when all
\* of them are (goal.c:380, :1881).
PlanHolds == TypeOK /\ EveryGoalHasItsPlace /\ ParentsFollowChildren

\* The timeline is worked in order, and so no request reaches an assertion that
\* ends the process (goal.c:1998, :2120).
WorkedInOrder == InSequence /\ AssertionsHold

=============================================================================
