----------------------------- MODULE DeepSearch -----------------------------
(****************************************************************************)
(* A deep search (search/deep-search-session.c, deep-search-execute.c,      *)
(* ai-action.c, command-parsing.c) over the identity graph of the user, run *)
(* by the handler of POST /research/start. The AI is asked again and again: *)
(* every response is added to the memory it is shown, and either asks for a *)
(* command or concludes. A conclusion is judged, and a judge that is not    *)
(* content starts another round with its reason, up to a limit.             *)
(*                                                                          *)
(* A response is the pair of its round and its depth; so is a conclusion.   *)
(* Commands read, and what they print is left out but for whether the AI is *)
(* told anything. An assertion that fails, a call of the AI that fails      *)
(* among them, ends the process; a restart begins with no search.           *)
(****************************************************************************)
EXTENDS IdentityGraph, Search

CONSTANTS
    DS_MAX_EXTERNAL_ROUNDS,
    MAX_IDEPTH,       \* 100 in the code
    COMMAND_COUNT,
    MAX_FAMILY_DEPTH,
    MinDepths,        \* minRounds of the requests
    Percentages, Depths, \* bounds of the model: parameters of commands
    Strengths         \* bound of the model: how strong nodes and links may be

ASSUME SearchAssumption ==
    /\ DS_MAX_EXTERNAL_ROUNDS \in Nat /\ MAX_IDEPTH \in Nat \ {0, 1}
    /\ COMMAND_COUNT = 9 /\ MAX_FAMILY_DEPTH \in Nat
    /\ MinDepths \subseteq Nat \ {0} /\ Strengths \subseteq Nat

VARIABLES
    search,  \* DS_memory and the locals of start_ds_session
    asked    \* every response of this search, for the properties
vars == <<graphVars, search, asked>>

NoRound == <<0, 0>>
NoSearch == [phase |-> "none", minDepth |-> 0, edepth |-> 0, idepth |-> 0, out |-> NoRound,
             reason |-> <<>>, dynamic |-> {}, persistent |-> {}, reasons |-> <<>>,
             told |-> TRUE, idle |-> FALSE]

----------------------------------------------------------------------------
(* Responses and what they are answered with *)

\* parse_exec_response: finished and the conclusion, or a command. given are
\* the parameters that are there and of an allowed value; goals says that the
\* user has goals in the first journey, found that the goal asked about is one.
Finishing == [finished : {TRUE}, conclusion : {"missing", "empty", "text"}]
Parameters ==
    [c \in {1, 2, 3, 5, 6, 7, 8} |->
        CASE c = 1 -> {"percentage", "criteria"}
          [] c = 2 -> {"percentage", "criteria", "node", "context"}
          [] c = 3 -> {"percA", "percW", "node", "context"}
          [] c = 5 -> {"goal_id", "depth"}
          [] c = 6 -> {"goal_id", "method"}
          [] c = 7 -> {"offset"}
          [] c = 8 -> {"profile_section"}]
Lacking(c) == [finished : {FALSE}, command : {c}, given : {Parameters[c] \ {x} : x \in Parameters[c]},
               goals : {TRUE}, found : {TRUE}, percentage : {100}, name : {CHOOSE w \in Words : TRUE}, context : Contexts]
Whole(c) == [finished : {FALSE}, command : {c}, given : {Parameters[c]}]
Asking ==
    [finished : {FALSE}, command : {0, 9, COMMAND_COUNT + 1}]
    \cup [finished : {FALSE}, command : {1}, given : {Parameters[1]}, percentage : Percentages]
    \cup [finished : {FALSE}, command : {2, 3}, given : {Parameters[2] \cup Parameters[3]},
          percentage : Percentages, name : Words, context : Contexts]
    \cup [finished : {FALSE}, command : {4}, refused : BOOLEAN, goals : BOOLEAN]
    \cup [finished : {FALSE}, command : {5, 6}, given : {Parameters[5] \cup Parameters[6]},
          goals : BOOLEAN, found : BOOLEAN]
    \cup Whole(7) \cup Whole(8)
    \cup UNION {Lacking(c) : c \in DOMAIN Parameters}
Responses == Finishing \cup Asking

\* The context whose node in the table has the label, 0 for none.
context_of(c) ==
    LET at == {i \in DOMAIN contexts : nodes[contexts[i]].label = lowerAll(Label(c))}
    IN  IF at = {} THEN 0 ELSE contexts[Min(at)]
target_of(r) == FindNode(nodes, Label(r.name), context_of(r.context))

decompose_command_1_params(r) == Parameters[1] \subseteq r.given
decompose_command_2_params(r) == Parameters[2] \subseteq r.given /\ context_of(r.context) # 0
\* One of the filters is enough.
decompose_command_3_params(r) ==
    /\ {"node", "context"} \subseteq r.given /\ {"percA", "percW"} \cap r.given # {}
    /\ context_of(r.context) # 0
decompose_command_5_params(r) == Parameters[5] \subseteq r.given
decompose_command_6_params(r) == Parameters[6] \subseteq r.given
decompose_command_7_params(r) == Parameters[7] \subseteq r.given
decompose_command_8_params(r) == Parameters[8] \subseteq r.given

\* No per cent of the nodes: the AI is told nothing.
run1(r) ==
    IF ~decompose_command_1_params(r) THEN {"error"}
    ELSE IF FilterTopPercent([i \in DOMAIN nodes |-> 1], r.percentage) = {} THEN {}
    ELSE {"result"}
run2(r) ==
    IF ~decompose_command_2_params(r) THEN {"error"}
    ELSE IF target_of(r) = 0 THEN {"error"}
    ELSE IF nodes[target_of(r)].nbrs = <<>> THEN {"no neighbours"}
    ELSE IF FilterTopPercent([i \in DOMAIN nodes[target_of(r)].nbrs |-> 1], r.percentage) = {} THEN {"error"}
    ELSE {"result"}
run3(r) ==
    IF ~decompose_command_3_params(r) THEN {"error"}
    ELSE IF target_of(r) = 0 THEN {"error"}
    ELSE {"result"}
\* A parameter that is refused is told, and the default is used.
run4(r) ==
    IF ~r.goals THEN {"warning"} ELSE {"result"} \cup (IF r.refused THEN {"error"} ELSE {})
run5(r) ==
    IF ~r.goals THEN {"warning"}
    ELSE IF decompose_command_5_params(r) /\ r.found THEN {"result"} ELSE {"error"}
run6(r) ==
    IF ~r.goals THEN {"warning"}
    ELSE IF decompose_command_6_params(r) /\ r.found THEN {"result"} ELSE {"error"}
run7(r) == IF decompose_command_7_params(r) THEN {"result"} ELSE {"error"}
run8(r) == IF decompose_command_8_params(r) THEN {"result"} ELSE {"error"}
run9(r) == {"result"}

exec_response(r) ==
    IF r.finished THEN (IF r.conclusion = "missing" THEN {"error"} ELSE {})
    ELSE CASE r.command = 1 -> run1(r) [] r.command = 2 -> run2(r) [] r.command = 3 -> run3(r)
           [] r.command = 4 -> run4(r) [] r.command = 5 -> run5(r) [] r.command = 6 -> run6(r)
           [] r.command = 7 -> run7(r) [] r.command = 8 -> run8(r) [] r.command = 9 -> run9(r)
           [] OTHER -> {"error"}

----------------------------------------------------------------------------
(* The session *)

Concludes(r) == r.finished /\ r.conclusion = "text"
AsksNothing(r) ==
    IF r.finished THEN r.conclusion = "empty" 
    ELSE r.command = 1 /\ Parameters[1] \subseteq r.given /\ r.percentage <= 0

try_terminate(s, r) ==
    IF ~Concludes(r) THEN s
    ELSE IF s.idepth < s.minDepth THEN [s EXCEPT !.told = TRUE]
    ELSE [s EXCEPT !.out = <<s.edepth, s.idepth>>, !.phase = "judge"]

Fall == Ends /\ search' = NoSearch /\ asked' = {}

handle_post_research_start(min) ==
    /\ up /\ saving = "no"
    /\ search.phase = "none"
    /\ search' = [NoSearch EXCEPT !.phase = "think", !.minDepth = min, !.edepth = 2, !.idepth = 1]
    /\ asked' = {}
    /\ UNCHANGED graphVars

\* The depth is raised before the AI is asked: the first response has depth 2.
\* (fault: it is not raised)
deeper_Same(i) == i
deeper(i) == i + 1

think(r) ==
    LET i == deeper(search.idepth)
        heard == [search EXCEPT !.idepth = i, !.dynamic = @ \cup {<<search.edepth, i>>},
                                !.told = exec_response(r) # {}, !.idle = AsksNothing(r)]
        next == try_terminate(heard, r)
    IN  /\ up /\ search.phase = "think"
        /\ IF next.phase = "think" /\ i >= MAX_IDEPTH
           THEN Fall
           ELSE /\ search' = next
                /\ asked' = asked \cup {<<search.edepth, i>>}
                /\ UNCHANGED graphVars

\* The feedback quotes the reason and what was remembered of the round.
\* (fault: the memory of the round is emptied first)
write_feedback_Emptied(s) ==
    [s EXCEPT !.reasons = @ \o s.reason, !.dynamic = {}]
write_feedback(s) ==
    [s EXCEPT !.reasons = @ \o s.reason, !.persistent = @ \cup s.dynamic, !.dynamic = {}]

\* parse_judge_result appends to what EmptyString left.
reason_of(s, given) == IF given THEN <<s.edepth>> ELSE <<>>

next_round(s) == [s EXCEPT !.edepth = @ + 1, !.idepth = 1, !.phase = "think", !.told = TRUE]

\* A judge that is not content has to say why.
judge_result(pass, given) ==
    LET judged == [search EXCEPT !.reason = reason_of(search, given)]
    IN  /\ up /\ search.phase = "judge"
        /\ IF ~pass /\ ~given THEN Fall
           ELSE /\ search' = IF pass \/ search.edepth >= DS_MAX_EXTERNAL_ROUNDS
                             THEN [judged EXCEPT !.phase = "done"]
                             ELSE next_round(write_feedback(judged))
                /\ UNCHANGED <<graphVars, asked>>

\* The handler answers with the conclusion.
answer ==
    /\ up /\ search.phase = "done"
    /\ search' = NoSearch
    /\ asked' = {}
    /\ UNCHANGED graphVars

----------------------------------------------------------------------------
Init ==
    /\ InitGraph
    /\ search = NoSearch
    /\ asked = {}

\* The thread of the user runs one handler at a time.
OfGraph ==
    /\ search.phase = "none"
    /\ GraphHandler \/ GraphStep \/ load_user_from_dir
    /\ UNCHANGED <<search, asked>>
Searching ==
    \/ \E r \in Responses : think(r)
    \/ \E pass, given \in BOOLEAN : judge_result(pass, given)
    \/ answer
Crash == up /\ Fall
Next ==
    \/ OfGraph
    \/ \E min \in MinDepths : handle_post_research_start(min)
    \/ Searching
    \/ Crash
Spec == Init /\ [][Next]_vars

\* A call of the AI returns, and the thread goes on.
FairSpec == Spec /\ WF_vars(Searching)

----------------------------------------------------------------------------
\* What the AI is shown before each response holds every response it has
\* given in this search, those of the rounds that failed among them
\* (write_feedback moves them before it empties the memory of the round).
NothingForgotten == up => search.dynamic \cup search.persistent = asked

\* Every round that failed is explained by its own reason, once and in order
\* (the reason is emptied before each judge, deep-search-session.c:76).
ReasonsAreOwn ==
    /\ search.reasons = [k \in 1..Len(search.reasons) |-> k + 1]
    /\ search.phase = "think" => Len(search.reasons) = search.edepth - 2
    /\ \A k \in DOMAIN search.reasons : \E i \in 2..MAX_IDEPTH : <<search.reasons[k], i>> \in search.persistent

\* What a search answers with is the last conclusion of the AI, of the last
\* round, and as deep as was asked for (try_terminate, start_ds_session).
ConclusionIsLast ==
    search.phase = "done" =>
        /\ search.out = <<search.edepth, search.idepth>>
        /\ search.idepth >= search.minDepth
        /\ \A a \in asked : a[1] < search.edepth \/ (a[1] = search.edepth /\ a[2] <= search.idepth)

\* The AI is told something after every response that does not end its round,
\* but when it asks for none of the nodes or concludes with no text: then it
\* is asked again with nothing new (exec_response, run1 to run9).
Answered ==
    search.phase = "think" /\ ~search.idle => search.told

\* What the commands print of the graph can be asked about: the label of a
\* node and that of its context lead run2 and run3 to a node of that label,
\* also after it was cut, lowered, saved and loaded (AddNodeEx, FindNode),
\* unless /graph/load has dropped the table of contexts.
ShownNamesAreFound ==
    up =>
    \/ \A i \in DOMAIN contexts : contexts[i] = 1
    \/ \A i \in DOMAIN nodes : nodes[i].parent # 0 =>
         LET c == context_of(nodes[nodes[i].parent].label.word)
             at == IF c = 0 THEN 0 ELSE FindNode(nodes, nodes[i].label, c)
         IN  at # 0 /\ nodes[at].label = nodes[i].label

\* A search that is about to begin: the selections are functions of the graph.
Beginning == search.phase = "think" /\ search.edepth = 2 /\ search.idepth = 1

\* The top per cent is what fewer than that many are stronger than, whatever
\* the strengths are (the quickselect of FilterTopPercent).
TopIsTop ==
    Beginning =>
    \A values \in [DOMAIN nodes -> Strengths], p \in Percentages :
        LET top == (Len(nodes) * clamp_percent(p) + 99) \div 100
        IN  FilterTopPercent(values, p) =
              {i \in DOMAIN nodes : Cardinality({j \in DOMAIN nodes : values[j] > values[i]}) < top}

Near(strong, root, depth) ==
    LET grow[d \in Nat] ==
          IF d = 0 THEN {root}
          ELSE grow[d - 1] \cup UNION {{nodes[n].nbrs[k] : k \in strong[n]} : n \in grow[d - 1]}
    IN  grow[depth - 1]

\* The family of a node is all that fewer than depth strong links in a row lead
\* to: not entering the node again leaves nothing out (recursive_step).
FamilyIsNear ==
    Beginning =>
    \A values \in [DOMAIN nodes -> Strengths], p \in Percentages \ {0}, depth \in Depths, root \in DOMAIN nodes :
        LET nbrs == [n \in DOMAIN nodes |-> nodes[n].nbrs]
            act == [n \in DOMAIN nodes |-> [k \in DOMAIN nbrs[n] |-> values[nbrs[n][k]]]]
            wgt == [n \in DOMAIN nodes |-> [k \in DOMAIN nbrs[n] |-> 1]]
            strong == [n \in DOMAIN nodes |-> FilterTopPercent(act[n], p)]
            near == Near(strong, root, IF depth > MAX_FAMILY_DEPTH THEN MAX_FAMILY_DEPTH ELSE depth)
        IN  ComputeNodeFamily(nbrs, act, wgt, p, 100, root, depth, MAX_FAMILY_DEPTH) =
              IF depth > 1 /\ nbrs[root] = <<>> THEN {} ELSE near

\* A search ends with an answer, however the judge decides and whatever the
\* AI responds, or with the process (the limits of rounds and of depth).
SearchEnds == (search.phase = "think") ~> (search.phase \in {"done", "none"})

\* The commands tell the AI what there is in the graph: every response gets an
\* answer, what the commands select is what they say, and what they show can be
\* asked about (search.c:56, deep-search-execute.c, ai-action.c).
CommandsRight == Answered /\ ShownNamesAreFound /\ TopIsTop /\ FamilyIsNear

\* Through all rounds of a search nothing it was told is lost, every failed round
\* keeps its own reason, and what it concludes is the last conclusion, as deep as
\* asked for (deep-search-session.c:69-208).
SearchHonest == NothingForgotten /\ ReasonsAreOwn /\ ConclusionIsLast

=============================================================================
