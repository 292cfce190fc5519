-------------------------- MODULE DeepSearchProofs --------------------------
(****************************************************************************)
(* What DeepSearch promises of a search holds for every limit of rounds and *)
(* of depth, every graph and everything the AI and the judge may say: the   *)
(* inductive invariant ties the two memories to what was asked, the reasons *)
(* to the rounds that failed and the conclusion to the last response.       *)
(* The graph it searches keeps its shape in every behaviour too, for any    *)
(* contexts, words and answers: what a message, a save and a load make of   *)
(* it are folds, whose turns are numbered by lemmas of this module.         *)
(****************************************************************************)
EXTENDS DeepSearch, SequenceTheorems, FiniteSetTheorems, WellFoundedInduction, TLAPS

Rounds == Nat \X Nat

Searches ==
    [phase : {"none", "think", "judge", "done"}, minDepth : Nat, edepth : Nat, idepth : Nat,
     out : Rounds, reason : Seq(Nat), dynamic : SUBSET Rounds, persistent : SUBSET Rounds,
     reasons : Seq(Nat), told : BOOLEAN, idle : BOOLEAN]

Searched == search.dynamic \cup search.persistent

\* The rounds are counted from two, the depths of responses too.
Counted ==
    /\ search.phase # "none" => search.edepth >= 2 /\ search.idepth >= 1
    /\ search.phase \in {"judge", "done"} => search.idepth \in 2 .. MAX_IDEPTH
    /\ search.phase = "think" => search.idepth < MAX_IDEPTH

\* The reasons are those of the rounds before this one; each is still remembered.
ReasonsKept ==
    /\ Len(search.reasons) = (IF search.phase = "none" THEN 0 ELSE search.edepth - 2)
    /\ \A k \in 1 .. Len(search.reasons) : search.reasons[k] = k + 1
    /\ \A k \in 1 .. Len(search.reasons) :
          \E i \in 2 .. MAX_IDEPTH : <<search.reasons[k], i>> \in search.persistent

\* What is judged is the last response, and deep enough.
Judged ==
    search.phase \in {"judge", "done"} =>
        /\ search.out = <<search.edepth, search.idepth>>
        /\ search.out \in search.dynamic
        /\ search.idepth >= search.minDepth

NoneLater ==
    \A a \in asked : a[1] < search.edepth \/ (a[1] = search.edepth /\ a[2] <= search.idepth)

IInv ==
    /\ search \in Searches /\ asked = Searched
    /\ Counted /\ ReasonsKept /\ Judged /\ NoneLater

----------------------------------------------------------------------------
\* What the assignments of a step make of the record of a search.
LEMMA Heard ==
    ASSUME NEW s \in Searches, NEW i \in Nat, NEW S \in SUBSET Rounds,
           NEW b \in BOOLEAN, NEW c \in BOOLEAN
    PROVE  [s EXCEPT !.idepth = i, !.dynamic = S, !.told = b, !.idle = c] \in Searches
  BY DEF Searches

LEMMA Concluded ==
    ASSUME NEW s \in Searches, NEW o \in Rounds
    PROVE  [s EXCEPT !.out = o, !.phase = "judge"] \in Searches
  BY DEF Searches

LEMMA FedBack ==
    ASSUME NEW s \in Searches, NEW q \in Seq(Nat), NEW S \in SUBSET Rounds
    PROVE  [s EXCEPT !.reasons = q, !.persistent = S, !.dynamic = {}] \in Searches
  BY DEF Searches

LEMMA NextRound ==
    ASSUME NEW s \in Searches, NEW e \in Nat
    PROVE  [s EXCEPT !.edepth = e, !.idepth = 1, !.phase = "think", !.told = TRUE] \in Searches
  BY DEF Searches

LEMMA Begun ==
    ASSUME NEW m \in Nat,
           NEW h, h = [NoSearch EXCEPT !.phase = "think", !.minDepth = m, !.edepth = 2, !.idepth = 1]
    PROVE  /\ h \in Searches /\ h.phase = "think" /\ h.edepth = 2 /\ h.idepth = 1
           /\ h.reasons = <<>> /\ h.dynamic = {} /\ h.persistent = {}
<1>1. NoSearch \in Searches
  BY DEF NoSearch, NoRound, Searches, Rounds
<1>2. NoSearch.reasons = <<>> /\ NoSearch.dynamic = {} /\ NoSearch.persistent = {}
  BY DEF NoSearch
<1>3. h \in Searches
  BY <1>1 DEF Searches
<1>4. h.phase = "think" /\ h.edepth = 2 /\ h.idepth = 1
  BY <1>1 DEF Searches
<1>5. h.reasons = NoSearch.reasons /\ h.dynamic = NoSearch.dynamic
      /\ h.persistent = NoSearch.persistent
  BY <1>1 DEF Searches
<1>. QED
  BY <1>2, <1>3, <1>4, <1>5

----------------------------------------------------------------------------
\* No search is going on: at the start, after an answer, and when the process ends.
LEMMA NoSearchHolds ==
    ASSUME search' = NoSearch, asked' = {}
    PROVE  IInv'
<1>1. NoSearch \in Searches
  BY DEF NoSearch, NoRound, Searches, Rounds
<1>2. /\ NoSearch.phase = "none" /\ NoSearch.reasons = <<>>
      /\ NoSearch.dynamic = {} /\ NoSearch.persistent = {}
  BY DEF NoSearch
<1>. QED
  BY <1>1, <1>2 DEF IInv, Searched, Counted, ReasonsKept, Judged, NoneLater

\* A request starts the first round.
LEMMA StartHolds ==
    ASSUME NEW min \in MinDepths, handle_post_research_start(min)
    PROVE  IInv'
<1>. DEFINE s == [NoSearch EXCEPT !.phase = "think", !.minDepth = min, !.edepth = 2, !.idepth = 1]
<1>1. /\ s.phase = "think" /\ s.edepth = 2 /\ s.idepth = 1 /\ s.reasons = <<>>
      /\ s.dynamic = {} /\ s.persistent = {} /\ s \in Searches
  <2>1. min \in Nat
    BY SearchAssumption
  <2>. QED
    BY <2>1, Begun
<1>2. search' = s /\ asked' = {}
  BY DEF handle_post_research_start
<1>. HIDE DEF s
<1>. QED
  BY <1>1, <1>2, SearchAssumption
  DEF IInv, Searched, Counted, ReasonsKept, Judged, NoneLater

\* A response is added to the memory and to what was asked; it ends the process,
\* the round or neither.
LEMMA ThinkHolds ==
    ASSUME IInv, NEW r \in Responses, think(r)
    PROVE  IInv'
<1>. DEFINE i == deeper(search.idepth)
            heard == [search EXCEPT !.idepth = i, !.dynamic = @ \cup {<<search.edepth, i>>},
                                    !.told = exec_response(r) # {}, !.idle = AsksNothing(r)]
            next == try_terminate(heard, r)
<1>1. search \in Searches /\ search.phase = "think" /\ i = search.idepth + 1 /\ i \in 2 .. MAX_IDEPTH
      /\ search.edepth >= 2 /\ MAX_IDEPTH \in Nat
  BY SearchAssumption DEF IInv, think, Counted, Searches, deeper
<1>2. CASE next.phase = "think" /\ i >= MAX_IDEPTH
  BY <1>2, NoSearchHolds DEF think, Fall
<1>3. CASE ~(next.phase = "think" /\ i >= MAX_IDEPTH)
  <2>1. search' = next /\ asked' = asked \cup {<<search.edepth, i>>}
    BY <1>3 DEF think
  <2>. DEFINE S == search.dynamic \cup {<<search.edepth, i>>}
  <2>2. i \in Nat /\ <<search.edepth, i>> \in Rounds /\ S \in SUBSET Rounds
    BY <1>1 DEF Searches, Rounds
  <2>. HIDE DEF i
  <2>3. /\ heard \in Searches /\ heard.phase = "think" /\ heard.idepth = i
        /\ heard.dynamic = S
        /\ heard.minDepth = search.minDepth /\ heard.edepth = search.edepth
        /\ heard.persistent = search.persistent /\ heard.reasons = search.reasons
    <3>1. PICK b \in BOOLEAN : b = (exec_response(r) # {})
      OBVIOUS
    <3>2. PICK c \in BOOLEAN : c = AsksNothing(r)
      BY DEF AsksNothing
    <3>3. heard = [search EXCEPT !.idepth = i, !.dynamic = S, !.told = b, !.idle = c]
      BY <3>1, <3>2
    <3>. HIDE DEF heard, S
    <3>4. heard \in Searches
      BY <1>1, <2>2, <3>3, Heard
    <3>. QED
      BY <1>1, <3>3, <3>4 DEF Searches
  <2>. HIDE DEF heard
  <2>4. /\ next \in Searches /\ next.idepth = i /\ next.edepth = search.edepth
        /\ next.dynamic = search.dynamic \cup {<<search.edepth, i>>}
        /\ next.persistent = search.persistent /\ next.reasons = search.reasons
        /\ \/ next.phase = "think"
           \/ /\ next.phase = "judge" /\ next.out = <<search.edepth, i>>
              /\ i >= next.minDepth
    <3>1. CASE ~Concludes(r)
      BY <3>1, <2>3 DEF try_terminate
    <3>2. CASE Concludes(r) /\ heard.idepth < heard.minDepth
      BY <3>2, <2>3 DEF try_terminate, Searches
    <3>3. CASE Concludes(r) /\ ~(heard.idepth < heard.minDepth)
      <4>1. next = [heard EXCEPT !.out = <<heard.edepth, heard.idepth>>, !.phase = "judge"]
        BY <3>3 DEF try_terminate
      <4>2. heard.minDepth \in Nat /\ i >= heard.minDepth
        BY <3>3, <2>3, <1>1 DEF Searches
      <4>3. <<heard.edepth, heard.idepth>> \in Rounds
        BY <2>2, <2>3
      <4>. DEFINE o == <<heard.edepth, heard.idepth>>
      <4>. HIDE DEF next, o
      <4>4. next = [heard EXCEPT !.out = o, !.phase = "judge"]
        BY <4>1 DEF o
      <4>5. next \in Searches
        BY <4>3, <4>4, <2>3, Concluded DEF o
      <4>6. /\ next.phase = "judge" /\ next.out = o /\ next.idepth = heard.idepth
            /\ next.edepth = heard.edepth /\ next.dynamic = heard.dynamic
            /\ next.persistent = heard.persistent /\ next.reasons = heard.reasons
            /\ next.minDepth = heard.minDepth
        BY <4>4, <2>3 DEF Searches
      <4>. QED
        BY <4>2, <4>5, <4>6, <2>3 DEF o
    <3>. QED
      BY <3>1, <3>2, <3>3
  <2>. HIDE DEF next
  <2>5. search' \in Searches /\ asked' = Searched'
    BY <2>1, <2>4 DEF IInv, Searched
  <2>6. Counted'
    BY <2>1, <2>4, <1>1, <1>3 DEF Counted
  <2>7. ReasonsKept'
    BY <2>1, <2>4, <1>1 DEF IInv, ReasonsKept
  <2>8. Judged'
    BY <2>1, <2>4 DEF Judged
  <2>9. NoneLater'
    <3>1. \A a \in asked : a[1] \in Nat /\ a[2] \in Nat
      BY DEF IInv, Searched, Searches, Rounds
    <3>2. search.edepth \in Nat /\ search.idepth \in Nat
      BY <1>1 DEF Searches
    <3>. QED
      BY <2>1, <2>4, <1>1, <3>1, <3>2 DEF IInv, NoneLater
  <2>. QED
    BY <2>5, <2>6, <2>7, <2>8, <2>9 DEF IInv
<1>. QED
  BY <1>2, <1>3

\* The judge ends the process, the search or the round.
LEMMA JudgeHolds ==
    ASSUME IInv, NEW pass \in BOOLEAN, NEW given \in BOOLEAN, judge_result(pass, given)
    PROVE  IInv'
<1>. DEFINE judged == [search EXCEPT !.reason = reason_of(search, given)]
            fed == write_feedback(judged)
<1>1. search \in Searches /\ search.phase = "judge" /\ search.edepth \in Nat /\ search.edepth >= 2
      /\ search.reasons \in Seq(Nat) /\ 2 \in Nat /\ MAX_IDEPTH \in Nat
  BY SearchAssumption DEF IInv, judge_result, Counted, Searches
<1>2. reason_of(search, given) \in Seq(Nat) /\ (given => reason_of(search, given) = <<search.edepth>>)
  BY <1>1 DEF reason_of
<1>3. /\ judged \in Searches /\ judged = [search EXCEPT !.reason = judged.reason]
      /\ given => judged.reason = <<search.edepth>>
      /\ judged.phase = "judge" /\ judged.edepth = search.edepth /\ judged.idepth = search.idepth
      /\ judged.minDepth = search.minDepth /\ judged.out = search.out
      /\ judged.reasons = search.reasons /\ judged.dynamic = search.dynamic
      /\ judged.persistent = search.persistent
  BY <1>1, <1>2 DEF Searches
<1>. HIDE DEF judged
<1>4. CASE ~pass /\ ~given
  BY <1>4, NoSearchHolds DEF judge_result, Fall
<1>5. CASE (pass \/ given) /\ (pass \/ search.edepth >= DS_MAX_EXTERNAL_ROUNDS)
  <2>1. search' = [judged EXCEPT !.phase = "done"] /\ asked' = asked
    BY <1>5 DEF judge_result, judged
  <2>2. /\ search' \in Searches /\ search'.phase = "done"
        /\ search'.edepth = search.edepth /\ search'.idepth = search.idepth
        /\ search'.minDepth = search.minDepth /\ search'.out = search.out
        /\ search'.reasons = search.reasons /\ search'.dynamic = search.dynamic
        /\ search'.persistent = search.persistent
    BY <2>1, <1>3 DEF Searches
  <2>. QED
    BY <2>1, <2>2, <1>1 DEF IInv, Searched, Counted, ReasonsKept, Judged, NoneLater
<1>6. CASE given /\ ~pass /\ ~(search.edepth >= DS_MAX_EXTERNAL_ROUNDS)
  <2>1. search' = next_round(fed) /\ asked' = asked
    BY <1>6 DEF judge_result, judged
  <2>2. judged.reason = <<search.edepth>>
    BY <1>3, <1>6
  <2>3. /\ fed \in Searches /\ fed.reasons = search.reasons \o <<search.edepth>>
        /\ fed.persistent = search.persistent \cup search.dynamic /\ fed.dynamic = {}
        /\ fed.edepth = search.edepth
    <3>. DEFINE q == search.reasons \o <<search.edepth>>
                S == search.persistent \cup search.dynamic
    <3>1. q \in Seq(Nat) /\ S \in SUBSET Rounds
      BY <1>1 DEF Searches
    <3>2. fed = [judged EXCEPT !.reasons = q, !.persistent = S, !.dynamic = {}]
      BY <1>3, <2>2 DEF write_feedback
    <3>. HIDE DEF q, S, fed
    <3>3. fed \in Searches /\ fed.reasons = q /\ fed.persistent = S /\ fed.dynamic = {}
          /\ fed.edepth = judged.edepth
      <4>1. fed \in Searches
        BY <1>3, <3>1, <3>2, FedBack
      <4>. QED
        BY <4>1, <1>3, <3>2 DEF Searches
    <3>. QED
      BY <1>3, <3>3 DEF q, S
  <2>. HIDE DEF fed
  <2>4. /\ search' \in Searches /\ search'.phase = "think"
        /\ search'.edepth = search.edepth + 1 /\ search'.idepth = 1
        /\ search'.reasons = search.reasons \o <<search.edepth>> /\ search'.dynamic = {}
        /\ search'.persistent = search.persistent \cup search.dynamic
    <3>1. search' = [fed EXCEPT !.edepth = fed.edepth + 1, !.idepth = 1, !.phase = "think",
                               !.told = TRUE]
      BY <2>1 DEF next_round
    <3>2. fed.edepth + 1 \in Nat /\ fed.edepth + 1 = search.edepth + 1
      BY <2>3, <1>1
    <3>. DEFINE e == fed.edepth + 1
    <3>. HIDE DEF e
    <3>3. search' = [fed EXCEPT !.edepth = e, !.idepth = 1, !.phase = "think", !.told = TRUE] /\ e \in Nat
      BY <3>1, <3>2 DEF e
    <3>4. search' \in Searches
      BY <2>3, <3>3, NextRound
    <3>5. /\ search'.phase = "think" /\ search'.edepth = e /\ search'.idepth = 1
          /\ search'.reasons = fed.reasons /\ search'.dynamic = fed.dynamic
          /\ search'.persistent = fed.persistent
      BY <2>3, <3>3 DEF Searches
    <3>. QED
      BY <2>3, <3>2, <3>4, <3>5 DEF e
  <2>5. asked' = Searched'
    BY <2>1, <2>4 DEF IInv, Searched
  <2>6. Counted'
    BY <2>4, <1>1, SearchAssumption DEF Counted
  <2>7. ReasonsKept'
    <3>. DEFINE n == Len(search.reasons)
    <3>1. n = search.edepth - 2 /\ n \in Nat
      BY <1>1 DEF IInv, ReasonsKept
    <3>2. /\ Len(search'.reasons) = n + 1 /\ search'.reasons[n + 1] = search.edepth
          /\ \A k \in 1 .. n : search'.reasons[k] = search.reasons[k]
      BY <2>4, <1>1
    <3>3. <<search.edepth, search.idepth>> \in search'.persistent /\ search.idepth \in 2 .. MAX_IDEPTH
      BY <2>4, <1>1 DEF IInv, Judged, Counted
    <3>4. \A k \in 1 .. n : /\ search.reasons[k] = k + 1
                            /\ \E i \in 2 .. MAX_IDEPTH : <<search.reasons[k], i>> \in search'.persistent
      BY <2>4 DEF IInv, ReasonsKept
    <3>. HIDE DEF n
    <3>5. \A k \in 1 .. n + 1 : k \in 1 .. n \/ k = n + 1
      BY <3>1
    <3>6. \A k \in 1 .. n + 1 :
            /\ search'.reasons[k] = k + 1
            /\ \E i \in 2 .. MAX_IDEPTH : <<search'.reasons[k], i>> \in search'.persistent
      <4>. SUFFICES ASSUME NEW k \in 1 .. n + 1
                    PROVE  /\ search'.reasons[k] = k + 1
                           /\ \E i \in 2 .. MAX_IDEPTH : <<search'.reasons[k], i>> \in search'.persistent
        OBVIOUS
      <4>1. CASE k \in 1 .. n
        BY <4>1, <3>2, <3>4
      <4>2. CASE k = n + 1
        <5>1. search'.reasons[k] = search.edepth /\ search.edepth = k + 1
          BY <4>2, <3>1, <3>2, <1>1
        <5>. QED
          BY <5>1, <3>3
      <4>. QED
        BY <4>1, <4>2, <3>5
    <3>7. Len(search'.reasons) = n + 1 /\ n + 1 = search'.edepth - 2 /\ search'.phase = "think"
      BY <2>4, <3>1, <3>2, <1>1
    <3>. QED
      BY <3>6, <3>7 DEF ReasonsKept
  <2>8. Judged'
    BY <2>4 DEF Judged
  <2>9. NoneLater'
    <3>1. \A a \in asked : a[1] \in Nat
      BY DEF IInv, Searched, Searches, Rounds
    <3>2. \A a \in asked : a[1] <= search.edepth
      BY <1>1, <3>1 DEF IInv, NoneLater
    <3>3. \A a \in asked : a[1] < search.edepth + 1
      BY <1>1, <3>1, <3>2
    <3>. QED
      BY <2>1, <2>4, <3>3 DEF NoneLater
  <2>. QED
    BY <2>4, <2>5, <2>6, <2>7, <2>8, <2>9 DEF IInv
<1>. QED
  BY <1>4, <1>5, <1>6

----------------------------------------------------------------------------
\* The invariant holds in every state: what the AI is shown is what it said, the
\* reasons are those of the failed rounds, what is judged is the last response
\* (start_ds_session).
THEOREM Inductive == Spec => []IInv
<1>1. Init => IInv
  <2>. SUFFICES ASSUME Init PROVE IInv
    OBVIOUS
  <2>1. search = NoSearch /\ asked = {}
    BY DEF Init
  <2>2. NoSearch \in Searches
    BY DEF NoSearch, NoRound, Searches, Rounds
  <2>3. /\ NoSearch.phase = "none" /\ NoSearch.reasons = <<>>
        /\ NoSearch.dynamic = {} /\ NoSearch.persistent = {}
    BY DEF NoSearch
  <2>. QED
    BY <2>1, <2>2, <2>3 DEF IInv, Searched, Counted, ReasonsKept, Judged, NoneLater
<1>2. IInv /\ [Next]_vars => IInv'
  <2>. SUFFICES ASSUME IInv, [Next]_vars PROVE IInv'
    OBVIOUS
  <2>1. ASSUME UNCHANGED <<search, asked>> PROVE IInv'
    BY <2>1 DEF IInv, Searched, Counted, ReasonsKept, Judged, NoneLater
  <2>2. CASE OfGraph
    BY <2>1, <2>2 DEF OfGraph
  <2>3. CASE \E min \in MinDepths : handle_post_research_start(min)
    BY <2>3, StartHolds
  <2>4. CASE \E r \in Responses : think(r)
    BY <2>4, ThinkHolds
  <2>5. CASE \E pass, given \in BOOLEAN : judge_result(pass, given)
    BY <2>5, JudgeHolds
  <2>6. CASE answer
    BY <2>6, NoSearchHolds DEF answer
  <2>7. CASE Crash
    BY <2>7, NoSearchHolds DEF Crash, Fall
  <2>8. CASE UNCHANGED vars
    BY <2>1, <2>8 DEF vars
  <2>. QED
    BY <2>2, <2>3, <2>4, <2>5, <2>6, <2>7, <2>8 DEF Next, Searching
<1>. QED
  BY <1>1, <1>2, PTL DEF Spec

\* Through all rounds nothing the AI said is lost, every failed round keeps its own
\* reason, and what a search answers with is the last conclusion, as deep as was
\* asked for (think, write_feedback, judge_result, try_terminate).
THEOREM SearchStaysHonest == Spec => []SearchHonest
<1>1. IInv => SearchHonest
  <2>. SUFFICES ASSUME IInv PROVE SearchHonest
    OBVIOUS
  <2>1. NothingForgotten
    BY DEF IInv, Searched, NothingForgotten
  <2>2. ReasonsAreOwn
    <3>1. search.reasons \in Seq(Nat) /\ DOMAIN search.reasons = 1 .. Len(search.reasons)
      BY DEF IInv, Searches
    <3>2. search.reasons = [k \in 1 .. Len(search.reasons) |-> k + 1]
      <4>. DEFINE n == Len(search.reasons)
      <4>1. \A k \in 1 .. n : search.reasons[k] = k + 1
        BY DEF IInv, ReasonsKept
      <4>2. search.reasons = [k \in 1 .. n |-> search.reasons[k]]
        BY <3>1
      <4>. QED
        BY <4>1, <4>2
    <3>. QED
      BY <3>1, <3>2 DEF IInv, ReasonsKept, ReasonsAreOwn
  <2>3. ConclusionIsLast
    BY DEF IInv, Judged, NoneLater, ConclusionIsLast
  <2>. QED
    BY <2>1, <2>2, <2>3 DEF SearchHonest
<1>. QED
  BY <1>1, Inductive, PTL

----------------------------------------------------------------------------
\* The graph

\* What lowerAll and AddNodeEx have made of a word for good.
Settled(word) == [word |-> word, low |-> Settles[word], cut |-> word \in LongWords]

Roots == 1 .. Len(Context)

\* The contexts come first, and every other node belongs to one of them, under
\* a settled label; a label that is looked for as it is kept is there once.
Placed(n, label, parent) ==
    /\ n \in Nat /\ n >= Len(Context) /\ label \in [1 .. n -> Labels] /\ parent \in [1 .. n -> 0 .. n]
    /\ \A i \in Roots : label[i] = Settled(Context[i]) /\ parent[i] = 0
    /\ \A i \in 1 .. n : i \notin Roots => parent[i] \in Roots /\ label[i].word \in Words
    /\ \A i \in 1 .. n : label[i] = Settled(label[i].word)
    /\ \A i, j \in 1 .. n :
          Faithful(label[i]) /\ label[i] = label[j] /\ parent[i] = parent[j] => i = j

\* The dictionary of a node leads to its children, and has all their labels.
Listed(n, label, parent, children) ==
    /\ \A i \in 1 .. n : /\ DOMAIN children[i] \subseteq Labels
                         /\ \A l \in DOMAIN children[i] : /\ children[i][l] \in 1 .. n
                                                          /\ label[children[i][l]] = l
                                                          /\ parent[children[i][l]] = i
    /\ \A i \in 1 .. n : parent[i] # 0 => label[i] \in DOMAIN children[parent[i]]

Count(s, x) == Cardinality({k \in DOMAIN s : s[k] = x})

\* Links are there from both ends, and join nodes of one context.
Linked(n, parent, nbrs) ==
    /\ nbrs \in [1 .. n -> Seq(1 .. n)]
    /\ \A i, j \in 1 .. n : /\ Count(nbrs[i], j) = Count(nbrs[j], i)
                            /\ Count(nbrs[i], j) > 0 => parent[i] = parent[j] /\ parent[i] # 0

NodeRec == [label : Labels, parent : Nat, children : UNION {[D -> Nat] : D \in SUBSET Labels},
            nbrs : Seq(Nat)]

LabelsOf(ns) == [i \in 1 .. Len(ns) |-> ns[i].label]
ParentsOf(ns) == [i \in 1 .. Len(ns) |-> ns[i].parent]
ChildrenOf(ns) == [i \in 1 .. Len(ns) |-> ns[i].children]
NbrsOf(ns) == [i \in 1 .. Len(ns) |-> ns[i].nbrs]

Intact(ns) ==
    /\ Placed(Len(ns), LabelsOf(ns), ParentsOf(ns))
    /\ Listed(Len(ns), LabelsOf(ns), ParentsOf(ns), ChildrenOf(ns))
    /\ Linked(Len(ns), ParentsOf(ns), NbrsOf(ns))

Pairings == Nat \X Nat
Files == [nodes : Seq([name : Labels, parent : Nat]), connections : Seq(Pairings)]

\* What was saved of such a graph.
Saved(g) ==
    LET n == Len(g.nodes)
        label == [i \in 1 .. n |-> g.nodes[i].name]
        parent == [i \in 1 .. n |-> g.nodes[i].parent]
    IN  /\ g \in Files
        /\ Placed(n, label, parent)
        /\ \A k \in 1 .. Len(g.connections) :
              /\ g.connections[k][1] \in 1 .. n /\ g.connections[k][2] \in 1 .. n
              /\ parent[g.connections[k][1]] = parent[g.connections[k][2]]
              /\ parent[g.connections[k][1]] # 0
        /\ \A i, j \in 1 .. n : Contains(g.connections, <<i, j>>) => Contains(g.connections, <<j, i>>)

----------------------------------------------------------------------------
\* Induction

\* Every set of naturals that is not empty has a least element.
LEMMA LeastNatural ==
    ASSUME NEW T \in SUBSET Nat, T # {}
    PROVE  \E n \in T : \A m \in T : n <= m
<1>1. PICK n \in T : \A m \in T : ~ <<m, n>> \in OpToRel(<, Nat)
  BY NatLessThanWellFounded, WFMin
<1>2. ASSUME NEW m \in T PROVE n <= m
  <2>1. n \in Nat /\ m \in Nat
    OBVIOUS
  <2>2. ~ (m < n)
    BY <1>1, <2>1 DEF OpToRel
  <2>. QED
    BY <2>1, <2>2
<1>. QED
  BY <1>2

\* A set that has everything all of whose lower elements it has, has all.
Hereditary(S, m, T) ==
    /\ m \in [S -> Nat] /\ T \in SUBSET S
    /\ \A h \in S : (\A k \in S : m[k] < m[h] => k \in T) => h \in T

LEMMA MeasureInduction == ASSUME NEW S, NEW m, NEW T, Hereditary(S, m, T) PROVE T = S
<1>. SUFFICES ASSUME T # S PROVE FALSE
  OBVIOUS
<1>. DEFINE M == {m[h] : h \in S \ T}
<1>0. /\ m \in [S -> Nat] /\ T \in SUBSET S
      /\ \A h \in S : (\A k \in S : m[k] < m[h] => k \in T) => h \in T
  BY DEF Hereditary
<1>1. M \in SUBSET Nat /\ M # {}
  BY <1>0
<1>2. PICK n \in M : \A k \in M : n <= k
  BY <1>1, LeastNatural
<1>3. PICK h \in S \ T : n = m[h]
  OBVIOUS
<1>4. ASSUME NEW k \in S, m[k] < m[h] PROVE k \in T
  <2>. SUFFICES ASSUME k \notin T PROVE FALSE
    OBVIOUS
  <2>1. m[k] \in M /\ m[k] \in Nat /\ m[h] \in Nat
    BY <1>0
  <2>2. n <= m[k]
    BY <1>2, <2>1
  <2>. QED
    BY <1>3, <1>4, <2>1, <2>2
<1>. QED
  BY <1>0, <1>3, <1>4

\* A rule that looks only at lower arguments has a solution.
Recursion(S, V, m, b, rule) ==
    /\ V # {} /\ m \in [S -> Nat] /\ b \in Nat /\ \A h \in S : m[h] < b
    /\ rule \in [S -> [[S -> V] -> V]]
    /\ \A h \in S : \A f, g \in [S -> V] :
           (\A k \in S : m[k] < m[h] => f[k] = g[k]) => rule[h][f] = rule[h][g]

LEMMA RecursionSolved ==
    ASSUME NEW S, NEW V, NEW m, NEW b, NEW rule, Recursion(S, V, m, b, rule)
    PROVE  \E f \in [S -> V] : \A h \in S : f[h] = rule[h][f]
<1>. DEFINE Upto(n) == \E f \in [S -> V] : \A h \in S : m[h] < n => f[h] = rule[h][f]
            T == {n \in Nat : Upto(n)}
            id == [n \in Nat |-> n]
<1>0. /\ m \in [S -> Nat] /\ b \in Nat /\ \A h \in S : m[h] < b
      /\ rule \in [S -> [[S -> V] -> V]]
      /\ \A h \in S : \A f, g \in [S -> V] :
             (\A k \in S : m[k] < m[h] => f[k] = g[k]) => rule[h][f] = rule[h][g]
  BY DEF Recursion
<1>1. Upto(0)
  <2>0. PICK v \in V : TRUE
    BY DEF Recursion
  <2>1. [h \in S |-> v] \in [S -> V]
    OBVIOUS
  <2>2. \A h \in S : ~ (m[h] < 0)
    BY <1>0
  <2>. QED
    BY <1>0, <2>1, <2>2
<1>2. ASSUME NEW n \in Nat, Upto(n) PROVE Upto(n + 1)
  <2>1. PICK f \in [S -> V] : \A h \in S : m[h] < n => f[h] = rule[h][f]
    BY <1>2
  <2>. DEFINE g == [h \in S |-> rule[h][f]]
  <2>2. g \in [S -> V]
    BY <1>0
  <2>3. \A h \in S : m[h] < n => g[h] = f[h]
    BY <2>1
  <2>4. ASSUME NEW h \in S, m[h] < n + 1 PROVE g[h] = rule[h][g]
    <3>1. m[h] \in Nat /\ n \in Nat
      BY <1>0
    <3>2. \A k \in S : m[k] < m[h] => f[k] = g[k]
      BY <1>0, <2>3, <2>4, <3>1
    <3>3. rule[h][f] = rule[h][g]
      BY <1>0, <2>2, <3>2
    <3>. QED
      BY <3>3
  <2>. HIDE DEF g
  <2>. QED
    BY <2>2, <2>4
<1>. HIDE DEF Upto
<1>3. \A n \in Nat : (\A k \in Nat : id[k] < id[n] => k \in T) => n \in T
  <2>. SUFFICES ASSUME NEW n \in Nat, \A k \in Nat : id[k] < id[n] => k \in T
                PROVE  Upto(n)
    OBVIOUS
  <2>1. CASE n = 0
    BY <1>1, <2>1
  <2>2. CASE n # 0
    <3>1. n - 1 \in Nat /\ n - 1 < n /\ (n - 1) + 1 = n
      BY <2>2
    <3>2. Upto(n - 1)
      BY <3>1
    <3>. QED
      BY <1>2, <3>1, <3>2
  <2>. QED
    BY <2>1, <2>2
<1>4. T = Nat
  <2>1. id \in [Nat -> Nat] /\ T \in SUBSET Nat
    OBVIOUS
  <2>. HIDE DEF T, id
  <2>2. Hereditary(Nat, id, T)
    BY <1>3, <2>1 DEF Hereditary
  <2>. QED
    BY <2>2, MeasureInduction
<1>5. Upto(b)
  BY <1>0, <1>4
<1>. QED
  BY <1>0, <1>5 DEF Upto

\* Induction over the turns of a loop.
Upwards(n, T) == 0 \in T /\ \A i \in 1 .. n : i - 1 \in T => i \in T

LEMMA LoopInduction ==
    ASSUME NEW n \in Nat, NEW T, Upwards(n, T) PROVE \A i \in 0 .. n : i \in T
<1>. DEFINE S == 0 .. n
            m == [i \in S |-> i]
            R == S \cap T
<1>1. ASSUME NEW i \in S, \A k \in S : m[k] < m[i] => k \in R PROVE i \in R
  <2>1. CASE i = 0
    BY <2>1 DEF Upwards
  <2>2. CASE i # 0
    <3>1. i \in 1 .. n /\ i - 1 \in S /\ i - 1 < i
      BY <2>2
    <3>2. m[i - 1] < m[i]
      BY <3>1
    <3>. QED
      BY <1>1, <3>1, <3>2 DEF Upwards
  <2>. QED
    BY <2>1, <2>2
<1>2. m \in [S -> Nat] /\ R \in SUBSET S
  OBVIOUS
<1>3. R = S
  <2>. HIDE DEF R, S, m
  <2>1. Hereditary(S, m, R)
    BY <1>1, <1>2 DEF Hereditary
  <2>. QED
    BY <2>1, MeasureInduction
<1>. QED
  BY <1>3

----------------------------------------------------------------------------
\* Folds

LEMMA GreatestOf ==
    ASSUME NEW n \in Nat, NEW s \in SUBSET (1 .. n), s # {}
    PROVE  Max(s) \in s /\ \A x \in s : x <= Max(s)
<1>. DEFINE T == {n - x : x \in s}
<1>0. \A x \in s : n - x \in Nat
  OBVIOUS
<1>1. T \in SUBSET Nat /\ T # {}
  BY <1>0
<1>2. PICK d \in T : \A e \in T : d <= e
  BY <1>1, LeastNatural
<1>3. PICK x \in s : d = n - x
  OBVIOUS
<1>4. \A y \in s : x >= y
  <2>. SUFFICES ASSUME NEW y \in s PROVE x >= y
    OBVIOUS
  <2>1. n - x <= n - y
    BY <1>2, <1>3
  <2>. QED
    BY <2>1
<1>5. \E z \in s : \A y \in s : z >= y
  BY <1>4
<1>6. Max(s) \in s /\ \A y \in s : Max(s) >= y
  BY <1>5 DEF Max
<1>. QED
  BY <1>6

LEMMA LastOf ==
    ASSUME NEW n \in Nat, NEW i \in 1 .. n
    PROVE  /\ 1 .. i \in SUBSET (1 .. n) /\ 1 .. i # {} /\ Max(1 .. i) = i
           /\ (1 .. i) \ {i} = 1 .. (i - 1)
<1>1. 1 .. i \in SUBSET (1 .. n) /\ 1 .. i # {} /\ i \in 1 .. i
  OBVIOUS
<1>2. Max(1 .. i) \in 1 .. i /\ i <= Max(1 .. i)
  BY <1>1, GreatestOf
<1>3. (1 .. i) \ {i} = 1 .. (i - 1)
  OBVIOUS
<1>. QED
  BY <1>1, <1>2, <1>3

\* The function FoldLeft is defined by: what has been made of the values of
\* every set of places, the greatest last.
Turning(n, V, base, step) == n \in Nat /\ base \in V /\ step \in [1 .. n -> [V -> V]]

Turned(n, V, base, step, f) ==
    /\ f \in [SUBSET (1 .. n) -> V]
    /\ \A s \in SUBSET (1 .. n) : f[s] = IF s = {} THEN base ELSE step[Max(s)][f[s \ {Max(s)}]]

LEMMA FoldSolved ==
    ASSUME NEW n, NEW V, NEW base, NEW step, Turning(n, V, base, step)
    PROVE  \E f : Turned(n, V, base, step, f)
<1>. DEFINE S == SUBSET (1 .. n)
            m == [s \in S |-> IF s = {} THEN 0 ELSE Max(s)]
            rule == [s \in S |-> [f \in [S -> V] |->
                        IF s = {} THEN base ELSE step[Max(s)][f[s \ {Max(s)}]]]]
<1>. n \in Nat /\ base \in V /\ step \in [1 .. n -> [V -> V]]
  BY DEF Turning
<1>0. \A s \in S : s # {} => Max(s) \in 1 .. n /\ s \ {Max(s)} \in S
  BY GreatestOf
<1>1. m \in [S -> Nat] /\ n + 1 \in Nat /\ \A s \in S : m[s] < n + 1
  BY <1>0
<1>2. rule \in [S -> [[S -> V] -> V]]
  BY <1>0
<1>3. ASSUME NEW s \in S, s # {} PROVE m[s \ {Max(s)}] < m[s]
  <2>. DEFINE r == s \ {Max(s)}
  <2>1. r \in S /\ Max(s) \in 1 .. n /\ \A x \in s : x <= Max(s)
    BY <1>0, <1>3, GreatestOf
  <2>2. CASE r = {}
    BY <1>3, <2>1, <2>2
  <2>3. CASE r # {}
    <3>1. Max(r) \in r
      BY <2>1, <2>3, GreatestOf
    <3>2. Max(r) \in s /\ Max(r) # Max(s)
      BY <3>1
    <3>3. Max(r) <= Max(s) /\ Max(r) \in Nat
      BY <2>1, <3>2
    <3>. QED
      BY <1>3, <2>1, <2>3, <3>2, <3>3
  <2>. QED
    BY <2>2, <2>3
<1>4. ASSUME NEW s \in S, NEW f \in [S -> V], NEW g \in [S -> V],
             \A k \in S : m[k] < m[s] => f[k] = g[k]
      PROVE  rule[s][f] = rule[s][g]
  <2>1. CASE s = {}
    BY <2>1
  <2>2. CASE s # {}
    <3>1. f[s \ {Max(s)}] = g[s \ {Max(s)}]
      BY <1>0, <1>3, <1>4, <2>2
    <3>. QED
      BY <2>2, <3>1
  <2>. QED
    BY <2>1, <2>2
<1>5. V # {}
  OBVIOUS
<1>6. Recursion(S, V, m, n + 1, rule)
  <2>. HIDE DEF rule, S, m
  <2>. QED
    BY <1>1, <1>2, <1>4, <1>5 DEF Recursion
<1>7. \E f \in [S -> V] : \A s \in S : f[s] = rule[s][f]
  <2>. HIDE DEF rule, S, m
  <2>. QED
    BY <1>6, RecursionSolved
<1>8. PICK f \in [S -> V] : \A s \in S : f[s] = rule[s][f]
  BY <1>7
<1>9. Turned(n, V, base, step, f)
  BY <1>8 DEF Turned
<1>. QED
  BY <1>9

\* What the turns of such a function lead to.
LEMMA FoldTurns ==
    ASSUME NEW n \in Nat, NEW it, NEW good, it[{}] \in good[0],
           \A i \in 1 .. n : it[1 .. (i - 1)] \in good[i - 1] => it[1 .. i] \in good[i]
    PROVE  it[1 .. n] \in good[n]
<1>. DEFINE T == {i \in 0 .. n : it[1 .. i] \in good[i]}
<1>1. 0 \in T
  <2>1. 1 .. 0 = {}
    OBVIOUS
  <2>. QED
    BY <2>1
<1>2. ASSUME NEW i \in 1 .. n, i - 1 \in T PROVE i \in T
  BY <1>2
<1>3. n \in 0 .. n
  OBVIOUS
<1>4. n \in T
  <2>. HIDE DEF T
  <2>1. Upwards(n, T)
    BY <1>1, <1>2 DEF Upwards
  <2>. QED
    BY <1>3, <2>1, LoopInduction
<1>. QED
  BY <1>4

----------------------------------------------------------------------------
\* Nodes and links

Nodes == Seq(NodeRec)

LEMMA Lowered == ASSUME NEW l \in Labels PROVE lowerAll(l) \in Labels
<1>1. l.word \in Words \cup Contexts /\ l.low \in 0 .. 2
  BY DEF Labels
<1>2. Settles[l.word] \in 0 .. 2
  BY <1>1, GraphAssumption
<1>3. CASE l.low < Settles[l.word]
  <2>1. l.low + 1 \in 0 .. 2
    BY <1>1, <1>2, <1>3
  <2>. QED
    BY <1>3, <2>1 DEF lowerAll, Labels
<1>4. CASE ~ (l.low < Settles[l.word])
  BY <1>4 DEF lowerAll
<1>. QED
  BY <1>3, <1>4

LEMMA KeptLabel == ASSUME NEW l \in Labels PROVE Kept(l) \in Labels
  BY DEF Kept, Labels

\* What AddNodeEx makes of an array.
Grown(ns, rs, label, parent) ==
    /\ rs \in Nodes /\ Len(rs) = Len(ns) + 1
    /\ \A i \in 1 .. Len(ns) : /\ rs[i].label = ns[i].label /\ rs[i].parent = ns[i].parent
                               /\ rs[i].nbrs = ns[i].nbrs
                               /\ i # parent => rs[i].children = ns[i].children
    /\ parent # 0 => rs[parent].children =
          [l \in DOMAIN ns[parent].children \cup {label} |->
              IF l = label THEN Len(ns) + 1 ELSE ns[parent].children[l]]
    /\ rs[Len(ns) + 1] = [label |-> label, parent |-> parent, children |-> <<>>, nbrs |-> <<>>]

LEMMA NodeAdded ==
    ASSUME NEW ns \in Nodes, NEW name \in Labels, NEW parent \in 0 .. Len(ns)
    PROVE  Grown(ns, AddNodeEx(ns, name, parent), lowerAll(Kept(name)), parent)
<1>. DEFINE label == lowerAll(Kept(name))
            node == [label |-> label, parent |-> parent, children |-> <<>>, nbrs |-> <<>>]
            kids == [l \in DOMAIN ns[parent].children \cup {label} |->
                        IF l = label THEN Len(ns) + 1 ELSE ns[parent].children[l]]
            listed == IF parent = 0 THEN ns ELSE [ns EXCEPT ![parent].children = kids]
<1>1. label \in Labels
  BY Lowered, KeptLabel
<1>. HIDE DEF label
<1>2. ns \in Seq(NodeRec) /\ Len(ns) \in Nat /\ DOMAIN ns = 1 .. Len(ns)
  BY DEF Nodes
<1>3. <<>> \in [{} -> Nat] /\ <<>> \in Seq(Nat)
  OBVIOUS
<1>4. node \in NodeRec
  <2>1. parent \in Nat
    BY <1>2
  <2>2. <<>> \in UNION {[D -> Nat] : D \in SUBSET Labels}
    BY <1>3
  <2>. QED
    BY <1>1, <1>3, <2>1, <2>2 DEF NodeRec
<1>5. AddNodeEx(ns, name, parent) = Append(listed, node)
  <2>1. (IF parent \in DOMAIN ns THEN parent ELSE 0) = parent
    BY <1>2
  <2>. QED
    BY <2>1 DEF AddNodeEx, label
<1>. HIDE DEF node
<1>6. parent # 0 => kids \in UNION {[D -> Nat] : D \in SUBSET Labels}
  <2>. SUFFICES ASSUME parent # 0 PROVE kids \in UNION {[D -> Nat] : D \in SUBSET Labels}
    OBVIOUS
  <2>1. ns[parent] \in NodeRec
    BY <1>2
  <2>2. PICK D \in SUBSET Labels : ns[parent].children \in [D -> Nat]
    BY <2>1 DEF NodeRec
  <2>3. Len(ns) + 1 \in Nat
    BY <1>2
  <2>4. kids \in [D \cup {label} -> Nat] /\ D \cup {label} \in SUBSET Labels
    BY <1>1, <2>2, <2>3
  <2>. QED
    BY <2>4
<1>. HIDE DEF kids
<1>7. /\ listed \in Seq(NodeRec) /\ Len(listed) = Len(ns)
      /\ \A i \in 1 .. Len(ns) : /\ listed[i].label = ns[i].label /\ listed[i].parent = ns[i].parent
                                 /\ listed[i].nbrs = ns[i].nbrs
                                 /\ i # parent => listed[i].children = ns[i].children
      /\ parent # 0 => listed[parent].children = kids
  <2>1. CASE parent = 0
    BY <1>2, <2>1
  <2>2. CASE parent # 0
    <3>1. ns[parent] \in NodeRec /\ parent \in 1 .. Len(ns)
      BY <1>2, <2>2
    <3>2. PICK v : v = [ns[parent] EXCEPT !.children = kids]
      OBVIOUS
    <3>3. v \in NodeRec
      BY <1>6, <2>2, <3>1, <3>2 DEF NodeRec
    <3>4. v.children = kids /\ v.label = ns[parent].label /\ v.parent = ns[parent].parent
          /\ v.nbrs = ns[parent].nbrs
      BY <3>1, <3>2 DEF NodeRec
    <3>5. listed = [ns EXCEPT ![parent] = v]
      BY <2>2, <3>2
    <3>. HIDE DEF listed
    <3>6. listed \in Seq(NodeRec) /\ Len(listed) = Len(ns)
          /\ \A i \in 1 .. Len(ns) : listed[i] = IF i = parent THEN v ELSE ns[i]
      BY <1>2, <3>1, <3>3, <3>5
    <3>. QED
      BY <3>1, <3>4, <3>6
  <2>. QED
    BY <2>1, <2>2
<1>. HIDE DEF listed
<1>8. PICK rs : rs = AddNodeEx(ns, name, parent)
  OBVIOUS
<1>9. /\ rs \in Seq(NodeRec) /\ Len(rs) = Len(ns) + 1 /\ rs[Len(ns) + 1] = node
      /\ \A i \in 1 .. Len(ns) : rs[i] = listed[i]
  BY <1>2, <1>4, <1>5, <1>7, <1>8
<1>10. parent # 0 => parent \in 1 .. Len(ns)
  BY <1>2
<1>11. Grown(ns, rs, label, parent)
  BY <1>7, <1>9, <1>10 DEF Grown, Nodes, node, kids
<1>. QED
  BY <1>8, <1>11 DEF label

LEMMA CountType ==
    ASSUME NEW s \in Seq(Nat), NEW y
    PROVE  /\ Count(s, y) \in Nat /\ IsFiniteSet({k \in DOMAIN s : s[k] = y})
           /\ Count(s, y) > 0 <=> \E k \in 1 .. Len(s) : s[k] = y
<1>1. Len(s) \in Nat /\ DOMAIN s = 1 .. Len(s) /\ IsFiniteSet(1 .. Len(s))
  BY FS_Interval
<1>2. IsFiniteSet({k \in DOMAIN s : s[k] = y})
  BY <1>1, FS_Subset
<1>3. Count(s, y) \in Nat
  BY <1>2, FS_CardinalityType DEF Count
<1>4. Count(s, y) = 0 <=> {k \in DOMAIN s : s[k] = y} = {}
  BY <1>2, FS_EmptySet DEF Count
<1>5. Count(s, y) > 0 <=> Count(s, y) # 0
  BY <1>3
<1>6. {k \in DOMAIN s : s[k] = y} # {} <=> \E k \in 1 .. Len(s) : s[k] = y
  BY <1>1
<1>. QED
  BY <1>2, <1>3, <1>4, <1>5, <1>6

LEMMA CountAppend ==
    ASSUME NEW s \in Seq(Nat), NEW x \in Nat, NEW y
    PROVE  Count(Append(s, x), y) = Count(s, y) + (IF x = y THEN 1 ELSE 0)
<1>. DEFINE t == Append(s, x)
            S == {k \in DOMAIN s : s[k] = y}
            n == Len(s) + 1
<1>1. /\ n \in Nat /\ DOMAIN s = 1 .. Len(s) /\ DOMAIN t = 1 .. n
      /\ t[n] = x /\ \A k \in 1 .. Len(s) : t[k] = s[k]
  OBVIOUS
<1>2. IsFiniteSet(S) /\ Cardinality(S) \in Nat
  BY CountType DEF Count
<1>3. \A k \in 1 .. n : k \in 1 .. Len(s) \/ k = n
  BY <1>1
<1>4. n \notin 1 .. Len(s)
  BY <1>1
<1>. HIDE DEF n, t
<1>5. CASE x = y
  <2>1. {k \in DOMAIN t : t[k] = y} = S \cup {n}
    <3>1. 1 .. n = 1 .. Len(s) \cup {n}
      BY <1>1, <1>3 DEF n
    <3>. QED
      BY <1>1, <1>5, <3>1
  <2>2. n \notin S
    BY <1>1, <1>4
  <2>3. Cardinality(S \cup {n}) = Cardinality(S) + 1
    BY <1>2, <2>2, FS_AddElement
  <2>. QED
    BY <1>5, <2>1, <2>3 DEF Count, t
<1>6. CASE x # y
  <2>1. {k \in DOMAIN t : t[k] = y} = S
    <3>1. 1 .. n = 1 .. Len(s) \cup {n}
      BY <1>1, <1>3 DEF n
    <3>. QED
      BY <1>1, <1>6, <3>1
  <2>2. Count(t, y) = Cardinality(S) /\ Count(s, y) = Cardinality(S)
    BY <2>1 DEF Count
  <2>3. Cardinality(S) = Cardinality(S) + 0
    BY <1>2
  <2>. QED
    BY <1>6, <2>2, <2>3 DEF t
<1>. QED
  BY <1>5, <1>6

\* The array with other links, and nothing else changed.
Rewired(ns, rs) ==
    /\ rs \in Nodes /\ Len(rs) = Len(ns)
    /\ \A i \in 1 .. Len(ns) : /\ rs[i].label = ns[i].label /\ rs[i].parent = ns[i].parent
                               /\ rs[i].children = ns[i].children

LEMMA OneLink ==
    ASSUME NEW ns \in Nodes, NEW a \in Nat, NEW b \in Nat
    PROVE  /\ Rewired(ns, UniLinkEx(ns, a, b))
           /\ \A i \in 1 .. Len(ns) : UniLinkEx(ns, a, b)[i].nbrs =
                 IF i = a THEN Append(ns[i].nbrs, b) ELSE ns[i].nbrs
<1>1. ns \in Seq(NodeRec) /\ Len(ns) \in Nat /\ DOMAIN ns = 1 .. Len(ns)
  BY DEF Nodes
<1>2. CASE a \notin 1 .. Len(ns)
  <2>1. UniLinkEx(ns, a, b) = ns
    BY <1>1, <1>2 DEF UniLinkEx
  <2>2. Rewired(ns, ns)
    BY <1>1 DEF Rewired, Nodes
  <2>. QED
    BY <1>2, <2>1, <2>2
<1>3. CASE a \in 1 .. Len(ns)
  <2>0. ns[a] \in NodeRec
    BY <1>1, <1>3
  <2>1. ns[a] \in NodeRec /\ ns[a].nbrs \in Seq(Nat)
    BY <2>0 DEF NodeRec
  <2>2. PICK s : s = Append(ns[a].nbrs, b)
    OBVIOUS
  <2>3. s \in Seq(Nat)
    BY <2>1, <2>2
  <2>4. PICK v : v = [ns[a] EXCEPT !.nbrs = s]
    OBVIOUS
  <2>5. v \in NodeRec /\ v.nbrs = s /\ v.label = ns[a].label /\ v.parent = ns[a].parent
        /\ v.children = ns[a].children
    BY <2>1, <2>3, <2>4 DEF NodeRec
  <2>6. PICK rs : rs = UniLinkEx(ns, a, b)
    OBVIOUS
  <2>7. rs = [ns EXCEPT ![a] = v]
    BY <2>2, <2>4, <2>6 DEF UniLinkEx
  <2>8. rs \in Seq(NodeRec) /\ Len(rs) = Len(ns)
        /\ \A i \in 1 .. Len(ns) : rs[i] = IF i = a THEN v ELSE ns[i]
    BY <1>1, <1>3, <2>5, <2>7
  <2>9. Rewired(ns, rs)
    BY <2>5, <2>8 DEF Rewired, Nodes
  <2>10. \A i \in 1 .. Len(ns) : rs[i].nbrs = IF i = a THEN Append(ns[i].nbrs, b) ELSE ns[i].nbrs
    BY <2>2, <2>5, <2>8
  <2>. QED
    BY <2>6, <2>9, <2>10
<1>. QED
  BY <1>2, <1>3

\* Both ends.
LEMMA TwoLinks ==
    ASSUME NEW ns \in Nodes, NEW a \in Nat, NEW b \in Nat
    PROVE  /\ Rewired(ns, BiLinkEx(ns, a, b))
           /\ \A i \in 1 .. Len(ns), j \in Nat :
                 Count(BiLinkEx(ns, a, b)[i].nbrs, j) =
                     Count(ns[i].nbrs, j) + (IF i = a /\ j = b THEN 1 ELSE 0)
                                          + (IF i = b /\ j = a THEN 1 ELSE 0)
<1>1. PICK ms : ms = UniLinkEx(ns, a, b)
  OBVIOUS
<1>2. /\ Rewired(ns, ms)
      /\ \A i \in 1 .. Len(ns) : ms[i].nbrs = IF i = a THEN Append(ns[i].nbrs, b) ELSE ns[i].nbrs
  BY <1>1, OneLink
<1>3. PICK rs : rs = BiLinkEx(ns, a, b)
  OBVIOUS
<1>4. rs = UniLinkEx(ms, b, a) /\ ms \in Nodes /\ Len(ms) = Len(ns)
  BY <1>1, <1>2, <1>3 DEF BiLinkEx, Rewired
<1>5. /\ Rewired(ms, rs)
      /\ \A i \in 1 .. Len(ms) : rs[i].nbrs = IF i = b THEN Append(ms[i].nbrs, a) ELSE ms[i].nbrs
  BY <1>4, OneLink
<1>6. Rewired(ns, rs)
  BY <1>2, <1>5 DEF Rewired
<1>7. ASSUME NEW i \in 1 .. Len(ns), NEW j \in Nat
      PROVE  Count(rs[i].nbrs, j) = Count(ns[i].nbrs, j) + (IF i = a /\ j = b THEN 1 ELSE 0)
                                          + (IF i = b /\ j = a THEN 1 ELSE 0)
  <2>1. ns[i].nbrs \in Seq(Nat) /\ ms[i].nbrs \in Seq(Nat)
    <3>1. ns[i] \in NodeRec /\ ms[i] \in NodeRec
      BY <1>4 DEF Nodes
    <3>. QED
      BY <3>1 DEF NodeRec
  <2>2. Count(ms[i].nbrs, j) = Count(ns[i].nbrs, j) + (IF i = a /\ j = b THEN 1 ELSE 0)
    <3>1. CASE i = a
      <4>1. ms[i].nbrs = Append(ns[i].nbrs, b)
        BY <1>2, <3>1
      <4>2. Count(ms[i].nbrs, j) = Count(ns[i].nbrs, j) + (IF b = j THEN 1 ELSE 0)
        BY <2>1, <4>1, CountAppend
      <4>. QED
        BY <3>1, <4>2
    <3>2. CASE i # a
      <4>1. ms[i].nbrs = ns[i].nbrs /\ Count(ns[i].nbrs, j) \in Nat
        BY <1>2, <2>1, <3>2, CountType
      <4>. QED
        BY <3>2, <4>1
    <3>. QED
      BY <3>1, <3>2
  <2>3. Count(rs[i].nbrs, j) = Count(ms[i].nbrs, j) + (IF i = b /\ j = a THEN 1 ELSE 0)
    <3>1. CASE i = b
      <4>1. rs[i].nbrs = Append(ms[i].nbrs, a)
        BY <1>4, <1>5, <3>1
      <4>2. Count(rs[i].nbrs, j) = Count(ms[i].nbrs, j) + (IF a = j THEN 1 ELSE 0)
        BY <2>1, <4>1, CountAppend
      <4>. QED
        BY <3>1, <4>2
    <3>2. CASE i # b
      <4>1. rs[i].nbrs = ms[i].nbrs /\ Count(ms[i].nbrs, j) \in Nat
        BY <1>4, <1>5, <2>1, <3>2, CountType
      <4>. QED
        BY <3>2, <4>1
    <3>. QED
      BY <3>1, <3>2
  <2>. QED
    BY <2>2, <2>3
<1>. QED
  BY <1>3, <1>6, <1>7

----------------------------------------------------------------------------
\* A node more

ListedIn(ns) ==
    /\ \A i \in 1 .. Len(ns) : ns[i].parent \in 0 .. Len(ns)
    /\ Listed(Len(ns), LabelsOf(ns), ParentsOf(ns), ChildrenOf(ns))

\* The same, node by node.
LEMMA ListedHere ==
    ASSUME NEW ns \in Nodes
    PROVE  ListedIn(ns) <=>
              /\ \A i \in 1 .. Len(ns) : ns[i].parent \in 0 .. Len(ns)
              /\ \A i \in 1 .. Len(ns) :
                    /\ DOMAIN ns[i].children \subseteq Labels
                    /\ \A l \in DOMAIN ns[i].children :
                          /\ ns[i].children[l] \in 1 .. Len(ns)
                          /\ ns[ns[i].children[l]].label = l
                          /\ ns[ns[i].children[l]].parent = i
              /\ \A i \in 1 .. Len(ns) :
                    ns[i].parent # 0 => ns[i].label \in DOMAIN ns[ns[i].parent].children
<1>. DEFINE n == Len(ns)
<1>1. /\ n \in Nat
      /\ \A i \in 1 .. n : /\ LabelsOf(ns)[i] = ns[i].label /\ ParentsOf(ns)[i] = ns[i].parent
                            /\ ChildrenOf(ns)[i] = ns[i].children
  BY DEF Nodes, LabelsOf, ParentsOf, ChildrenOf
<1>2. \A i \in 1 .. n : \A l \in DOMAIN ns[i].children :
         ns[i].children[l] \in 1 .. n =>
            /\ LabelsOf(ns)[ns[i].children[l]] = ns[ns[i].children[l]].label
            /\ ParentsOf(ns)[ns[i].children[l]] = ns[ns[i].children[l]].parent
  BY <1>1
<1>3. \A i \in 1 .. n : ns[i].parent \in 0 .. n /\ ns[i].parent # 0 => ns[i].parent \in 1 .. n
  BY <1>1
<1>. HIDE DEF n
<1>4. ASSUME ListedIn(ns)
      PROVE  /\ \A i \in 1 .. n : ns[i].parent \in 0 .. n
             /\ \A i \in 1 .. n :
                    /\ DOMAIN ns[i].children \subseteq Labels
                    /\ \A l \in DOMAIN ns[i].children :
                          /\ ns[i].children[l] \in 1 .. n
                          /\ ns[ns[i].children[l]].label = l
                          /\ ns[ns[i].children[l]].parent = i
             /\ \A i \in 1 .. n :
                    ns[i].parent # 0 => ns[i].label \in DOMAIN ns[ns[i].parent].children
  <2>1. /\ \A i \in 1 .. n : ns[i].parent \in 0 .. n
        /\ Listed(n, LabelsOf(ns), ParentsOf(ns), ChildrenOf(ns))
    BY <1>4 DEF ListedIn, n
  <2>. QED
    BY <1>1, <1>2, <1>3, <2>1 DEF Listed
<1>5. ASSUME /\ \A i \in 1 .. n : ns[i].parent \in 0 .. n
             /\ \A i \in 1 .. n :
                    /\ DOMAIN ns[i].children \subseteq Labels
                    /\ \A l \in DOMAIN ns[i].children :
                          /\ ns[i].children[l] \in 1 .. n
                          /\ ns[ns[i].children[l]].label = l
                          /\ ns[ns[i].children[l]].parent = i
             /\ \A i \in 1 .. n :
                    ns[i].parent # 0 => ns[i].label \in DOMAIN ns[ns[i].parent].children
      PROVE  ListedIn(ns)
  <2>1. Listed(n, LabelsOf(ns), ParentsOf(ns), ChildrenOf(ns))
    BY <1>1, <1>2, <1>3, <1>5 DEF Listed
  <2>. QED
    BY <1>5, <2>1 DEF ListedIn, n
<1>. QED
  BY <1>4, <1>5 DEF n

LEMMA ListedGrows ==
    ASSUME NEW ns \in Nodes, NEW rs, NEW l \in Labels, NEW p \in 0 .. Len(ns),
           Grown(ns, rs, l, p), ListedIn(ns)
    PROVE  ListedIn(rs)
<1>. DEFINE n == Len(ns)
<1>0. n \in Nat /\ rs \in Nodes /\ Len(rs) = n + 1
  BY DEF Grown, Nodes
<1>1. /\ \A i \in 1 .. n : rs[i].label = ns[i].label /\ rs[i].parent = ns[i].parent
      /\ rs[n + 1].label = l /\ rs[n + 1].parent = p /\ rs[n + 1].children = <<>>
      /\ DOMAIN rs[n + 1].children = {}
  BY DEF Grown
<1>2. ASSUME NEW i \in 1 .. n
      PROVE  /\ DOMAIN rs[i].children = DOMAIN ns[i].children \cup (IF i = p THEN {l} ELSE {})
             /\ \A x \in DOMAIN rs[i].children :
                   rs[i].children[x] = IF i = p /\ x = l THEN n + 1 ELSE ns[i].children[x]
  <2>1. CASE i = p
    <3>1. p # 0
      BY <2>1
    <3>2. rs[i].children = [x \in DOMAIN ns[i].children \cup {l} |->
                              IF x = l THEN n + 1 ELSE ns[i].children[x]]
      BY <2>1, <3>1 DEF Grown
    <3>. QED
      BY <2>1, <3>2
  <2>2. CASE i # p
    BY <2>2 DEF Grown
  <2>. QED
    BY <2>1, <2>2
<1>3. /\ \A i \in 1 .. n : ns[i].parent \in 0 .. n
      /\ \A i \in 1 .. n :
            /\ DOMAIN ns[i].children \subseteq Labels
            /\ \A x \in DOMAIN ns[i].children :
                  /\ ns[i].children[x] \in 1 .. n
                  /\ ns[ns[i].children[x]].label = x
                  /\ ns[ns[i].children[x]].parent = i
      /\ \A i \in 1 .. n :
            ns[i].parent # 0 => ns[i].label \in DOMAIN ns[ns[i].parent].children
  BY ListedHere
<1>4. \A i \in 1 .. n + 1 : i \in 1 .. n \/ i = n + 1
  BY <1>0
<1>5. 1 .. n \subseteq 1 .. n + 1 /\ n + 1 \in 1 .. n + 1 /\ 0 .. n \subseteq 0 .. n + 1
  BY <1>0
<1>6. p \in 0 .. n /\ (p # 0 => p \in 1 .. n)
  BY <1>0
<1>7. \A i \in 1 .. n : ns[i].parent # 0 => ns[i].parent \in 1 .. n
  BY <1>0, <1>3
<1>. HIDE DEF n
<1>8. \A i \in 1 .. n + 1 : rs[i].parent \in 0 .. n + 1
  BY <1>1, <1>3, <1>4, <1>5, <1>6
<1>9. ASSUME NEW i \in 1 .. n + 1
      PROVE  /\ DOMAIN rs[i].children \subseteq Labels
             /\ \A x \in DOMAIN rs[i].children :
                   /\ rs[i].children[x] \in 1 .. n + 1
                   /\ rs[rs[i].children[x]].label = x
                   /\ rs[rs[i].children[x]].parent = i
  <2>1. CASE i = n + 1
    BY <1>1, <2>1
  <2>2. CASE i \in 1 .. n
    <3>1. DOMAIN rs[i].children \subseteq Labels
      BY <1>2, <1>3, <2>2
    <3>2. ASSUME NEW x \in DOMAIN rs[i].children
          PROVE  /\ rs[i].children[x] \in 1 .. n + 1
                 /\ rs[rs[i].children[x]].label = x
                 /\ rs[rs[i].children[x]].parent = i
      <4>1. CASE i = p /\ x = l
        BY <1>1, <1>2, <1>5, <2>2, <4>1
      <4>2. CASE ~ (i = p /\ x = l)
        <5>1. x \in DOMAIN ns[i].children /\ rs[i].children[x] = ns[i].children[x]
          BY <1>2, <2>2, <4>2
        <5>. QED
          BY <1>1, <1>3, <1>5, <2>2, <5>1
      <4>. QED
        BY <4>1, <4>2
    <3>. QED
      BY <3>1, <3>2
  <2>. QED
    BY <1>4, <2>1, <2>2
<1>10. ASSUME NEW i \in 1 .. n + 1, rs[i].parent # 0
       PROVE  rs[i].label \in DOMAIN rs[rs[i].parent].children
  <2>1. CASE i = n + 1
    BY <1>1, <1>2, <1>6, <1>10, <2>1
  <2>2. CASE i \in 1 .. n
    BY <1>1, <1>2, <1>3, <1>7, <1>10, <2>2
  <2>. QED
    BY <1>4, <2>1, <2>2
<1>. QED
  BY <1>0, <1>8, <1>9, <1>10, ListedHere

LEMMA SeqOfThese ==
    ASSUME NEW S, NEW T, NEW s \in Seq(T), \A k \in 1 .. Len(s) : s[k] \in S
    PROVE  s \in Seq(S)
<1>1. Len(s) \in Nat /\ s \in [1 .. Len(s) -> T]
  BY LenProperties
<1>2. s \in [1 .. Len(s) -> S]
  BY <1>1
<1>. QED
  BY <1>1, <1>2, SeqDef

LinkedIn(ns) == Linked(Len(ns), ParentsOf(ns), NbrsOf(ns))

LEMMA LinkedHere ==
    ASSUME NEW ns \in Nodes
    PROVE  LinkedIn(ns) <=>
              /\ \A i \in 1 .. Len(ns) : ns[i].nbrs \in Seq(1 .. Len(ns))
              /\ \A i, j \in 1 .. Len(ns) :
                    /\ Count(ns[i].nbrs, j) = Count(ns[j].nbrs, i)
                    /\ Count(ns[i].nbrs, j) > 0 => ns[i].parent = ns[j].parent /\ ns[i].parent # 0
<1>. DEFINE n == Len(ns)
<1>1. n \in Nat /\ \A i \in 1 .. n : ParentsOf(ns)[i] = ns[i].parent /\ NbrsOf(ns)[i] = ns[i].nbrs
  BY DEF Nodes, NbrsOf, ParentsOf
<1>2. NbrsOf(ns) \in [1 .. n -> Seq(1 .. n)] <=> \A i \in 1 .. n : ns[i].nbrs \in Seq(1 .. n)
  BY DEF NbrsOf
<1>. HIDE DEF n
<1>3. LinkedIn(ns) <=> Linked(n, ParentsOf(ns), NbrsOf(ns))
  BY DEF LinkedIn, n
<1>4. LinkedIn(ns) <=>
              /\ \A i \in 1 .. n : ns[i].nbrs \in Seq(1 .. n)
              /\ \A i, j \in 1 .. n :
                    /\ Count(ns[i].nbrs, j) = Count(ns[j].nbrs, i)
                    /\ Count(ns[i].nbrs, j) > 0 => ns[i].parent = ns[j].parent /\ ns[i].parent # 0
  <2>1. \A i, j \in 1 .. n : /\ Count(NbrsOf(ns)[i], j) = Count(ns[i].nbrs, j)
                             /\ Count(NbrsOf(ns)[j], i) = Count(ns[j].nbrs, i)
                             /\ ParentsOf(ns)[i] = ns[i].parent /\ ParentsOf(ns)[j] = ns[j].parent
    BY <1>1
  <2>2. Linked(n, ParentsOf(ns), NbrsOf(ns)) <=>
           /\ NbrsOf(ns) \in [1 .. n -> Seq(1 .. n)]
           /\ \A i, j \in 1 .. n :
                 /\ Count(ns[i].nbrs, j) = Count(ns[j].nbrs, i)
                 /\ Count(ns[i].nbrs, j) > 0 => ns[i].parent = ns[j].parent /\ ns[i].parent # 0
    BY <2>1 DEF Linked
  <2>. QED
    BY <1>2, <1>3, <2>2
<1>. QED
  BY <1>4 DEF n

LEMMA CountNone ==
    ASSUME NEW s \in Seq(Nat), NEW y, \A k \in 1 .. Len(s) : s[k] # y
    PROVE  Count(s, y) = 0
<1>1. Count(s, y) \in Nat /\ ~ (Count(s, y) > 0)
  BY CountType
<1>. QED
  BY <1>1

LEMMA LinkedGrows ==
    ASSUME NEW ns \in Nodes, NEW rs, NEW l \in Labels, NEW p \in 0 .. Len(ns),
           Grown(ns, rs, l, p), LinkedIn(ns)
    PROVE  LinkedIn(rs)
<1>. DEFINE n == Len(ns)
<1>0. n \in Nat /\ rs \in Nodes /\ Len(rs) = n + 1
  BY DEF Grown, Nodes
<1>1. /\ \A i \in 1 .. n : rs[i].nbrs = ns[i].nbrs /\ rs[i].parent = ns[i].parent
      /\ rs[n + 1].nbrs = <<>>
  BY DEF Grown
<1>2. /\ \A i \in 1 .. n : ns[i].nbrs \in Seq(1 .. n)
      /\ \A i, j \in 1 .. n :
            /\ Count(ns[i].nbrs, j) = Count(ns[j].nbrs, i)
            /\ Count(ns[i].nbrs, j) > 0 => ns[i].parent = ns[j].parent /\ ns[i].parent # 0
  BY LinkedHere
<1>3. \A i \in 1 .. n + 1 : i \in 1 .. n \/ i = n + 1
  BY <1>0
<1>4. /\ 1 .. n \subseteq 1 .. n + 1 /\ 1 .. n \subseteq Nat
      /\ n + 1 \notin 1 .. n /\ <<>> \in Seq(Nat) /\ <<>> \in Seq(1 .. n + 1)
      /\ 1 .. Len(<<>>) = {}
  BY <1>0
<1>5. \A s \in Seq(1 .. n) : s \in Seq(1 .. n + 1) /\ s \in Seq(Nat) /\ \A k \in 1 .. Len(s) : s[k] # n + 1
  BY <1>0, <1>4
<1>. HIDE DEF n
<1>6. \A i \in 1 .. n : Count(rs[i].nbrs, n + 1) = 0
  BY <1>1, <1>2, <1>5, CountNone
<1>7. \A j : Count(rs[n + 1].nbrs, j) = 0
  BY <1>1, <1>4, CountNone
<1>8. \A i \in 1 .. n + 1 : rs[i].nbrs \in Seq(1 .. n + 1)
  BY <1>1, <1>2, <1>3, <1>4, <1>5
<1>9. ASSUME NEW i \in 1 .. n + 1, NEW j \in 1 .. n + 1
      PROVE  /\ Count(rs[i].nbrs, j) = Count(rs[j].nbrs, i)
             /\ Count(rs[i].nbrs, j) > 0 => rs[i].parent = rs[j].parent /\ rs[i].parent # 0
  <2>1. CASE i \in 1 .. n /\ j \in 1 .. n
    BY <1>1, <1>2, <2>1
  <2>2. CASE i = n + 1
    BY <1>3, <1>6, <1>7, <2>2
  <2>3. CASE j = n + 1
    BY <1>3, <1>6, <1>7, <2>3
  <2>. QED
    BY <1>3, <2>1, <2>2, <2>3
<1>. QED
  BY <1>0, <1>8, <1>9, LinkedHere

LEMMA LinkedRewired ==
    ASSUME NEW ns \in Nodes, NEW a \in 1 .. Len(ns), NEW b \in 1 .. Len(ns),
           LinkedIn(ns), ns[a].parent = ns[b].parent, ns[a].parent # 0
    PROVE  LinkedIn(BiLinkEx(ns, a, b))
<1>. DEFINE n == Len(ns)
<1>0. n \in Nat /\ a \in Nat /\ b \in Nat /\ 1 .. n \subseteq Nat
  BY DEF Nodes
<1>1. PICK rs : rs = BiLinkEx(ns, a, b)
  OBVIOUS
<1>2. /\ Rewired(ns, rs)
      /\ \A i \in 1 .. n, j \in Nat :
            Count(rs[i].nbrs, j) = Count(ns[i].nbrs, j) + (IF i = a /\ j = b THEN 1 ELSE 0)
                                                        + (IF i = b /\ j = a THEN 1 ELSE 0)
  BY <1>0, <1>1, TwoLinks
<1>3. rs \in Nodes /\ Len(rs) = n /\ \A i \in 1 .. n : rs[i].parent = ns[i].parent
  BY <1>2 DEF Rewired
<1>4. /\ \A i \in 1 .. n : ns[i].nbrs \in Seq(1 .. n)
      /\ \A i, j \in 1 .. n :
            /\ Count(ns[i].nbrs, j) = Count(ns[j].nbrs, i)
            /\ Count(ns[i].nbrs, j) > 0 => ns[i].parent = ns[j].parent /\ ns[i].parent # 0
  BY LinkedHere
<1>5. \A i \in 1 .. n : rs[i].nbrs \in Seq(Nat) /\ ns[i].nbrs \in Seq(Nat)
  <2>1. \A i \in 1 .. n : rs[i] \in NodeRec /\ ns[i] \in NodeRec
    BY <1>3 DEF Nodes
  <2>. QED
    BY <2>1 DEF NodeRec
<1>6. \A i \in 1 .. n, j \in Nat : Count(ns[i].nbrs, j) \in Nat
  BY <1>5, CountType
<1>. HIDE DEF n
<1>7. ASSUME NEW i \in 1 .. n PROVE rs[i].nbrs \in Seq(1 .. n)
  <2>1. PICK s : s = rs[i].nbrs
    OBVIOUS
  <2>2. PICK q : q = ns[i].nbrs
    OBVIOUS
  <2>3. s \in Seq(Nat) /\ q \in Seq(Nat) /\ q \in Seq(1 .. n)
    BY <1>4, <1>5, <2>1, <2>2
  <2>4. ASSUME NEW k \in 1 .. Len(s), s[k] \notin 1 .. n PROVE FALSE
    <3>1. PICK x : x = s[k]
      OBVIOUS
    <3>2. x \in Nat /\ x # a /\ x # b
      BY <2>3, <2>4, <3>1 DEF n
    <3>3. Count(s, x) > 0
      BY <2>3, <3>1, CountType
    <3>4. Count(s, x) = Count(q, x) + 0 + 0
      BY <1>2, <2>1, <2>2, <3>2
    <3>5. Count(q, x) \in Nat
      BY <2>3, CountType
    <3>6. Count(q, x) > 0
      BY <3>3, <3>4, <3>5
    <3>7. PICK h \in 1 .. Len(q) : q[h] = x
      BY <2>3, <3>6, CountType
    <3>8. q[h] \in 1 .. n
      BY <2>3, ElementOfSeq
    <3>. QED
      BY <2>4, <3>1, <3>7, <3>8
  <2>5. s \in Seq(1 .. n)
    <3>1. \A k \in 1 .. Len(s) : s[k] \in 1 .. n
      BY <2>4
    <3>. QED
      BY <2>3, <3>1, SeqOfThese
  <2>. QED
    BY <2>1, <2>5
<1>8. ASSUME NEW i \in 1 .. n, NEW j \in 1 .. n
      PROVE  /\ Count(rs[i].nbrs, j) = Count(rs[j].nbrs, i)
             /\ Count(rs[i].nbrs, j) > 0 => rs[i].parent = rs[j].parent /\ rs[i].parent # 0
  <2>. DEFINE c == Count(ns[i].nbrs, j)
              e == IF i = a /\ j = b THEN 1 ELSE 0
              f == IF i = b /\ j = a THEN 1 ELSE 0
  <2>1. c \in Nat /\ c = Count(ns[j].nbrs, i) /\ e \in {0, 1} /\ f \in {0, 1}
    BY <1>0, <1>4, <1>6
  <2>2. Count(rs[i].nbrs, j) = c + e + f
    BY <1>0, <1>2
  <2>3. Count(rs[j].nbrs, i) = c + f + e
    BY <1>0, <1>2, <2>1
  <2>4. c > 0 => ns[i].parent = ns[j].parent /\ ns[i].parent # 0
    BY <1>4
  <2>5. e = 1 \/ f = 1 => ns[i].parent = ns[j].parent /\ ns[i].parent # 0
    OBVIOUS
  <2>. HIDE DEF c, e, f
  <2>6. Count(rs[i].nbrs, j) = Count(rs[j].nbrs, i)
    BY <2>1, <2>2, <2>3
  <2>7. Count(rs[i].nbrs, j) > 0 => c > 0 \/ e = 1 \/ f = 1
    BY <2>1, <2>2
  <2>. QED
    BY <1>3, <2>4, <2>5, <2>6, <2>7
<1>9. LinkedIn(rs)
  BY <1>3, <1>7, <1>8, LinkedHere
<1>. QED
  BY <1>1, <1>9

PlacedIn(ns) == Placed(Len(ns), LabelsOf(ns), ParentsOf(ns))

LEMMA PlacedGrows ==
    ASSUME NEW ns \in Nodes, NEW rs, NEW l \in Labels, NEW p \in Roots,
           Grown(ns, rs, l, p), PlacedIn(ns),
           l = Settled(l.word), l.word \in Words,
           Faithful(l) => \A i \in 1 .. Len(ns) : ~ (ns[i].label = l /\ ns[i].parent = p)
    PROVE  PlacedIn(rs)
<1>. DEFINE n == Len(ns)
            label == LabelsOf(ns)
            parent == ParentsOf(ns)
            labels == LabelsOf(rs)
            parents == ParentsOf(rs)
<1>0. n \in Nat /\ rs \in Nodes /\ Len(rs) = n + 1
  BY DEF Grown, Nodes
<1>1. /\ \A i \in 1 .. n : labels[i] = label[i] /\ parents[i] = parent[i]
      /\ labels[n + 1] = l /\ parents[n + 1] = p
      /\ \A i \in 1 .. n : label[i] = ns[i].label /\ parent[i] = ns[i].parent
      /\ DOMAIN labels = 1 .. n + 1 /\ DOMAIN parents = 1 .. n + 1
      /\ labels = [i \in 1 .. n + 1 |-> labels[i]] /\ parents = [i \in 1 .. n + 1 |-> parents[i]]
  <2>1. /\ \A i \in 1 .. n : rs[i].label = ns[i].label /\ rs[i].parent = ns[i].parent
        /\ rs[n + 1].label = l /\ rs[n + 1].parent = p
    BY DEF Grown
  <2>2. n + 1 \in 1 .. n + 1 /\ 1 .. n \subseteq 1 .. n + 1
    BY <1>0
  <2>. QED
    BY <1>0, <2>1, <2>2 DEF LabelsOf, ParentsOf
<1>2. Placed(n, label, parent)
  BY DEF PlacedIn
<1>. HIDE DEF label, parent, labels, parents
<1>3. Faithful(l) => \A i \in 1 .. n : ~ (label[i] = l /\ parent[i] = p)
  BY <1>1
<1>. HIDE DEF n
<1>4. /\ n >= Len(Context) /\ label \in [1 .. n -> Labels] /\ parent \in [1 .. n -> 0 .. n]
      /\ \A i \in Roots : label[i] = Settled(Context[i]) /\ parent[i] = 0
      /\ \A i \in 1 .. n : i \notin Roots => parent[i] \in Roots /\ label[i].word \in Words
      /\ \A i \in 1 .. n : label[i] = Settled(label[i].word)
      /\ \A i, j \in 1 .. n :
            Faithful(label[i]) /\ label[i] = label[j] /\ parent[i] = parent[j] => i = j
  BY <1>2 DEF Placed
<1>5. Len(Context) \in Nat
  BY GraphAssumption
<1>6. /\ \A i \in 1 .. n + 1 : i \in 1 .. n \/ i = n + 1
      /\ Roots \subseteq 1 .. n /\ 1 .. n \subseteq 1 .. n + 1 /\ n + 1 \notin 1 .. n
      /\ 0 .. n \subseteq 0 .. n + 1 /\ p \in 0 .. n + 1 /\ n + 1 \in Nat /\ n + 1 >= Len(Context)
  BY <1>0, <1>4, <1>5 DEF Roots
<1>7. labels \in [1 .. n + 1 -> Labels] /\ parents \in [1 .. n + 1 -> 0 .. n + 1]
  <2>1. \A i \in 1 .. n + 1 : labels[i] \in Labels /\ parents[i] \in 0 .. n + 1
    BY <1>1, <1>4, <1>6
  <2>. QED
    BY <1>1, <2>1
<1>8. \A i \in Roots : labels[i] = Settled(Context[i]) /\ parents[i] = 0
  BY <1>1, <1>4, <1>6
<1>9. \A i \in 1 .. n + 1 : i \notin Roots => parents[i] \in Roots /\ labels[i].word \in Words
  BY <1>1, <1>4, <1>6
<1>10. \A i \in 1 .. n + 1 : labels[i] = Settled(labels[i].word)
  BY <1>1, <1>4, <1>6
<1>11. ASSUME NEW i \in 1 .. n + 1, NEW j \in 1 .. n + 1,
              Faithful(labels[i]), labels[i] = labels[j], parents[i] = parents[j]
       PROVE  i = j
  <2>1. CASE i \in 1 .. n /\ j \in 1 .. n
    BY <1>1, <1>4, <1>11, <2>1
  <2>2. CASE i = n + 1 /\ j \in 1 .. n
    BY <1>1, <1>3, <1>11, <2>2
  <2>3. CASE j = n + 1 /\ i \in 1 .. n
    BY <1>1, <1>3, <1>11, <2>3
  <2>. QED
    BY <1>6, <2>1, <2>2, <2>3
<1>. QED
  <2>1. Placed(n + 1, labels, parents)
    BY <1>6, <1>7, <1>8, <1>9, <1>10, <1>11 DEF Placed
  <2>. QED
    BY <1>0, <2>1 DEF PlacedIn, labels, parents

----------------------------------------------------------------------------
\* What is said

LEMMA IntactParts ==
    ASSUME NEW ns \in Nodes
    PROVE  Intact(ns) <=> PlacedIn(ns) /\ ListedIn(ns) /\ LinkedIn(ns)
<1>1. PlacedIn(ns) => \A i \in 1 .. Len(ns) : ns[i].parent \in 0 .. Len(ns)
  BY DEF PlacedIn, Placed, ParentsOf
<1>. QED
  BY <1>1 DEF Intact, PlacedIn, ListedIn, LinkedIn

\* Node by node.
LEMMA PlacedHere ==
    ASSUME NEW ns \in Nodes, PlacedIn(ns)
    PROVE  /\ Len(ns) \in Nat /\ Len(ns) >= Len(Context) /\ Roots \subseteq 1 .. Len(ns)
           /\ \A i \in 1 .. Len(ns) : /\ ns[i].label \in Labels
                                      /\ ns[i].parent \in 0 .. Len(ns)
                                      /\ ns[i].label = Settled(ns[i].label.word)
                                      /\ i \notin Roots => /\ ns[i].parent \in Roots
                                                           /\ ns[i].label.word \in Words
           /\ \A i \in Roots : ns[i].label = Settled(Context[i]) /\ ns[i].parent = 0
           /\ \A i, j \in 1 .. Len(ns) :
                 Faithful(ns[i].label) /\ ns[i].label = ns[j].label /\ ns[i].parent = ns[j].parent
                 => i = j
<1>. DEFINE n == Len(ns)
<1>1. n \in Nat
  BY DEF Nodes
<1>2. \A i \in 1 .. n : LabelsOf(ns)[i] = ns[i].label /\ ParentsOf(ns)[i] = ns[i].parent
  BY DEF LabelsOf, ParentsOf
<1>3. Placed(n, LabelsOf(ns), ParentsOf(ns))
  BY DEF PlacedIn
<1>4. Len(Context) \in Nat
  BY GraphAssumption
<1>. HIDE DEF n
<1>5. n >= Len(Context) /\ Roots \subseteq 1 .. n
  BY <1>1, <1>3, <1>4 DEF Placed, Roots
<1>6. \A i \in 1 .. n : /\ ns[i].label \in Labels
                        /\ ns[i].parent \in 0 .. n
                        /\ ns[i].label = Settled(ns[i].label.word)
                        /\ i \notin Roots => /\ ns[i].parent \in Roots
                                             /\ ns[i].label.word \in Words
  BY <1>2, <1>3 DEF Placed
<1>7. \A i \in Roots : ns[i].label = Settled(Context[i]) /\ ns[i].parent = 0
  BY <1>2, <1>3, <1>5 DEF Placed
<1>8. \A i, j \in 1 .. n :
         Faithful(ns[i].label) /\ ns[i].label = ns[j].label /\ ns[i].parent = ns[j].parent => i = j
  <2>. SUFFICES ASSUME NEW i \in 1 .. n, NEW j \in 1 .. n, Faithful(ns[i].label),
                       ns[i].label = ns[j].label, ns[i].parent = ns[j].parent
                PROVE  i = j
    BY DEF Faithful
  <2>1. /\ Faithful(LabelsOf(ns)[i]) /\ LabelsOf(ns)[i] = LabelsOf(ns)[j]
        /\ ParentsOf(ns)[i] = ParentsOf(ns)[j]
    BY <1>2 DEF Faithful
  <2>2. \A x, y \in 1 .. n :
           Faithful(LabelsOf(ns)[x]) /\ LabelsOf(ns)[x] = LabelsOf(ns)[y]
           /\ ParentsOf(ns)[x] = ParentsOf(ns)[y] => x = y
    BY <1>3 DEF Placed, Faithful
  <2>. QED
    BY <2>1, <2>2
<1>. QED
  BY <1>1, <1>5, <1>6, <1>7, <1>8 DEF n

\* FindNode leads to the node of the name, if there is one.
LEMMA Found ==
    ASSUME NEW ns \in Nodes, Intact(ns), NEW name \in Labels, NEW c \in Roots
    PROVE  \/ /\ FindNode(ns, name, c) = 0
              /\ \A i \in 1 .. Len(ns) : ~ (ns[i].label = lowerAll(name) /\ ns[i].parent = c)
           \/ /\ FindNode(ns, name, c) \in 1 .. Len(ns) /\ FindNode(ns, name, c) # 0
              /\ ns[FindNode(ns, name, c)].label = lowerAll(name)
              /\ ns[FindNode(ns, name, c)].parent = c
<1>1. PlacedIn(ns) /\ ListedIn(ns)
  BY IntactParts
<1>2. c \in 1 .. Len(ns) /\ c # 0 /\ Len(ns) \in Nat
  BY <1>1, PlacedHere DEF Roots
<1>3. /\ \A i \in 1 .. Len(ns) : ns[i].parent \in 0 .. Len(ns)
      /\ \A i \in 1 .. Len(ns) :
            /\ DOMAIN ns[i].children \subseteq Labels
            /\ \A l \in DOMAIN ns[i].children :
                  /\ ns[i].children[l] \in 1 .. Len(ns)
                  /\ ns[ns[i].children[l]].label = l
                  /\ ns[ns[i].children[l]].parent = i
      /\ \A i \in 1 .. Len(ns) :
            ns[i].parent # 0 => ns[i].label \in DOMAIN ns[ns[i].parent].children
  BY <1>1, ListedHere
<1>4. CASE lowerAll(name) \in DOMAIN ns[c].children
  BY <1>2, <1>3, <1>4 DEF FindNode
<1>5. CASE lowerAll(name) \notin DOMAIN ns[c].children
  BY <1>2, <1>3, <1>5 DEF FindNode
<1>. QED
  BY <1>4, <1>5

LEMMA WordLabel ==
    ASSUME NEW w \in Words \cup Contexts
    PROVE  /\ Label(w) \in Labels /\ lowerAll(Label(w)) \in Labels
           /\ lowerAll(Kept(lowerAll(Label(w)))) = Settled(w)
           /\ Settled(w) \in Labels /\ Settled(w).word = w
           /\ Faithful(Settled(w)) => Settled(w) = lowerAll(Label(w))
           /\ w \in Contexts => Settled(w) = Label(w) /\ lowerAll(Kept(Label(w))) = Settled(w)
           /\ lowerAll(Settled(w)) = Settled(w) /\ Kept(Settled(w)) = Settled(w)
<1>1. Settles[w] \in 0 .. 2 /\ (w \in Contexts => Settles[w] = 0 /\ w \notin LongWords)
  BY GraphAssumption
<1>2. PICK e : e = Settles[w]
  OBVIOUS
<1>3. e = 0 \/ e = 1 \/ e = 2
  BY <1>1, <1>2
<1>. DEFINE R(k, z) == [word |-> w, low |-> k, cut |-> z]
            q == IF w \in LongWords THEN TRUE ELSE FALSE
<1>4. Label(w) = R(0, FALSE) /\ Label(w) \in Labels
  BY DEF Label, Labels
<1>5. R(e, q) \in Labels /\ R(e, q).word = w
  BY <1>3 DEF Labels
<1>6. Settled(w) = R(e, q)
  <2>1. CASE w \in LongWords
    <3>1. (w \in LongWords) = TRUE /\ q = TRUE
      BY <2>1
    <3>. QED
      BY <1>2, <3>1 DEF Settled
  <2>2. CASE w \notin LongWords
    <3>1. (w \in LongWords) = FALSE /\ q = FALSE
      BY <2>2
    <3>. QED
      BY <1>2, <3>1 DEF Settled
  <2>. QED
    BY <2>1, <2>2
<1>7. \A z : /\ e = 0 => lowerAll(R(0, z)) = R(0, z)
             /\ e = 1 => lowerAll(R(0, z)) = R(1, z) /\ lowerAll(R(1, z)) = R(1, z)
             /\ e = 2 => lowerAll(R(0, z)) = R(1, z) /\ lowerAll(R(1, z)) = R(2, z)
                         /\ lowerAll(R(2, z)) = R(2, z)
  <2>. SUFFICES ASSUME NEW z
                PROVE  /\ e = 0 => lowerAll(R(0, z)) = R(0, z)
                       /\ e = 1 => lowerAll(R(0, z)) = R(1, z) /\ lowerAll(R(1, z)) = R(1, z)
                       /\ e = 2 => lowerAll(R(0, z)) = R(1, z) /\ lowerAll(R(1, z)) = R(2, z)
                                   /\ lowerAll(R(2, z)) = R(2, z)
    OBVIOUS
  <2>1. \A k \in 0 .. 2 : lowerAll(R(k, z)) =
                            IF k < e THEN [R(k, z) EXCEPT !.low = k + 1] ELSE R(k, z)
    BY <1>2 DEF lowerAll
  <2>2. \A k : [R(k, z) EXCEPT !.low = k + 1] = R(k + 1, z)
    OBVIOUS
  <2>. HIDE DEF R
  <2>3. \A k \in 0 .. 2 : lowerAll(R(k, z)) = IF k < e THEN R(k + 1, z) ELSE R(k, z)
    BY <2>1, <2>2
  <2>4. CASE e = 0
    BY <2>3, <2>4
  <2>5. CASE e = 1
    BY <2>3, <2>5
  <2>6. CASE e = 2
    BY <2>3, <2>6
  <2>. QED
    BY <1>3, <2>4, <2>5, <2>6
<1>8. \A k : Kept(R(k, FALSE)) = R(k, q) /\ Kept(R(k, q)) = R(k, q)
  <2>1. CASE w \in LongWords
    <3>1. \A k, z : Kept(R(k, z)) = R(k, TRUE)
      BY <2>1 DEF Kept
    <3>. QED
      BY <2>1, <3>1
  <2>2. CASE w \notin LongWords
    <3>1. \A k, z : Kept(R(k, z)) = R(k, z)
      BY <2>2 DEF Kept
    <3>. QED
      BY <2>2, <3>1
  <2>. QED
    BY <2>1, <2>2
<1>9. (e <= 1 /\ w \notin LongWords) \/ ~ Faithful(R(e, q))
  BY <1>2 DEF Faithful
<1>10. w \notin LongWords => q = FALSE
  OBVIOUS
<1>. HIDE DEF R, q
<1>11. e = 0 \/ e = 1 \/ e = 2
  BY <1>3
<1>12. lowerAll(Kept(lowerAll(Label(w)))) = Settled(w)
  <2>1. CASE e = 0
    BY <1>4, <1>6, <1>7, <1>8, <2>1
  <2>2. CASE e = 1
    BY <1>4, <1>6, <1>7, <1>8, <2>2
  <2>3. CASE e = 2
    BY <1>4, <1>6, <1>7, <1>8, <2>3
  <2>. QED
    BY <1>11, <2>1, <2>2, <2>3
<1>13. lowerAll(Settled(w)) = Settled(w) /\ Kept(Settled(w)) = Settled(w)
  BY <1>6, <1>7, <1>8, <1>11
<1>14. Faithful(Settled(w)) => Settled(w) = lowerAll(Label(w))
  <2>. SUFFICES ASSUME Faithful(Settled(w)) PROVE Settled(w) = lowerAll(Label(w))
    OBVIOUS
  <2>1. e <= 1 /\ q = FALSE
    BY <1>6, <1>9, <1>10
  <2>2. e = 0 \/ e = 1
    BY <1>3, <2>1
  <2>. QED
    BY <1>4, <1>6, <1>7, <2>1, <2>2
<1>15. w \in Contexts => Settled(w) = Label(w) /\ lowerAll(Kept(Label(w))) = Settled(w)
  <2>. SUFFICES ASSUME w \in Contexts
                PROVE  Settled(w) = Label(w) /\ lowerAll(Kept(Label(w))) = Settled(w)
    OBVIOUS
  <2>1. e = 0 /\ q = FALSE
    BY <1>1, <1>2, <1>10
  <2>. QED
    BY <1>4, <1>6, <1>13, <2>1
<1>16. lowerAll(Label(w)) \in Labels
  BY <1>4, Lowered
<1>. QED
  BY <1>4, <1>5, <1>6, <1>12, <1>13, <1>14, <1>15, <1>16

LEMMA WordAdded ==
    ASSUME NEW ns \in Nodes, Intact(ns), NEW w \in Words, NEW c \in Roots
    PROVE  AddNodeFromEntry(ns, w, c) \in Nodes /\ Intact(AddNodeFromEntry(ns, w, c))
<1>1. CASE FindNode(ns, Label(w), c) # 0
  BY <1>1 DEF AddNodeFromEntry
<1>2. CASE FindNode(ns, Label(w), c) = 0
  <2>1. PICK l : l = Settled(w)
    OBVIOUS
  <2>2. /\ l \in Labels /\ l.word = w /\ lowerAll(Label(w)) \in Labels /\ Label(w) \in Labels
        /\ lowerAll(Kept(lowerAll(Label(w)))) = l
        /\ Faithful(l) => l = lowerAll(Label(w))
    BY <2>1, WordLabel
  <2>3. PlacedIn(ns) /\ ListedIn(ns) /\ LinkedIn(ns)
    BY IntactParts
  <2>4. c \in 0 .. Len(ns)
    <3>1. c \in 1 .. Len(ns)
      BY <2>3, PlacedHere
    <3>. QED
      BY <3>1
  <2>5. PICK rs : rs = AddNodeEx(ns, lowerAll(Label(w)), c)
    OBVIOUS
  <2>6. Grown(ns, rs, l, c) /\ rs = AddNodeFromEntry(ns, w, c)
    BY <1>2, <2>2, <2>4, <2>5, NodeAdded DEF AddNodeFromEntry
  <2>7. rs \in Nodes
    BY <2>6 DEF Grown
  <2>8. \A i \in 1 .. Len(ns) : ~ (ns[i].label = lowerAll(Label(w)) /\ ns[i].parent = c)
    BY <1>2, <2>2, Found
  <2>9. Faithful(l) => \A i \in 1 .. Len(ns) : ~ (ns[i].label = l /\ ns[i].parent = c)
    BY <2>2, <2>8
  <2>10. PlacedIn(rs)
    BY <2>1, <2>2, <2>3, <2>6, <2>9, PlacedGrows
  <2>11. ListedIn(rs) /\ LinkedIn(rs)
    BY <2>2, <2>3, <2>4, <2>6, ListedGrows, LinkedGrows
  <2>. QED
    BY <2>6, <2>7, <2>10, <2>11, IntactParts
<1>. QED
  BY <1>1, <1>2

LEMMA PairLinked ==
    ASSUME NEW ns \in Nodes, Intact(ns), NEW pair \in Words \X Words, NEW c \in Roots
    PROVE  ProcessArrayLinkage(ns, pair, c) \in Nodes /\ Intact(ProcessArrayLinkage(ns, pair, c))
<1>1. PICK a : a = FindNode(ns, Label(pair[1]), c)
  OBVIOUS
<1>2. PICK b : b = FindNode(ns, Label(pair[2]), c)
  OBVIOUS
<1>3. CASE a = 0 \/ b = 0 \/ LinkExists(ns, a, b)
  BY <1>1, <1>2, <1>3 DEF ProcessArrayLinkage
<1>4. CASE a # 0 /\ b # 0 /\ ~ LinkExists(ns, a, b)
  <2>1. PICK rs : rs = BiLinkEx(ns, a, b)
    OBVIOUS
  <2>2. ProcessArrayLinkage(ns, pair, c) = rs
    BY <1>1, <1>2, <1>4, <2>1 DEF ProcessArrayLinkage
  <2>3. Label(pair[1]) \in Labels /\ Label(pair[2]) \in Labels /\ c # 0
    BY WordLabel DEF Roots
  <2>4. /\ a \in 1 .. Len(ns) /\ b \in 1 .. Len(ns)
        /\ ns[a].parent = c /\ ns[b].parent = c
    BY <1>1, <1>2, <1>4, <2>3, Found
  <2>5. PlacedIn(ns) /\ ListedIn(ns) /\ LinkedIn(ns)
    BY IntactParts
  <2>6. LinkedIn(rs)
    BY <2>1, <2>3, <2>4, <2>5, LinkedRewired
  <2>7. Rewired(ns, rs)
    <3>1. a \in Nat /\ b \in Nat
      BY <2>4
    <3>. QED
      BY <2>1, <3>1, TwoLinks
  <2>8. LabelsOf(rs) = LabelsOf(ns) /\ ParentsOf(rs) = ParentsOf(ns) /\ ChildrenOf(rs) = ChildrenOf(ns)
        /\ Len(rs) = Len(ns) /\ rs \in Nodes
    BY <2>7 DEF Rewired, LabelsOf, ParentsOf, ChildrenOf
  <2>9. Intact(rs)
    BY <2>6, <2>8 DEF Intact, LinkedIn
  <2>. QED
    BY <2>2, <2>8, <2>9
<1>. QED
  BY <1>3, <1>4

Wholes == {ns \in Nodes : Intact(ns)}

\* What holds from turn to turn of a fold holds at its end: the names of an entry.
LEMMA WordTurns ==
    ASSUME NEW ns \in Wholes, NEW ws \in Seq(Words), NEW c \in Roots,
           NEW good, ns \in good[0],
           \A i \in 1 .. Len(ws) : \A v \in Wholes : v \in good[i - 1] => AddNodeFromEntry(v, ws[i], c) \in good[i]
    PROVE  AddNodesFromEntry(ns, ws, c) \in good[Len(ws)] \cap Wholes
<1>. DEFINE n == Len(ws)
            step == [i \in 1 .. n |-> [v \in Wholes |-> AddNodeFromEntry(v, ws[i], c)]]
            both == [i \in 0 .. n |-> good[i] \cap Wholes]
            Solves(f) == f = [s \in SUBSET DOMAIN ws |->
                                 IF s = {} THEN ns ELSE AddNodeFromEntry(f[s \ {Max(s)}], ws[Max(s)], c)]
            it == CHOOSE f : Solves(f)
<1>1. n \in Nat /\ DOMAIN ws = 1 .. n /\ \A i \in 1 .. n : ws[i] \in Words
  OBVIOUS
<1>2. AddNodesFromEntry(ns, ws, c) = it[1 .. n]
  BY <1>1 DEF AddNodesFromEntry, FoldLeft, MapThenFoldSet
<1>a. \A i \in 1 .. n : \A v \in Wholes : v \in good[i - 1] => AddNodeFromEntry(v, ws[i], c) \in good[i]
  OBVIOUS
<1>. HIDE DEF n
<1>3. \A v \in Wholes, i \in 1 .. n : AddNodeFromEntry(v, ws[i], c) \in Wholes
  BY <1>1, WordAdded DEF Wholes
<1>4. Solves(it)
  <2>1. step \in [1 .. n -> [Wholes -> Wholes]]
    BY <1>3
  <2>. HIDE DEF step, both, it
  <2>2. Turning(n, Wholes, ns, step)
    BY <1>1, <2>1 DEF Turning
  <2>. PICK f : Turned(n, Wholes, ns, step, f)
    BY <2>2, FoldSolved
  <2>3. ASSUME NEW s \in SUBSET (1 .. n), s # {}
        PROVE  f[s] = AddNodeFromEntry(f[s \ {Max(s)}], ws[Max(s)], c)
    <3>1. Max(s) \in 1 .. n /\ f[s \ {Max(s)}] \in Wholes
      BY <1>1, <2>3, GreatestOf DEF Turned
    <3>. QED
      BY <2>3, <3>1 DEF step, Turned
  <2>4. Solves(f)
    BY <1>1, <2>3 DEF Turned
  <2>. QED
    BY <2>4 DEF it
<1>. HIDE DEF it
<1>5. it[{}] = ns
  BY <1>1, <1>4
<1>6. ASSUME NEW i \in 1 .. n
      PROVE  it[1 .. i] = AddNodeFromEntry(it[1 .. (i - 1)], ws[i], c)
  <2>1. 1 .. i \in SUBSET (1 .. n) /\ 1 .. i # {} /\ Max(1 .. i) = i /\ (1 .. i) \ {i} = 1 .. (i - 1)
    BY <1>1, LastOf
  <2>. QED
    BY <1>1, <1>4, <2>1
<1>7. it[{}] \in both[0]
  BY <1>1, <1>5
<1>8. ASSUME NEW i \in 1 .. n, it[1 .. (i - 1)] \in both[i - 1] PROVE it[1 .. i] \in both[i]
  <2>1. i - 1 \in 0 .. n /\ i \in 0 .. n
    BY <1>1
  <2>2. PICK v \in Wholes : v = it[1 .. (i - 1)] /\ v \in good[i - 1]
    BY <1>8, <2>1
  <2>3. AddNodeFromEntry(v, ws[i], c) \in good[i] \cap Wholes
    BY <1>3, <1>a, <2>2
  <2>. QED
    BY <1>6, <2>1, <2>2, <2>3
<1>9. it[1 .. n] \in both[n]
  <2>. HIDE DEF both
  <2>. QED
    BY <1>1, <1>7, <1>8, FoldTurns
<1>. QED
  BY <1>1, <1>2, <1>9 DEF n

\* The links of an entry.
LEMMA PairTurns ==
    ASSUME NEW ns \in Wholes, NEW ps \in Seq(Words \X Words), NEW c \in Roots,
           NEW good, ns \in good[0],
           \A i \in 1 .. Len(ps) : \A v \in Wholes : v \in good[i - 1] => ProcessArrayLinkage(v, ps[i], c) \in good[i]
    PROVE  AddConnectionsFromEntry(ns, ps, c) \in good[Len(ps)] \cap Wholes
<1>. DEFINE n == Len(ps)
            step == [i \in 1 .. n |-> [v \in Wholes |-> ProcessArrayLinkage(v, ps[i], c)]]
            both == [i \in 0 .. n |-> good[i] \cap Wholes]
            Solves(f) == f = [s \in SUBSET DOMAIN ps |->
                                 IF s = {} THEN ns ELSE ProcessArrayLinkage(f[s \ {Max(s)}], ps[Max(s)], c)]
            it == CHOOSE f : Solves(f)
<1>1. n \in Nat /\ DOMAIN ps = 1 .. n /\ \A i \in 1 .. n : ps[i] \in (Words \X Words)
  OBVIOUS
<1>2. AddConnectionsFromEntry(ns, ps, c) = it[1 .. n]
  BY <1>1 DEF AddConnectionsFromEntry, FoldLeft, MapThenFoldSet
<1>a. \A i \in 1 .. n : \A v \in Wholes : v \in good[i - 1] => ProcessArrayLinkage(v, ps[i], c) \in good[i]
  OBVIOUS
<1>. HIDE DEF n
<1>3. \A v \in Wholes, i \in 1 .. n : ProcessArrayLinkage(v, ps[i], c) \in Wholes
  BY <1>1, PairLinked DEF Wholes
<1>4. Solves(it)
  <2>1. step \in [1 .. n -> [Wholes -> Wholes]]
    BY <1>3
  <2>. HIDE DEF step, both, it
  <2>2. Turning(n, Wholes, ns, step)
    BY <1>1, <2>1 DEF Turning
  <2>. PICK f : Turned(n, Wholes, ns, step, f)
    BY <2>2, FoldSolved
  <2>3. ASSUME NEW s \in SUBSET (1 .. n), s # {}
        PROVE  f[s] = ProcessArrayLinkage(f[s \ {Max(s)}], ps[Max(s)], c)
    <3>1. Max(s) \in 1 .. n /\ f[s \ {Max(s)}] \in Wholes
      BY <1>1, <2>3, GreatestOf DEF Turned
    <3>. QED
      BY <2>3, <3>1 DEF step, Turned
  <2>4. Solves(f)
    BY <1>1, <2>3 DEF Turned
  <2>. QED
    BY <2>4 DEF it
<1>. HIDE DEF it
<1>5. it[{}] = ns
  BY <1>1, <1>4
<1>6. ASSUME NEW i \in 1 .. n
      PROVE  it[1 .. i] = ProcessArrayLinkage(it[1 .. (i - 1)], ps[i], c)
  <2>1. 1 .. i \in SUBSET (1 .. n) /\ 1 .. i # {} /\ Max(1 .. i) = i /\ (1 .. i) \ {i} = 1 .. (i - 1)
    BY <1>1, LastOf
  <2>. QED
    BY <1>1, <1>4, <2>1
<1>7. it[{}] \in both[0]
  BY <1>1, <1>5
<1>8. ASSUME NEW i \in 1 .. n, it[1 .. (i - 1)] \in both[i - 1] PROVE it[1 .. i] \in both[i]
  <2>1. i - 1 \in 0 .. n /\ i \in 0 .. n
    BY <1>1
  <2>2. PICK v \in Wholes : v = it[1 .. (i - 1)] /\ v \in good[i - 1]
    BY <1>8, <2>1
  <2>3. ProcessArrayLinkage(v, ps[i], c) \in good[i] \cap Wholes
    BY <1>3, <1>a, <2>2
  <2>. QED
    BY <1>6, <2>1, <2>2, <2>3
<1>9. it[1 .. n] \in both[n]
  <2>. HIDE DEF both
  <2>. QED
    BY <1>1, <1>7, <1>8, FoldTurns
<1>. QED
  BY <1>1, <1>2, <1>9 DEF n

Entries == [context : Contexts, nodes : Seq(Words), connections : Seq(Words \X Words)]

LEMMA ContextFound ==
    ASSUME NEW ns \in Nodes, Intact(ns), NEW c \in Contexts
    PROVE  FindNodeGlobal(ns, Label(c)) \in Roots
<1>. DEFINE at == {i \in DOMAIN ns : i <= Len(Context) + 1 /\ ns[i].label = Label(c)}
<1>1. PICK k \in Roots : Context[k] = c
  BY GraphAssumption DEF Contexts, Range, Roots
<1>2. PlacedIn(ns)
  BY IntactParts
<1>3. /\ Len(ns) \in Nat /\ DOMAIN ns = 1 .. Len(ns) /\ Roots \subseteq 1 .. Len(ns)
      /\ Len(Context) \in Nat
  BY <1>2, PlacedHere, GraphAssumption DEF Nodes
<1>4. Settled(c) = Label(c) /\ Settled(c).word = c
  BY WordLabel
<1>5. k \in at
  <2>1. ns[k].label = Settled(c)
    BY <1>1, <1>2, PlacedHere
  <2>2. k <= Len(Context) + 1
    BY <1>3 DEF Roots
  <2>. QED
    BY <1>3, <1>4, <2>1, <2>2
<1>6. at \in SUBSET Nat /\ at # {}
  BY <1>3, <1>5
<1>7. Min(at) \in at
  <2>1. PICK m \in at : \A y \in at : m <= y
    BY <1>6, LeastNatural
  <2>2. \E h \in at : \A y \in at : h =< y
    BY <2>1
  <2>. QED
    BY <2>2 DEF Min
<1>8. \A i \in at : i \in Roots
  <2>. SUFFICES ASSUME NEW i \in at, i \notin Roots PROVE FALSE
    OBVIOUS
  <2>1. ns[i].label.word \in Words
    BY <1>2, <1>3, PlacedHere
  <2>2. ns[i].label.word = c
    BY <1>4
  <2>. QED
    BY <2>1, <2>2, GraphAssumption
<1>. QED
  BY <1>6, <1>7, <1>8 DEF FindNodeGlobal

LEMMA EntryAdded ==
    ASSUME NEW ns \in Wholes, NEW e \in Entries
    PROVE  AddContextNodesFromJSON(ns, e) \in Wholes
<1>1. PICK c : c = FindNodeGlobal(ns, Label(e.context))
  OBVIOUS
<1>2. e.context \in Contexts /\ e.nodes \in Seq(Words) /\ e.connections \in Seq(Words \X Words)
  BY DEF Entries
<1>3. c \in Roots
  BY <1>1, <1>2, ContextFound DEF Wholes
<1>4. PICK ms : ms = AddNodesFromEntry(ns, e.nodes, c)
  OBVIOUS
<1>5. ms \in Wholes
  <2>1. Len(e.nodes) \in Nat
    BY <1>2
  <2>. DEFINE good == [i \in 0 .. Len(e.nodes) |-> Wholes]
  <2>2. ns \in good[0]
    BY <2>1
  <2>3. \A i \in 1 .. Len(e.nodes) : \A v \in Wholes :
           v \in good[i - 1] => AddNodeFromEntry(v, e.nodes[i], c) \in good[i]
    BY <1>2, <1>3, <2>1, WordAdded DEF Wholes
  <2>. HIDE DEF good
  <2>. QED
    BY <1>2, <1>3, <1>4, <2>2, <2>3, WordTurns
<1>6. AddConnectionsFromEntry(ms, e.connections, c) \in Wholes
  <2>1. Len(e.connections) \in Nat
    BY <1>2
  <2>. DEFINE good == [i \in 0 .. Len(e.connections) |-> Wholes]
  <2>2. ms \in good[0]
    BY <1>5, <2>1
  <2>3. \A i \in 1 .. Len(e.connections) : \A v \in Wholes :
           v \in good[i - 1] => ProcessArrayLinkage(v, e.connections[i], c) \in good[i]
    BY <1>2, <1>3, <2>1, PairLinked DEF Wholes
  <2>. HIDE DEF good
  <2>. QED
    BY <1>2, <1>3, <1>5, <2>2, <2>3, PairTurns
<1>. QED
  BY <1>1, <1>4, <1>6 DEF AddContextNodesFromJSON

\* The entries of an answer.
LEMMA EntryTurns ==
    ASSUME NEW ns \in Wholes, NEW a \in Seq(Entries),
           NEW good, ns \in good[0],
           \A i \in 1 .. Len(a) : \A v \in Wholes : v \in good[i - 1] => AddContextNodesFromJSON(v, a[i]) \in good[i]
    PROVE  DecomposeInputIntoGraph(ns, a) \in good[Len(a)] \cap Wholes
<1>. DEFINE n == Len(a)
            step == [i \in 1 .. n |-> [v \in Wholes |-> AddContextNodesFromJSON(v, a[i])]]
            both == [i \in 0 .. n |-> good[i] \cap Wholes]
            Solves(f) == f = [s \in SUBSET DOMAIN a |->
                                 IF s = {} THEN ns ELSE AddContextNodesFromJSON(f[s \ {Max(s)}], a[Max(s)])]
            it == CHOOSE f : Solves(f)
<1>1. n \in Nat /\ DOMAIN a = 1 .. n /\ \A i \in 1 .. n : a[i] \in Entries
  OBVIOUS
<1>2. DecomposeInputIntoGraph(ns, a) = it[1 .. n]
  BY <1>1 DEF DecomposeInputIntoGraph, FoldLeft, MapThenFoldSet
<1>a. \A i \in 1 .. n : \A v \in Wholes : v \in good[i - 1] => AddContextNodesFromJSON(v, a[i]) \in good[i]
  OBVIOUS
<1>. HIDE DEF n
<1>3. \A v \in Wholes, i \in 1 .. n : AddContextNodesFromJSON(v, a[i]) \in Wholes
  BY <1>1, EntryAdded
<1>4. Solves(it)
  <2>1. step \in [1 .. n -> [Wholes -> Wholes]]
    BY <1>3
  <2>. HIDE DEF step, both, it
  <2>2. Turning(n, Wholes, ns, step)
    BY <1>1, <2>1 DEF Turning
  <2>. PICK f : Turned(n, Wholes, ns, step, f)
    BY <2>2, FoldSolved
  <2>3. ASSUME NEW s \in SUBSET (1 .. n), s # {}
        PROVE  f[s] = AddContextNodesFromJSON(f[s \ {Max(s)}], a[Max(s)])
    <3>1. Max(s) \in 1 .. n /\ f[s \ {Max(s)}] \in Wholes
      BY <1>1, <2>3, GreatestOf DEF Turned
    <3>. QED
      BY <2>3, <3>1 DEF step, Turned
  <2>4. Solves(f)
    BY <1>1, <2>3 DEF Turned
  <2>. QED
    BY <2>4 DEF it
<1>. HIDE DEF it
<1>5. it[{}] = ns
  BY <1>1, <1>4
<1>6. ASSUME NEW i \in 1 .. n
      PROVE  it[1 .. i] = AddContextNodesFromJSON(it[1 .. (i - 1)], a[i])
  <2>1. 1 .. i \in SUBSET (1 .. n) /\ 1 .. i # {} /\ Max(1 .. i) = i /\ (1 .. i) \ {i} = 1 .. (i - 1)
    BY <1>1, LastOf
  <2>. QED
    BY <1>1, <1>4, <2>1
<1>7. it[{}] \in both[0]
  BY <1>1, <1>5
<1>8. ASSUME NEW i \in 1 .. n, it[1 .. (i - 1)] \in both[i - 1] PROVE it[1 .. i] \in both[i]
  <2>1. i - 1 \in 0 .. n /\ i \in 0 .. n
    BY <1>1
  <2>2. PICK v \in Wholes : v = it[1 .. (i - 1)] /\ v \in good[i - 1]
    BY <1>8, <2>1
  <2>3. AddContextNodesFromJSON(v, a[i]) \in good[i] \cap Wholes
    BY <1>3, <1>a, <2>2
  <2>. QED
    BY <1>6, <2>1, <2>2, <2>3
<1>9. it[1 .. n] \in both[n]
  <2>. HIDE DEF both
  <2>. QED
    BY <1>1, <1>7, <1>8, FoldTurns
<1>. QED
  BY <1>1, <1>2, <1>9 DEF n

LEMMA AnswerEntries ==
    ASSUME NEW a \in Answers PROVE a \in Seq(Entries)
<1>1. PICK k \in DOMAIN Context : \E e \in Mentions(Context[k]) :
         a = [i \in DOMAIN Context |-> IF i = k THEN e ELSE Nothing(Context[i])]
  BY DEF Answers
<1>2. PICK e \in Mentions(Context[k]) :
         a = [i \in DOMAIN Context |-> IF i = k THEN e ELSE Nothing(Context[i])]
  BY <1>1
<1>3. Len(Context) \in Nat /\ DOMAIN Context = 1 .. Len(Context) /\ \A i \in DOMAIN Context : Context[i] \in Contexts
  BY GraphAssumption
<1>4. \A c \in Contexts : Nothing(c) \in Entries
  BY DEF Nothing, Entries
<1>5. e \in Entries
  <2>. DEFINE c == Context[k]
  <2>1. c \in Contexts /\ Vocabulary[c] \in SUBSET Words /\ MaxMentions \in Nat
    BY <1>3, GraphAssumption
  <2>2. e \in [context : {c}, nodes : SeqOf(Vocabulary[c], MaxMentions), connections : SeqOf(Pairs(c), 1)]
    BY DEF Mentions
  <2>3. ASSUME NEW S, NEW T \in SUBSET S, NEW m \in Nat PROVE SeqOf(T, m) \subseteq Seq(S)
    <3>. SUFFICES ASSUME NEW q \in SeqOf(T, m) PROVE q \in Seq(S)
      OBVIOUS
    <3>1. PICK j \in 0 .. m : q \in [1 .. j -> T]
      BY DEF SeqOf
    <3>2. j \in Nat /\ q \in [1 .. j -> S]
      BY <3>1
    <3>. QED
      BY <3>2, SeqDef
  <2>4. Pairs(c) \in SUBSET (Words \X Words)
    BY <2>1 DEF Pairs
  <2>. HIDE DEF c
  <2>5. e.context \in Contexts /\ e.nodes \in Seq(Words)
    BY <2>1, <2>2, <2>3
  <2>6. e.connections \in Seq(Words \X Words)
    BY <2>2, <2>3, <2>4
  <2>7. e = [context |-> e.context, nodes |-> e.nodes, connections |-> e.connections]
    BY <2>2
  <2>. QED
    BY <2>5, <2>6, <2>7 DEF Entries
<1>6. a \in [1 .. Len(Context) -> Entries]
  BY <1>2, <1>3, <1>4, <1>5
<1>. QED
  BY <1>3, <1>6, SeqDef

LEMMA MessageHeard ==
    ASSUME NEW ns \in Nodes, Intact(ns), NEW a \in Answers
    PROVE  DecomposeInputIntoGraph(ns, a) \in Nodes /\ Intact(DecomposeInputIntoGraph(ns, a))
<1>1. a \in Seq(Entries) /\ ns \in Wholes /\ Len(a) \in Nat
  BY AnswerEntries DEF Wholes
<1>. DEFINE good == [i \in 0 .. Len(a) |-> Wholes]
<1>2. ns \in good[0]
  BY <1>1
<1>3. \A i \in 1 .. Len(a) : \A v \in Wholes :
         v \in good[i - 1] => AddContextNodesFromJSON(v, a[i]) \in good[i]
  BY <1>1, EntryAdded
<1>. HIDE DEF good
<1>4. DecomposeInputIntoGraph(ns, a) \in Wholes
  BY <1>1, <1>2, <1>3, EntryTurns
<1>. QED
  BY <1>4 DEF Wholes

----------------------------------------------------------------------------
\* What is saved

NamesOf(g) == [i \in 1 .. Len(g.nodes) |-> g.nodes[i].name]
PlacesOf(g) == [i \in 1 .. Len(g.nodes) |-> g.nodes[i].parent]

\* A sequence of sequences in a row has what they have.
LEMMA Flattened ==
    ASSUME NEW ss \in Seq(Seq(Pairings))
    PROVE  /\ FlattenSeq(ss) \in Seq(Pairings)
           /\ \A e : Contains(FlattenSeq(ss), e) <=> \E k \in 1 .. Len(ss) : Contains(ss[k], e)
<1>. DEFINE n == Len(ss)
            V == Seq(Pairings)
            S == 1 .. n
            m == [i \in S |-> i]
            rule == [i \in S |-> [f \in [S -> V] |-> IF i = 1 THEN ss[i] ELSE f[i - 1] \o ss[i]]]
            Solves(f) == f = [i \in 1 .. Len(ss) |-> IF i = 1 THEN ss[i] ELSE f[i - 1] \o ss[i]]
            flat == CHOOSE f : Solves(f)
<1>1. n \in Nat /\ \A i \in 1 .. n : ss[i] \in V
  OBVIOUS
<1>2. CASE n = 0
  <2>1. FlattenSeq(ss) = ss /\ ss = <<>>
    BY <1>2 DEF FlattenSeq
  <2>2. <<>> \in Seq(Pairings) /\ Len(<<>>) = 0
    OBVIOUS
  <2>3. \A e : ~ Contains(<<>>, e)
    BY DEF Contains
  <2>4. 1 .. n = {}
    BY <1>2
  <2>. QED
    BY <2>1, <2>2, <2>3, <2>4
<1>3. CASE n # 0
  <2>1. FlattenSeq(ss) = flat[n]
    BY <1>3 DEF FlattenSeq
  <2>2. \A i \in S : i # 1 => i - 1 \in S /\ i - 1 < i
    BY <1>1
  <2>3. \A x, y \in V : x \o y \in V
    OBVIOUS
  <2>. HIDE DEF V, flat
  <2>4. rule \in [S -> [[S -> V] -> V]]
    BY <1>1, <2>2, <2>3
  <2>5. Recursion(S, V, m, n + 1, rule)
    <3>1. V # {}
      BY <1>1, <1>3
    <3>2. m \in [S -> Nat] /\ n + 1 \in Nat /\ \A i \in S : m[i] < n + 1
      BY <1>1
    <3>3. ASSUME NEW i \in S, NEW f \in [S -> V], NEW g \in [S -> V],
                 \A k \in S : m[k] < m[i] => f[k] = g[k]
          PROVE  rule[i][f] = rule[i][g]
      <4>1. i # 1 => f[i - 1] = g[i - 1]
        BY <2>2, <3>3
      <4>. QED
        BY <4>1
    <3>. HIDE DEF m, rule, S
    <3>. QED
      BY <2>4, <3>1, <3>2, <3>3 DEF Recursion
  <2>6. \E f \in [S -> V] : \A i \in S : f[i] = rule[i][f]
    <3>. HIDE DEF m, rule, S
    <3>. QED
      BY <2>5, RecursionSolved
  <2>7. PICK f \in [S -> V] : \A i \in S : f[i] = rule[i][f]
    BY <2>6
  <2>8. Solves(f)
    BY <2>7
  <2>9. Solves(flat)
    BY <2>8 DEF flat
  <2>10. \A i \in S : flat[i] = IF i = 1 THEN ss[i] ELSE flat[i - 1] \o ss[i]
    BY <2>9
  <2>. DEFINE Right(i) == /\ flat[i] \in V
                          /\ \A e : Contains(flat[i], e) <=> \E k \in 1 .. i : Contains(ss[k], e)
              T == {0} \cup {i \in S : Right(i)}
  <2>11. ASSUME NEW x \in V, NEW y \in V, NEW e PROVE Contains(x \o y, e) <=> Contains(x, e) \/ Contains(y, e)
    <3>1. x \in Seq(Pairings) /\ y \in Seq(Pairings)
      BY DEF V
    <3>2. PICK z : z = x \o y
      OBVIOUS
    <3>3. /\ Len(x) \in Nat /\ Len(y) \in Nat /\ Len(z) = Len(x) + Len(y)
          /\ \A i \in 1 .. Len(x) : z[i] = x[i]
          /\ \A i \in 1 .. Len(y) : z[Len(x) + i] = y[i]
      BY <3>1, <3>2
    <3>4. /\ \A i \in 1 .. Len(x) : i \in 1 .. Len(z)
          /\ \A i \in 1 .. Len(y) : Len(x) + i \in 1 .. Len(z)
          /\ \A i \in 1 .. Len(z) : i \in 1 .. Len(x) \/ (i - Len(x) \in 1 .. Len(y) /\ i = Len(x) + (i - Len(x)))
      BY <3>3
    <3>5. Contains(z, e) <=> Contains(x, e) \/ Contains(y, e)
      <4>1. ASSUME Contains(z, e) PROVE Contains(x, e) \/ Contains(y, e)
        <5>1. PICK i \in 1 .. Len(z) : z[i] = e
          BY <4>1 DEF Contains
        <5>2. CASE i \in 1 .. Len(x)
          BY <3>3, <5>1, <5>2 DEF Contains
        <5>3. CASE i \notin 1 .. Len(x)
          <6>1. PICK j \in 1 .. Len(y) : i = Len(x) + j
            BY <3>4, <5>1, <5>3
          <6>2. y[j] = e
            BY <3>3, <5>1, <6>1
          <6>. QED
            BY <6>2 DEF Contains
        <5>. QED
          BY <5>2, <5>3
      <4>2. ASSUME Contains(x, e) PROVE Contains(z, e)
        BY <3>3, <3>4, <4>2 DEF Contains
      <4>3. ASSUME Contains(y, e) PROVE Contains(z, e)
        <5>1. PICK j \in 1 .. Len(y) : y[j] = e
          BY <4>3 DEF Contains
        <5>2. z[Len(x) + j] = e /\ Len(x) + j \in 1 .. Len(z)
          BY <3>3, <3>4, <5>1
        <5>. QED
          BY <5>2 DEF Contains
      <4>. QED
        BY <4>1, <4>2, <4>3
    <3>. QED
      BY <3>2, <3>5
  <2>12. ASSUME NEW i \in S, i = 1 \/ Right(i - 1) PROVE Right(i)
    <3>1. CASE i = 1
      <4>1. flat[1] = ss[1]
        <5>1. 1 \in S
          BY <3>1
        <5>. QED
          BY <2>10, <5>1
      <4>2. 1 .. 1 = {1}
        OBVIOUS
      <4>. QED
        BY <1>1, <3>1, <4>1, <4>2
    <3>2. CASE i # 1
      <4>1. flat[i] = flat[i - 1] \o ss[i]
        BY <2>10, <3>2
      <4>2. flat[i - 1] \in V /\ ss[i] \in V
        BY <1>1, <2>12, <3>2
      <4>3. \A e : Contains(flat[i], e) <=> (\E k \in 1 .. i - 1 : Contains(ss[k], e)) \/ Contains(ss[i], e)
        BY <2>11, <2>12, <3>2, <4>1, <4>2
      <4>4. 1 .. i = 1 .. i - 1 \cup {i}
        BY <1>1
      <4>5. flat[i] \in V
        BY <2>3, <4>1, <4>2
      <4>. QED
        BY <4>3, <4>4, <4>5
    <3>. QED
      BY <3>1, <3>2
  <2>13. \A i \in 1 .. n : i - 1 \in T => i \in T
    <3>. SUFFICES ASSUME NEW i \in 1 .. n, i - 1 \in T PROVE i \in T
      OBVIOUS
    <3>1. i - 1 = 0 => i = 1
      BY <1>1
    <3>. HIDE DEF Right
    <3>2. i = 1 \/ Right(i - 1)
      BY <3>1
    <3>. QED
      BY <2>12, <3>2
  <2>14. n \in T
    <3>. HIDE DEF T
    <3>1. 0 \in T
      BY DEF T
    <3>2. Upwards(n, T) /\ n \in 0 .. n
      BY <1>1, <2>13, <3>1 DEF Upwards
    <3>. QED
      BY <1>1, <3>2, LoopInduction
  <2>15. Right(n)
    BY <1>3, <2>14
  <2>. QED
    BY <2>1, <2>15 DEF V
<1>. QED
  BY <1>2, <1>3

LEMMA SeqOfFunction ==
    ASSUME NEW n \in Nat, NEW S, NEW f \in [1 .. n -> S]
    PROVE  f \in Seq(S) /\ Len(f) = n
<1>1. f \in Seq(S)
  BY SeqDef
<1>2. DOMAIN f = 1 .. n
  OBVIOUS
<1>. QED
  BY <1>1, <1>2

LEMMA Written ==
    ASSUME NEW ns \in Nodes, Intact(ns)
    PROVE  Saved(SeriliazeGraph(ns))
<1>. DEFINE n == Len(ns)
            row(i) == [j \in DOMAIN ns[i].nbrs |-> <<i, ns[i].nbrs[j]>>]
            rows == [i \in DOMAIN ns |-> row(i)]
            names == [i \in DOMAIN ns |-> [name |-> ns[i].label, parent |-> ns[i].parent]]
            conn == FlattenSeq(rows)
<1>1. PlacedIn(ns) /\ LinkedIn(ns)
  BY IntactParts
<1>2. n \in Nat /\ DOMAIN ns = 1 .. n /\ 1 .. n \subseteq Nat
  BY DEF Nodes
<1>3. \A i \in 1 .. n : ns[i].label \in Labels /\ ns[i].parent \in Nat
  BY <1>1, <1>2, PlacedHere
<1>4. /\ \A i \in 1 .. n : ns[i].nbrs \in Seq(1 .. n)
      /\ \A i, j \in 1 .. n :
            /\ Count(ns[i].nbrs, j) = Count(ns[j].nbrs, i)
            /\ Count(ns[i].nbrs, j) > 0 => ns[i].parent = ns[j].parent /\ ns[i].parent # 0
  BY <1>1, LinkedHere
<1>5. SeriliazeGraph(ns) = [nodes |-> names, connections |-> conn]
  BY DEF SeriliazeGraph
<1>. HIDE DEF n
<1>6. /\ names \in Seq([name : Labels, parent : Nat]) /\ Len(names) = n
      /\ \A i \in 1 .. n : names[i].name = ns[i].label /\ names[i].parent = ns[i].parent
  <2>1. names \in [1 .. n -> [name : Labels, parent : Nat]]
    BY <1>2, <1>3
  <2>2. \A i \in 1 .. n : names[i].name = ns[i].label /\ names[i].parent = ns[i].parent
    BY <1>2
  <2>. HIDE DEF names
  <2>3. names \in Seq([name : Labels, parent : Nat]) /\ Len(names) = n
    BY <1>2, <2>1, SeqOfFunction
  <2>. QED
    BY <2>2, <2>3
<1>7. ASSUME NEW i \in 1 .. n
      PROVE  /\ row(i) \in Seq(Pairings) /\ Len(row(i)) = Len(ns[i].nbrs)
             /\ \A j \in 1 .. Len(ns[i].nbrs) : row(i)[j] = <<i, ns[i].nbrs[j]>>
  <2>1. PICK q : q = ns[i].nbrs
    OBVIOUS
  <2>2. q \in Seq(1 .. n) /\ Len(q) \in Nat /\ DOMAIN q = 1 .. Len(q)
        /\ \A j \in 1 .. Len(q) : q[j] \in Nat
    BY <1>2, <1>4, <2>1
  <2>3. i \in Nat
    BY <1>2
  <2>4. row(i) = [j \in 1 .. Len(q) |-> <<i, q[j]>>]
    BY <2>1, <2>2
  <2>5. PICK r : r = row(i)
    OBVIOUS
  <2>. HIDE DEF row
  <2>6. r \in [1 .. Len(q) -> Pairings]
    BY <2>2, <2>3, <2>4, <2>5 DEF Pairings
  <2>7. r \in Seq(Pairings) /\ Len(r) = Len(q)
    BY <2>2, <2>6, SeqDef
  <2>8. \A j \in 1 .. Len(q) : r[j] = <<i, q[j]>>
    BY <2>4, <2>5
  <2>. QED
    BY <2>1, <2>5, <2>7, <2>8
<1>8. rows \in Seq(Seq(Pairings)) /\ Len(rows) = n /\ \A i \in 1 .. n : rows[i] = row(i)
  <2>. HIDE DEF row
  <2>1. rows \in [1 .. n -> Seq(Pairings)] /\ \A i \in 1 .. n : rows[i] = row(i)
    BY <1>2, <1>7
  <2>. HIDE DEF rows
  <2>. QED
    BY <1>2, <2>1, SeqDef
<1>. HIDE DEF row, rows, names, conn
<1>9. /\ conn \in Seq(Pairings)
      /\ \A e : Contains(conn, e) <=> \E k \in 1 .. n : Contains(row(k), e)
  BY <1>8, Flattened DEF conn
<1>10. ASSUME NEW i, NEW j
       PROVE  Contains(conn, <<i, j>>) <=> i \in 1 .. n /\ Count(ns[i].nbrs, j) > 0
  <2>1. ASSUME NEW k \in 1 .. n
        PROVE  Contains(row(k), <<i, j>>) <=> i = k /\ Count(ns[k].nbrs, j) > 0
    <3>1. PICK q : q = ns[k].nbrs
      OBVIOUS
    <3>2. PICK r : r = row(k)
      OBVIOUS
    <3>3. /\ Len(r) = Len(q) /\ Len(q) \in Nat /\ q \in Seq(Nat)
          /\ \A h \in 1 .. Len(q) : r[h] = <<k, q[h]>>
      <4>1. q \in Seq(1 .. n)
        BY <1>4, <3>1
      <4>2. q \in Seq(Nat)
        BY <1>2, <4>1
      <4>. QED
        BY <1>7, <3>1, <3>2, <4>2
    <3>4. Contains(r, <<i, j>>) <=> \E h \in 1 .. Len(q) : <<k, q[h]>> = <<i, j>>
      BY <3>3 DEF Contains
    <3>5. (\E h \in 1 .. Len(q) : <<k, q[h]>> = <<i, j>>) <=> k = i /\ \E h \in 1 .. Len(q) : q[h] = j
      OBVIOUS
    <3>6. Count(q, j) > 0 <=> \E h \in 1 .. Len(q) : q[h] = j
      BY <3>3, CountType
    <3>. QED
      BY <3>1, <3>2, <3>4, <3>5, <3>6
  <2>. QED
    BY <1>9, <2>1
<1>11. PICK g : g = SeriliazeGraph(ns)
  OBVIOUS
<1>12. /\ g.nodes = names /\ g.connections = conn /\ g \in Files
  BY <1>5, <1>6, <1>9, <1>11 DEF Files
<1>13. NamesOf(g) = LabelsOf(ns) /\ PlacesOf(g) = ParentsOf(ns) /\ Len(g.nodes) = n
  BY <1>6, <1>12 DEF NamesOf, PlacesOf, LabelsOf, ParentsOf, n
<1>14. Placed(n, NamesOf(g), PlacesOf(g))
  BY <1>1, <1>13 DEF PlacedIn, n
<1>15. \A i \in 1 .. n : PlacesOf(g)[i] = ns[i].parent
  BY <1>13 DEF ParentsOf, n
<1>16. ASSUME NEW k \in 1 .. Len(conn)
       PROVE  /\ conn[k][1] \in 1 .. n /\ conn[k][2] \in 1 .. n
              /\ PlacesOf(g)[conn[k][1]] = PlacesOf(g)[conn[k][2]]
              /\ PlacesOf(g)[conn[k][1]] # 0
  <2>1. conn[k] \in Pairings
    BY <1>9
  <2>2. PICK i \in Nat, j \in Nat : conn[k] = <<i, j>>
    BY <2>1 DEF Pairings
  <2>3. Contains(conn, <<i, j>>)
    BY <2>2 DEF Contains
  <2>4. i \in 1 .. n /\ Count(ns[i].nbrs, j) > 0
    BY <1>10, <2>3
  <2>5. j \in 1 .. n
    <3>0. PICK q : q = ns[i].nbrs
      OBVIOUS
    <3>1. q \in Seq(1 .. n)
      BY <1>4, <2>4, <3>0
    <3>2. q \in Seq(Nat)
      BY <1>2, <3>1
    <3>3. PICK h \in 1 .. Len(q) : q[h] = j
      BY <2>4, <3>0, <3>2, CountType
    <3>. QED
      BY <3>1, <3>3, ElementOfSeq
  <2>6. ns[i].parent = ns[j].parent /\ ns[i].parent # 0
    BY <1>4, <2>4, <2>5
  <2>7. conn[k][1] = i /\ conn[k][2] = j
    BY <2>2
  <2>. QED
    BY <1>15, <2>4, <2>5, <2>6, <2>7
<1>17. ASSUME NEW i \in 1 .. n, NEW j \in 1 .. n, Contains(conn, <<i, j>>)
       PROVE  Contains(conn, <<j, i>>)
  <2>1. Count(ns[i].nbrs, j) > 0 /\ Count(ns[i].nbrs, j) = Count(ns[j].nbrs, i)
    BY <1>4, <1>10, <1>17
  <2>2. Count(ns[j].nbrs, i) > 0
    BY <2>1
  <2>. QED
    BY <1>10, <2>2
<1>18. Saved(g)
  BY <1>12, <1>13, <1>14, <1>16, <1>17 DEF Saved, NamesOf, PlacesOf
<1>. QED
  BY <1>11, <1>18

----------------------------------------------------------------------------
\* What is loaded

LEMMA NodeKept ==
    ASSUME NEW ns \in Nodes, NEW name \in Labels, NEW parent \in Nat
    PROVE  AddNodeEx(ns, name, parent) \in Nodes
<1>1. Len(ns) \in Nat /\ DOMAIN ns = 1 .. Len(ns)
  BY DEF Nodes
<1>2. CASE parent \in 0 .. Len(ns)
  BY <1>2, NodeAdded DEF Grown
<1>3. CASE parent \notin 0 .. Len(ns)
  <2>1. AddNodeEx(ns, name, parent) = AddNodeEx(ns, name, 0)
    <3>1. parent \notin DOMAIN ns /\ 0 \notin DOMAIN ns
      BY <1>1, <1>3
    <3>. QED
      BY <3>1 DEF AddNodeEx
  <2>2. 0 \in 0 .. Len(ns)
    BY <1>1
  <2>3. AddNodeEx(ns, name, 0) \in Nodes
    BY <2>2, NodeAdded DEF Grown
  <2>. QED
    BY <2>1, <2>3
<1>. QED
  BY <1>2, <1>3

\* The nodes of a file.
LEMMA NodeTurns ==
    ASSUME NEW g \in Files,
           NEW good, <<>> \in good[0],
           \A i \in 1 .. Len(g.nodes) : \A v \in Nodes : v \in good[i - 1] => AddNodeEx(v, g.nodes[i].name, g.nodes[i].parent) \in good[i]
    PROVE  LoadNodes(g) \in good[Len(g.nodes)] \cap Nodes
<1>. DEFINE n == Len(g.nodes)
            step == [i \in 1 .. n |-> [v \in Nodes |-> AddNodeEx(v, g.nodes[i].name, g.nodes[i].parent)]]
            both == [i \in 0 .. n |-> good[i] \cap Nodes]
            Solves(f) == f = [s \in SUBSET DOMAIN g.nodes |->
                                 IF s = {} THEN <<>> ELSE AddNodeEx(f[s \ {Max(s)}], g.nodes[Max(s)].name, g.nodes[Max(s)].parent)]
            it == CHOOSE f : Solves(f)
<1>1. n \in Nat /\ DOMAIN g.nodes = 1 .. n /\ \A i \in 1 .. n : g.nodes[i] \in [name : Labels, parent : Nat]
  <2>1. g.nodes \in Seq([name : Labels, parent : Nat])
    BY DEF Files
  <2>. QED
    BY <2>1, LenProperties, ElementOfSeq
<1>2. LoadNodes(g) = it[1 .. n]
  BY <1>1 DEF LoadNodes, FoldLeft, MapThenFoldSet
<1>a. \A i \in 1 .. n : \A v \in Nodes : v \in good[i - 1] => AddNodeEx(v, g.nodes[i].name, g.nodes[i].parent) \in good[i]
  OBVIOUS
<1>. HIDE DEF n
<1>3. \A v \in Nodes, i \in 1 .. n : AddNodeEx(v, g.nodes[i].name, g.nodes[i].parent) \in Nodes
  BY <1>1, NodeKept
<1>4. Solves(it)
  <2>1. step \in [1 .. n -> [Nodes -> Nodes]]
    BY <1>3
  <2>. HIDE DEF step, both, it
  <2>2. Turning(n, Nodes, <<>>, step)
    BY <1>1, <2>1, EmptySeq DEF Nodes, Turning
  <2>. PICK f : Turned(n, Nodes, <<>>, step, f)
    BY <2>2, FoldSolved
  <2>3. ASSUME NEW s \in SUBSET (1 .. n), s # {}
        PROVE  f[s] = AddNodeEx(f[s \ {Max(s)}], g.nodes[Max(s)].name, g.nodes[Max(s)].parent)
    <3>1. Max(s) \in 1 .. n /\ f[s \ {Max(s)}] \in Nodes
      BY <1>1, <2>3, GreatestOf DEF Turned
    <3>. QED
      BY <2>3, <3>1 DEF step, Turned
  <2>4. Solves(f)
    BY <1>1, <2>3 DEF Turned
  <2>. QED
    BY <2>4 DEF it
<1>. HIDE DEF it
<1>5. it[{}] = <<>>
  BY <1>1, <1>4
<1>6. ASSUME NEW i \in 1 .. n
      PROVE  it[1 .. i] = AddNodeEx(it[1 .. (i - 1)], g.nodes[i].name, g.nodes[i].parent)
  <2>1. 1 .. i \in SUBSET (1 .. n) /\ 1 .. i # {} /\ Max(1 .. i) = i /\ (1 .. i) \ {i} = 1 .. (i - 1)
    BY <1>1, LastOf
  <2>. QED
    BY <1>1, <1>4, <2>1
<1>7. it[{}] \in both[0]
  BY <1>1, <1>5, EmptySeq DEF Nodes
<1>8. ASSUME NEW i \in 1 .. n, it[1 .. (i - 1)] \in both[i - 1] PROVE it[1 .. i] \in both[i]
  <2>1. i - 1 \in 0 .. n /\ i \in 0 .. n
    BY <1>1
  <2>2. PICK v \in Nodes : v = it[1 .. (i - 1)] /\ v \in good[i - 1]
    BY <1>8, <2>1
  <2>3. AddNodeEx(v, g.nodes[i].name, g.nodes[i].parent) \in good[i] \cap Nodes
    BY <1>3, <1>a, <2>2
  <2>. QED
    BY <1>6, <2>1, <2>2, <2>3
<1>9. it[1 .. n] \in both[n]
  <2>. HIDE DEF both
  <2>. QED
    BY <1>1, <1>7, <1>8, FoldTurns
<1>. QED
  BY <1>1, <1>2, <1>9 DEF n

\* The links of a file.
LEMMA LinkTurns ==
    ASSUME NEW ns \in Nodes, NEW g \in Files,
           NEW good, ns \in good[0],
           \A i \in 1 .. Len(g.connections) : \A v \in Nodes : v \in good[i - 1] => BiLinkEx(v, g.connections[i][1], g.connections[i][2]) \in good[i]
    PROVE  LoadConnections(ns, g) \in good[Len(g.connections)] \cap Nodes
<1>. DEFINE n == Len(g.connections)
            step == [i \in 1 .. n |-> [v \in Nodes |-> BiLinkEx(v, g.connections[i][1], g.connections[i][2])]]
            both == [i \in 0 .. n |-> good[i] \cap Nodes]
            Solves(f) == f = [s \in SUBSET DOMAIN g.connections |->
                                 IF s = {} THEN ns ELSE BiLinkEx(f[s \ {Max(s)}], g.connections[Max(s)][1], g.connections[Max(s)][2])]
            it == CHOOSE f : Solves(f)
<1>1. n \in Nat /\ DOMAIN g.connections = 1 .. n /\ \A i \in 1 .. n : g.connections[i] \in Pairings
  BY DEF Files
<1>2. LoadConnections(ns, g) = it[1 .. n]
  BY <1>1 DEF LoadConnections, FoldLeft, MapThenFoldSet
<1>a. \A i \in 1 .. n : \A v \in Nodes : v \in good[i - 1] => BiLinkEx(v, g.connections[i][1], g.connections[i][2]) \in good[i]
  OBVIOUS
<1>. HIDE DEF n
<1>3. \A v \in Nodes, i \in 1 .. n : BiLinkEx(v, g.connections[i][1], g.connections[i][2]) \in Nodes
  BY <1>1, TwoLinks DEF Pairings, Rewired
<1>4. Solves(it)
  <2>1. step \in [1 .. n -> [Nodes -> Nodes]]
    BY <1>3
  <2>. HIDE DEF step, both, it
  <2>2. Turning(n, Nodes, ns, step)
    BY <1>1, <2>1 DEF Turning
  <2>. PICK f : Turned(n, Nodes, ns, step, f)
    BY <2>2, FoldSolved
  <2>3. ASSUME NEW s \in SUBSET (1 .. n), s # {}
        PROVE  f[s] = BiLinkEx(f[s \ {Max(s)}], g.connections[Max(s)][1], g.connections[Max(s)][2])
    <3>1. Max(s) \in 1 .. n /\ f[s \ {Max(s)}] \in Nodes
      BY <1>1, <2>3, GreatestOf DEF Turned
    <3>. QED
      BY <2>3, <3>1 DEF step, Turned
  <2>4. Solves(f)
    BY <1>1, <2>3 DEF Turned
  <2>. QED
    BY <2>4 DEF it
<1>. HIDE DEF it
<1>5. it[{}] = ns
  BY <1>1, <1>4
<1>6. ASSUME NEW i \in 1 .. n
      PROVE  it[1 .. i] = BiLinkEx(it[1 .. (i - 1)], g.connections[i][1], g.connections[i][2])
  <2>1. 1 .. i \in SUBSET (1 .. n) /\ 1 .. i # {} /\ Max(1 .. i) = i /\ (1 .. i) \ {i} = 1 .. (i - 1)
    BY <1>1, LastOf
  <2>. QED
    BY <1>1, <1>4, <2>1
<1>7. it[{}] \in both[0]
  BY <1>1, <1>5
<1>8. ASSUME NEW i \in 1 .. n, it[1 .. (i - 1)] \in both[i - 1] PROVE it[1 .. i] \in both[i]
  <2>1. i - 1 \in 0 .. n /\ i \in 0 .. n
    BY <1>1
  <2>2. PICK v \in Nodes : v = it[1 .. (i - 1)] /\ v \in good[i - 1]
    BY <1>8, <2>1
  <2>3. BiLinkEx(v, g.connections[i][1], g.connections[i][2]) \in good[i] \cap Nodes
    BY <1>3, <1>a, <2>2
  <2>. QED
    BY <1>6, <2>1, <2>2, <2>3
<1>9. it[1 .. n] \in both[n]
  <2>. HIDE DEF both
  <2>. QED
    BY <1>1, <1>7, <1>8, FoldTurns
<1>. QED
  BY <1>1, <1>2, <1>9 DEF n

\* The same, name by name.
LEMMA SavedHere ==
    ASSUME NEW g, Saved(g)
    PROVE  /\ g \in Files /\ Len(g.nodes) \in Nat /\ Len(g.nodes) >= Len(Context)
           /\ Placed(Len(g.nodes), NamesOf(g), PlacesOf(g))
           /\ \A i \in 1 .. Len(g.nodes) : /\ g.nodes[i].name \in Labels
                                           /\ g.nodes[i].parent \in 0 .. i - 1
                                           /\ lowerAll(Kept(g.nodes[i].name)) = g.nodes[i].name
           /\ \A k \in 1 .. Len(g.connections) :
                 /\ g.connections[k][1] \in 1 .. Len(g.nodes) /\ g.connections[k][2] \in 1 .. Len(g.nodes)
                 /\ g.nodes[g.connections[k][1]].parent = g.nodes[g.connections[k][2]].parent
                 /\ g.nodes[g.connections[k][1]].parent # 0
           /\ \A i, j \in 1 .. Len(g.nodes) :
                 Contains(g.connections, <<i, j>>) => Contains(g.connections, <<j, i>>)
<1>. DEFINE n == Len(g.nodes)
<1>1. g \in Files
  BY DEF Saved
<1>2. n \in Nat /\ Len(Context) \in Nat
  BY <1>1, GraphAssumption DEF Files
<1>3. Placed(n, NamesOf(g), PlacesOf(g))
  BY DEF Saved, NamesOf, PlacesOf
<1>4. \A i \in 1 .. n : NamesOf(g)[i] = g.nodes[i].name /\ PlacesOf(g)[i] = g.nodes[i].parent
  BY DEF NamesOf, PlacesOf
<1>5. /\ \A k \in 1 .. Len(g.connections) :
            /\ g.connections[k][1] \in 1 .. n /\ g.connections[k][2] \in 1 .. n
            /\ PlacesOf(g)[g.connections[k][1]] = PlacesOf(g)[g.connections[k][2]]
            /\ PlacesOf(g)[g.connections[k][1]] # 0
      /\ \A i, j \in 1 .. n : Contains(g.connections, <<i, j>>) => Contains(g.connections, <<j, i>>)
  BY DEF Saved, PlacesOf
<1>. HIDE DEF n
<1>6. n >= Len(Context)
  BY <1>3 DEF Placed
<1>7. ASSUME NEW i \in 1 .. n
      PROVE  /\ g.nodes[i].name \in Labels /\ g.nodes[i].parent \in 0 .. i - 1
             /\ lowerAll(Kept(g.nodes[i].name)) = g.nodes[i].name
  <2>1. g.nodes[i].name \in Labels /\ g.nodes[i].name = Settled(g.nodes[i].name.word)
    BY <1>3, <1>4 DEF Placed
  <2>2. g.nodes[i].name.word \in Words \cup Contexts
    BY <2>1 DEF Labels
  <2>3. lowerAll(Kept(g.nodes[i].name)) = g.nodes[i].name
    BY <2>1, <2>2, WordLabel
  <2>4. g.nodes[i].parent \in 0 .. i - 1
    <3>1. CASE i \in Roots
      <4>1. g.nodes[i].parent = 0
        BY <1>3, <1>4, <3>1 DEF Placed
      <4>. QED
        BY <1>2, <4>1
    <3>2. CASE i \notin Roots
      <4>1. g.nodes[i].parent \in Roots
        BY <1>3, <1>4, <3>2 DEF Placed
      <4>2. i > Len(Context) /\ g.nodes[i].parent \in 1 .. Len(Context)
        BY <1>2, <3>2, <4>1 DEF Roots
      <4>. QED
        BY <1>2, <4>2
    <3>. QED
      BY <3>1, <3>2
  <2>. QED
    BY <2>1, <2>3, <2>4
<1>8. \A k \in 1 .. Len(g.connections) :
         /\ g.connections[k][1] \in 1 .. n /\ g.connections[k][2] \in 1 .. n
         /\ g.nodes[g.connections[k][1]].parent = g.nodes[g.connections[k][2]].parent
         /\ g.nodes[g.connections[k][1]].parent # 0
  BY <1>4, <1>5
<1>. QED
  BY <1>1, <1>2, <1>3, <1>5, <1>6, <1>7, <1>8 DEF n

\* The nodes come back with their names and places, and are listed.
LEMMA NodesLoaded ==
    ASSUME NEW g, Saved(g)
    PROVE  /\ LoadNodes(g) \in Nodes /\ Intact(LoadNodes(g)) /\ Len(LoadNodes(g)) = Len(g.nodes)
           /\ \A i \in 1 .. Len(g.nodes) : /\ LoadNodes(g)[i].label = g.nodes[i].name
                                           /\ LoadNodes(g)[i].parent = g.nodes[i].parent
                                           /\ LoadNodes(g)[i].nbrs = <<>>
<1>. DEFINE n == Len(g.nodes)
            Read(v, i) == /\ Len(v) = i /\ ListedIn(v) /\ LinkedIn(v)
                          /\ \A k \in 1 .. i : /\ v[k].label = g.nodes[k].name
                                               /\ v[k].parent = g.nodes[k].parent
                                               /\ v[k].nbrs = <<>>
            good == [i \in 0 .. n |-> {v \in Nodes : Read(v, i)}]
<1>1. g \in Files /\ n \in Nat /\ \A i \in 1 .. n : /\ g.nodes[i].name \in Labels
                                                    /\ g.nodes[i].parent \in 0 .. i - 1
                                                    /\ lowerAll(Kept(g.nodes[i].name)) = g.nodes[i].name
  BY SavedHere
<1>2. <<>> \in good[0]
  <2>1. <<>> \in Nodes /\ Len(<<>>) = 0 /\ 1 .. 0 = {}
    BY EmptySeq DEF Nodes
  <2>2. ListedIn(<<>>)
    BY <2>1, ListedHere
  <2>3. LinkedIn(<<>>)
    BY <2>1, LinkedHere
  <2>. QED
    BY <1>1, <2>1, <2>2, <2>3
<1>. HIDE DEF n
<1>3. ASSUME NEW i \in 1 .. n, NEW v \in Nodes, v \in good[i - 1]
      PROVE  AddNodeEx(v, g.nodes[i].name, g.nodes[i].parent) \in good[i]
  <2>1. i - 1 \in 0 .. n /\ i \in 0 .. n /\ i - 1 \in Nat /\ (i - 1) + 1 = i
    BY <1>1
  <2>2. Read(v, i - 1)
    BY <1>3, <2>1
  <2>3. PICK l : l = g.nodes[i].name
    OBVIOUS
  <2>4. PICK p : p = g.nodes[i].parent
    OBVIOUS
  <2>5. l \in Labels /\ p \in 0 .. Len(v) /\ lowerAll(Kept(l)) = l
    BY <1>1, <2>2, <2>3, <2>4
  <2>6. PICK rs : rs = AddNodeEx(v, l, p)
    OBVIOUS
  <2>7. Grown(v, rs, l, p)
    BY <2>5, <2>6, NodeAdded
  <2>8. ListedIn(rs) /\ LinkedIn(rs)
    BY <2>2, <2>5, <2>7, ListedGrows, LinkedGrows
  <2>9. rs \in Nodes /\ Len(rs) = i
    BY <2>1, <2>2, <2>7 DEF Grown
  <2>10. ASSUME NEW k \in 1 .. i
         PROVE  rs[k].label = g.nodes[k].name /\ rs[k].parent = g.nodes[k].parent /\ rs[k].nbrs = <<>>
    <3>1. CASE k = i
      <4>1. rs[i] = [label |-> l, parent |-> p, children |-> <<>>, nbrs |-> <<>>]
        BY <2>1, <2>2, <2>7 DEF Grown
      <4>. QED
        BY <2>3, <2>4, <3>1, <4>1
    <3>2. CASE k # i
      <4>1. k \in 1 .. i - 1
        BY <3>2
      <4>. QED
        BY <2>2, <2>7, <4>1 DEF Grown
    <3>. QED
      BY <3>1, <3>2
  <2>11. Read(rs, i)
    BY <2>8, <2>9, <2>10
  <2>. HIDE DEF Read
  <2>12. rs \in good[i]
    BY <2>1, <2>9, <2>11
  <2>. QED
    BY <2>3, <2>4, <2>6, <2>12
<1>4. PICK rs : rs = LoadNodes(g)
  OBVIOUS
<1>5. rs \in good[n] /\ rs \in Nodes
  <2>. HIDE DEF good
  <2>. QED
    BY <1>1, <1>2, <1>3, <1>4, NodeTurns DEF n
<1>6. Read(rs, n)
  <2>. HIDE DEF Read
  <2>. QED
    BY <1>1, <1>5
<1>7. Intact(rs)
  <2>1. LabelsOf(rs) = NamesOf(g) /\ ParentsOf(rs) = PlacesOf(g)
    BY <1>6 DEF LabelsOf, ParentsOf, NamesOf, PlacesOf, n
  <2>2. PlacedIn(rs)
    BY <1>6, <2>1, SavedHere DEF PlacedIn, n
  <2>. QED
    BY <1>5, <1>6, <2>2, IntactParts
<1>. QED
  BY <1>4, <1>5, <1>6, <1>7 DEF n

\* The links come back to both ends.
LEMMA LinksLoaded ==
    ASSUME NEW g, Saved(g),
           NEW ns \in Nodes, Intact(ns), Len(ns) = Len(g.nodes),
           \A i \in 1 .. Len(g.nodes) : ns[i].parent = g.nodes[i].parent /\ ns[i].nbrs = <<>>
    PROVE  /\ LinkedIn(LoadConnections(ns, g)) /\ Rewired(ns, LoadConnections(ns, g))
           /\ \A i, j \in 1 .. Len(ns) :
                 Count(LoadConnections(ns, g)[i].nbrs, j) > 0 <=> Contains(g.connections, <<i, j>>)
<1>. DEFINE n == Len(ns)
            conn == g.connections
            Joined(i, a, b) == \E k \in 1 .. i : conn[k] = <<a, b>> \/ conn[k] = <<b, a>>
            Read(v, i) == /\ Rewired(ns, v) /\ LinkedIn(v)
                          /\ \A a, b \in 1 .. n : Count(v[a].nbrs, b) > 0 <=> Joined(i, a, b)
            good == [i \in 0 .. Len(conn) |-> {v \in Nodes : Read(v, i)}]
<1>1. /\ g \in Files /\ n \in Nat /\ Len(conn) \in Nat /\ conn \in Seq(Pairings) /\ 1 .. n \subseteq Nat
      /\ \A k \in 1 .. Len(conn) : /\ conn[k][1] \in 1 .. n /\ conn[k][2] \in 1 .. n
                                   /\ ns[conn[k][1]].parent = ns[conn[k][2]].parent
                                   /\ ns[conn[k][1]].parent # 0
      /\ \A i, j \in 1 .. n : Contains(conn, <<i, j>>) => Contains(conn, <<j, i>>)
  <2>1. g \in Files /\ n \in Nat /\ 1 .. n \subseteq Nat
    BY SavedHere DEF Nodes
  <2>2. conn \in Seq(Pairings)
    BY <2>1 DEF Files
  <2>3. Len(conn) \in Nat
    BY <2>2
  <2>. QED
    BY <2>1, <2>2, <2>3, SavedHere
<1>2. ns \in good[0]
  <2>1. Rewired(ns, ns) /\ LinkedIn(ns)
    BY IntactParts DEF Rewired
  <2>2. ASSUME NEW a \in 1 .. n, NEW b \in 1 .. n
        PROVE  Count(ns[a].nbrs, b) > 0 <=> Joined(0, a, b)
    <3>1. <<>> \in Seq(Nat) /\ Len(<<>>) = 0 /\ 1 .. 0 = {}
      BY EmptySeq
    <3>2. ~ (Count(<<>>, b) > 0)
      BY <3>1, CountType
    <3>. QED
      BY <3>1, <3>2
  <2>3. Read(ns, 0)
    BY <2>1, <2>2
  <2>. HIDE DEF Read
  <2>. QED
    BY <1>1, <2>3
<1>. HIDE DEF conn
<1>3. ASSUME NEW i \in 1 .. Len(conn), NEW v \in Nodes, v \in good[i - 1]
      PROVE  BiLinkEx(v, conn[i][1], conn[i][2]) \in good[i]
  <2>1. i - 1 \in 0 .. Len(conn) /\ i \in 0 .. Len(conn) /\ i - 1 \in Nat
    BY <1>1
  <2>2. Read(v, i - 1)
    <3>. HIDE DEF Read
    <3>. QED
      BY <1>3, <2>1
  <2>. HIDE DEF Joined
  <2>3. PICK a : a = conn[i][1]
    OBVIOUS
  <2>4. PICK b : b = conn[i][2]
    OBVIOUS
  <2>5. a \in 1 .. n /\ b \in 1 .. n /\ ns[a].parent = ns[b].parent /\ ns[a].parent # 0
    BY <1>1, <2>3, <2>4
  <2>6. conn[i] = <<a, b>>
    BY <1>1, <2>3, <2>4 DEF Pairings
  <2>7. v \in Nodes /\ Len(v) = n /\ \A k \in 1 .. n : v[k].parent = ns[k].parent
    BY <2>2 DEF Rewired
  <2>8. PICK rs : rs = BiLinkEx(v, a, b)
    OBVIOUS
  <2>9. a \in Nat /\ b \in Nat
    BY <1>1, <2>5
  <2>10. /\ Rewired(v, rs)
         /\ \A k \in 1 .. n, j \in Nat :
               Count(rs[k].nbrs, j) = Count(v[k].nbrs, j) + (IF k = a /\ j = b THEN 1 ELSE 0)
                                                          + (IF k = b /\ j = a THEN 1 ELSE 0)
    BY <2>7, <2>8, <2>9, TwoLinks
  <2>11. LinkedIn(rs)
    <3>1. a \in 1 .. Len(v) /\ b \in 1 .. Len(v) /\ v[a].parent = v[b].parent /\ v[a].parent # 0
      BY <2>5, <2>7
    <3>. HIDE DEF n
    <3>. QED
      BY <2>2, <2>7, <2>8, <3>1, LinkedRewired
  <2>12. Rewired(ns, rs)
    BY <2>2, <2>10 DEF Rewired
  <2>13. ASSUME NEW x \in 1 .. n, NEW y \in 1 .. n
         PROVE  Count(rs[x].nbrs, y) > 0 <=> Joined(i, x, y)
    <3>1. Joined(i, x, y) <=> Joined(i - 1, x, y) \/ (x = a /\ y = b) \/ (x = b /\ y = a)
      <4>1. 1 .. i = 1 .. i - 1 \cup {i}
        BY <2>1
      <4>2. Joined(i, x, y) <=> Joined(i - 1, x, y) \/ conn[i] = <<x, y>> \/ conn[i] = <<y, x>>
        BY <4>1 DEF Joined
      <4>. QED
        BY <2>6, <4>2
    <3>2. PICK c : c = Count(v[x].nbrs, y)
      OBVIOUS
    <3>3. c \in Nat
      <4>1. v[x].nbrs \in Seq(Nat)
        <5>1. v[x] \in NodeRec
          BY <2>7 DEF Nodes
        <5>. QED
          BY <5>1 DEF NodeRec
      <4>. QED
        BY <3>2, <4>1, CountType
    <3>4. c > 0 <=> Joined(i - 1, x, y)
      BY <2>2, <3>2
    <3>5. Count(rs[x].nbrs, y) = c + (IF x = a /\ y = b THEN 1 ELSE 0) + (IF x = b /\ y = a THEN 1 ELSE 0)
      BY <1>1, <2>10, <3>2
    <3>6. Count(rs[x].nbrs, y) > 0 <=> c > 0 \/ (x = a /\ y = b) \/ (x = b /\ y = a)
      BY <3>3, <3>5
    <3>. QED
      BY <3>1, <3>4, <3>6
  <2>14. Read(rs, i) /\ rs \in Nodes
    BY <2>10, <2>11, <2>12, <2>13 DEF Rewired
  <2>. HIDE DEF Read
  <2>15. rs \in good[i]
    BY <2>1, <2>14
  <2>. QED
    BY <2>3, <2>4, <2>8, <2>15
<1>4. PICK rs : rs = LoadConnections(ns, g)
  OBVIOUS
<1>5. rs \in good[Len(conn)]
  <2>. HIDE DEF good
  <2>. QED
    BY <1>1, <1>2, <1>3, <1>4, LinkTurns DEF conn
<1>6. Read(rs, Len(conn))
  <2>. HIDE DEF Read
  <2>. QED
    BY <1>1, <1>5
<1>7. ASSUME NEW i \in 1 .. n, NEW j \in 1 .. n
      PROVE  Joined(Len(conn), i, j) <=> Contains(conn, <<i, j>>)
  BY <1>1 DEF Contains
<1>. HIDE DEF Joined
<1>. QED
  BY <1>4, <1>6, <1>7 DEF conn

\* A file brings back the graph it was made of.
LEMMA GraphLoaded ==
    ASSUME NEW g, Saved(g)
    PROVE  /\ LoadGraphFromFile(g) \in Nodes /\ Intact(LoadGraphFromFile(g))
           /\ Len(LoadGraphFromFile(g)) = Len(g.nodes)
           /\ \A i \in 1 .. Len(g.nodes) : /\ LoadGraphFromFile(g)[i].label = g.nodes[i].name
                                           /\ LoadGraphFromFile(g)[i].parent = g.nodes[i].parent
           /\ \A i, j \in 1 .. Len(g.nodes) :
                 Count(LoadGraphFromFile(g)[i].nbrs, j) > 0 <=> Contains(g.connections, <<i, j>>)
<1>1. PICK ns : ns = LoadNodes(g)
  OBVIOUS
<1>2. /\ ns \in Nodes /\ Intact(ns) /\ Len(ns) = Len(g.nodes)
      /\ \A i \in 1 .. Len(g.nodes) : /\ ns[i].label = g.nodes[i].name
                                      /\ ns[i].parent = g.nodes[i].parent
                                      /\ ns[i].nbrs = <<>>
  BY <1>1, NodesLoaded
<1>3. PICK rs : rs = LoadConnections(ns, g)
  OBVIOUS
<1>4. /\ LinkedIn(rs) /\ Rewired(ns, rs)
      /\ \A i, j \in 1 .. Len(ns) : Count(rs[i].nbrs, j) > 0 <=> Contains(g.connections, <<i, j>>)
  BY <1>2, <1>3, LinksLoaded
<1>5. /\ rs \in Nodes /\ Len(rs) = Len(ns)
      /\ \A i \in 1 .. Len(ns) : rs[i].label = ns[i].label /\ rs[i].parent = ns[i].parent
  BY <1>4 DEF Rewired
<1>6. LabelsOf(rs) = LabelsOf(ns) /\ ParentsOf(rs) = ParentsOf(ns) /\ ChildrenOf(rs) = ChildrenOf(ns)
  BY <1>4 DEF Rewired, LabelsOf, ParentsOf, ChildrenOf
<1>7. Intact(rs)
  BY <1>2, <1>4, <1>5, <1>6 DEF Intact, LinkedIn
<1>8. rs = LoadGraphFromFile(g)
  BY <1>1, <1>3 DEF LoadGraphFromFile
<1>. QED
  BY <1>2, <1>4, <1>5, <1>7, <1>8

----------------------------------------------------------------------------
\* The contexts

Tables == [nodes : Nodes, contexts : Seq(Nat)]

RootsOf(ns, c) == {i \in DOMAIN ns : ns[i].parent = 0 /\ ns[i].label = Label(c)}

\* The turn of SetupContextNodes.
Bound(s, c) ==
    IF RootsOf(s.nodes, c) # {}
    THEN [s EXCEPT !.contexts = Append(@, Min(RootsOf(s.nodes, c)))]
    ELSE [nodes |-> AddNodeEx(s.nodes, Label(c), 0), contexts |-> Append(s.contexts, Len(s.nodes) + 1)]

LEMMA LeastRoot ==
    ASSUME NEW ns \in Nodes, NEW c, RootsOf(ns, c) # {}
    PROVE  Min(RootsOf(ns, c)) \in RootsOf(ns, c) /\ Min(RootsOf(ns, c)) \in Nat
<1>1. RootsOf(ns, c) \in SUBSET Nat
  BY DEF Nodes, RootsOf
<1>2. PICK x \in RootsOf(ns, c) : \A y \in RootsOf(ns, c) : x <= y
  BY <1>1, LeastNatural
<1>3. \E h \in RootsOf(ns, c) : \A y \in RootsOf(ns, c) : h =< y
  BY <1>2
<1>4. Min(RootsOf(ns, c)) \in RootsOf(ns, c)
  BY <1>3 DEF Min
<1>. QED
  BY <1>1, <1>4

LEMMA TableKept ==
    ASSUME NEW s \in Tables, NEW c \in Contexts PROVE Bound(s, c) \in Tables
<1>1. s.nodes \in Nodes /\ s.contexts \in Seq(Nat) /\ Len(s.nodes) \in Nat
  BY DEF Tables, Nodes
<1>2. CASE RootsOf(s.nodes, c) # {}
  <2>1. PICK q : q = Append(s.contexts, Min(RootsOf(s.nodes, c)))
    OBVIOUS
  <2>2. q \in Seq(Nat)
    <3>1. Min(RootsOf(s.nodes, c)) \in Nat
      BY <1>1, <1>2, LeastRoot
    <3>. QED
      BY <1>1, <2>1, <3>1
  <2>3. Bound(s, c) = [s EXCEPT !.contexts = q]
    BY <1>2, <2>1 DEF Bound
  <2>. QED
    BY <2>2, <2>3 DEF Tables
<1>3. CASE RootsOf(s.nodes, c) = {}
  <2>1. PICK q : q = Append(s.contexts, Len(s.nodes) + 1)
    OBVIOUS
  <2>2. PICK ns : ns = AddNodeEx(s.nodes, Label(c), 0)
    OBVIOUS
  <2>3. q \in Seq(Nat)
    BY <1>1, <2>1
  <2>4. ns \in Nodes
    BY <1>1, <2>2, NodeKept, WordLabel
  <2>5. Bound(s, c) = [nodes |-> ns, contexts |-> q]
    BY <1>3, <2>1, <2>2 DEF Bound
  <2>. QED
    BY <2>3, <2>4, <2>5 DEF Tables
<1>. QED
  BY <1>2, <1>3

\* All contexts in turn.
LEMMA ContextTurns ==
    ASSUME NEW ns \in Nodes,
           NEW good, [nodes |-> ns, contexts |-> <<>>] \in good[0],
           \A i \in 1 .. Len(Context) : \A v \in Tables : v \in good[i - 1] => Bound(v, Context[i]) \in good[i]
    PROVE  SetupContextNodes(ns) \in good[Len(Context)] \cap Tables
<1>. DEFINE n == Len(Context)
            step == [i \in 1 .. n |-> [v \in Tables |-> Bound(v, Context[i])]]
            both == [i \in 0 .. n |-> good[i] \cap Tables]
            Solves(f) == f = [s \in SUBSET DOMAIN Context |->
                                 IF s = {} THEN [nodes |-> ns, contexts |-> <<>>] ELSE Bound(f[s \ {Max(s)}], Context[Max(s)])]
            it == CHOOSE f : Solves(f)
<1>1. n \in Nat /\ DOMAIN Context = 1 .. n /\ \A i \in 1 .. n : Context[i] \in Contexts
  <2>1. Context \in Seq(Contexts)
    BY GraphAssumption
  <2>. QED
    BY <2>1, LenProperties, ElementOfSeq
<1>2. SetupContextNodes(ns) = it[1 .. n]
  BY <1>1 DEF SetupContextNodes, Bound, RootsOf, FoldLeft, MapThenFoldSet
<1>a. \A i \in 1 .. n : \A v \in Tables : v \in good[i - 1] => Bound(v, Context[i]) \in good[i]
  OBVIOUS
<1>b. [nodes |-> ns, contexts |-> <<>>] \in Tables
  <2>1. <<>> \in Seq(Nat)
    BY EmptySeq
  <2>. QED
    BY <2>1 DEF Tables
<1>. HIDE DEF n
<1>3. \A v \in Tables, i \in 1 .. n : Bound(v, Context[i]) \in Tables
  BY <1>1, TableKept
<1>4. Solves(it)
  <2>1. step \in [1 .. n -> [Tables -> Tables]]
    BY <1>3
  <2>. HIDE DEF step, both, it
  <2>2. Turning(n, Tables, [nodes |-> ns, contexts |-> <<>>], step)
    BY <1>1, <2>1, <1>b DEF Turning
  <2>. PICK f : Turned(n, Tables, [nodes |-> ns, contexts |-> <<>>], step, f)
    BY <2>2, FoldSolved
  <2>3. ASSUME NEW s \in SUBSET (1 .. n), s # {}
        PROVE  f[s] = Bound(f[s \ {Max(s)}], Context[Max(s)])
    <3>1. Max(s) \in 1 .. n /\ f[s \ {Max(s)}] \in Tables
      BY <1>1, <2>3, GreatestOf DEF Turned
    <3>. QED
      BY <2>3, <3>1 DEF step, Turned
  <2>4. Solves(f)
    BY <1>1, <2>3 DEF Turned
  <2>. QED
    BY <2>4 DEF it
<1>. HIDE DEF it
<1>5. it[{}] = [nodes |-> ns, contexts |-> <<>>]
  BY <1>1, <1>4
<1>6. ASSUME NEW i \in 1 .. n
      PROVE  it[1 .. i] = Bound(it[1 .. (i - 1)], Context[i])
  <2>1. 1 .. i \in SUBSET (1 .. n) /\ 1 .. i # {} /\ Max(1 .. i) = i /\ (1 .. i) \ {i} = 1 .. (i - 1)
    BY <1>1, LastOf
  <2>. QED
    BY <1>1, <1>4, <2>1
<1>7. it[{}] \in both[0]
  BY <1>1, <1>5, <1>b
<1>8. ASSUME NEW i \in 1 .. n, it[1 .. (i - 1)] \in both[i - 1] PROVE it[1 .. i] \in both[i]
  <2>1. i - 1 \in 0 .. n /\ i \in 0 .. n
    BY <1>1
  <2>2. PICK v \in Tables : v = it[1 .. (i - 1)] /\ v \in good[i - 1]
    BY <1>8, <2>1
  <2>3. Bound(v, Context[i]) \in good[i] \cap Tables
    BY <1>3, <1>a, <2>2
  <2>. QED
    BY <1>6, <2>1, <2>2, <2>3
<1>9. it[1 .. n] \in both[n]
  <2>. HIDE DEF both
  <2>. QED
    BY <1>1, <1>7, <1>8, FoldTurns
<1>. QED
  BY <1>1, <1>2, <1>9 DEF n

\* The first n numbers.
Upto(n) == [k \in 1 .. n |-> k]

LEMMA UptoNext ==
    ASSUME NEW i \in Nat, i # 0
    PROVE  Append(Upto(i - 1), i) = Upto(i)
<1>1. Upto(i - 1) \in [1 .. i - 1 -> Nat] /\ i - 1 \in Nat
  BY DEF Upto
<1>2. Upto(i - 1) \in Seq(Nat) /\ Len(Upto(i - 1)) = i - 1
  BY <1>1, SeqOfFunction
<1>3. PICK q : q = Append(Upto(i - 1), i)
  OBVIOUS
<1>4. q \in Seq(Nat) /\ Len(q) = i /\ q[i] = i /\ \A k \in 1 .. i - 1 : q[k] = Upto(i - 1)[k]
  BY <1>2, <1>3, AppendProperties
<1>5. \A k \in 1 .. i : q[k] = k
  <2>. SUFFICES ASSUME NEW k \in 1 .. i PROVE q[k] = k
    OBVIOUS
  <2>1. k = i \/ k \in 1 .. i - 1
    OBVIOUS
  <2>2. \A h \in 1 .. i - 1 : Upto(i - 1)[h] = h
    BY DEF Upto
  <2>. QED
    BY <1>4, <2>1, <2>2
<1>6. q = [k \in 1 .. i |-> q[k]]
  BY <1>4
<1>. QED
  BY <1>3, <1>5, <1>6 DEF Upto

LEMMA LabelsDiffer ==
    ASSUME NEW i \in 1 .. Len(Context), NEW j \in 1 .. Len(Context), Label(Context[i]) = Label(Context[j])
    PROVE  i = j
<1>1. Context[i] = Context[j]
  BY DEF Label
<1>. QED
  BY <1>1, GraphAssumption DEF IsInjective

\* The graph of a new user.
LEMMA NewGraph ==
    /\ SetupContextNodes(<<>>).nodes \in Nodes /\ Intact(SetupContextNodes(<<>>).nodes)
    /\ SetupContextNodes(<<>>).contexts = Upto(Len(Context))
<1>. DEFINE n == Len(Context)
            Made(s, i) == /\ s.contexts = Upto(i) /\ Len(s.nodes) = i
                          /\ ListedIn(s.nodes) /\ LinkedIn(s.nodes)
                          /\ \A k \in 1 .. i : /\ s.nodes[k].label = Label(Context[k])
                                               /\ s.nodes[k].parent = 0
            good == [i \in 0 .. n |-> {s \in Tables : Made(s, i)}]
            base == [nodes |-> <<>>, contexts |-> <<>>]
<1>1. n \in Nat /\ \A i \in 1 .. n : Context[i] \in Contexts
  BY GraphAssumption, ElementOfSeq
<1>2. base \in good[0] /\ <<>> \in Nodes
  <2>1. <<>> \in Nodes /\ <<>> \in Seq(Nat) /\ Len(<<>>) = 0 /\ 1 .. 0 = {}
    BY EmptySeq DEF Nodes
  <2>2. ListedIn(<<>>) /\ LinkedIn(<<>>)
    BY <2>1, ListedHere, LinkedHere
  <2>3. Upto(0) = <<>>
    BY DEF Upto
  <2>4. base \in Tables
    BY <2>1 DEF Tables
  <2>5. Made(base, 0)
    BY <2>1, <2>2, <2>3
  <2>. HIDE DEF Made, base
  <2>. QED
    BY <1>1, <2>1, <2>4, <2>5
<1>3. ASSUME NEW i \in 1 .. n, NEW s \in Tables, s \in good[i - 1]
      PROVE  Bound(s, Context[i]) \in good[i]
  <2>1. i - 1 \in 0 .. n /\ i \in 0 .. n /\ i \in Nat /\ i # 0 /\ i - 1 \in Nat /\ (i - 1) + 1 = i
    BY <1>1
  <2>2. Made(s, i - 1)
    <3>. HIDE DEF Made
    <3>. QED
      BY <1>3, <2>1
  <2>3. PICK ns : ns = s.nodes
    OBVIOUS
  <2>4. ns \in Nodes /\ Len(ns) = i - 1 /\ s.contexts = Upto(i - 1)
    BY <2>2, <2>3 DEF Tables
  <2>5. RootsOf(ns, Context[i]) = {}
    <3>. SUFFICES ASSUME NEW k \in RootsOf(ns, Context[i]) PROVE FALSE
      OBVIOUS
    <3>1. k \in 1 .. i - 1 /\ ns[k].label = Label(Context[i])
      BY <2>4 DEF RootsOf, Nodes
    <3>2. ns[k].label = Label(Context[k]) /\ k \in 1 .. n /\ k # i
      BY <1>1, <2>2, <2>3, <3>1
    <3>. QED
      BY <3>1, <3>2, LabelsDiffer
  <2>6. PICK c \in Contexts : c = Context[i]
    BY <1>1
  <2>7. Label(c) \in Labels /\ lowerAll(Kept(Label(c))) = Label(c)
    BY WordLabel
  <2>8. PICK rs : rs = AddNodeEx(ns, Label(c), 0)
    OBVIOUS
  <2>9. Grown(ns, rs, Label(c), 0) /\ 0 \in 0 .. Len(ns)
    <3>1. 0 \in 0 .. Len(ns)
      BY <2>1, <2>4
    <3>. QED
      BY <2>4, <2>7, <2>8, <3>1, NodeAdded
  <2>10. PICK t : t = Bound(s, c)
    OBVIOUS
  <2>11. t.nodes = rs /\ t.contexts = Upto(i)
    <3>1. t = [nodes |-> rs, contexts |-> Append(s.contexts, Len(s.nodes) + 1)]
      BY <2>3, <2>5, <2>6, <2>8, <2>10 DEF Bound
    <3>2. Append(s.contexts, Len(s.nodes) + 1) = Upto(i)
      BY <2>1, <2>3, <2>4, UptoNext
    <3>. QED
      BY <3>1, <3>2
  <2>12. ListedIn(rs) /\ LinkedIn(rs)
    BY <2>2, <2>3, <2>4, <2>7, <2>9, ListedGrows, LinkedGrows
  <2>13. ASSUME NEW k \in 1 .. i PROVE rs[k].label = Label(Context[k]) /\ rs[k].parent = 0
    <3>1. CASE k = i
      <4>1. rs[i] = [label |-> Label(c), parent |-> 0, children |-> <<>>, nbrs |-> <<>>]
        BY <2>1, <2>4, <2>9 DEF Grown
      <4>. QED
        BY <2>6, <3>1, <4>1
    <3>2. CASE k # i
      <4>1. k \in 1 .. i - 1
        BY <3>2
      <4>. QED
        BY <2>2, <2>3, <2>4, <2>9, <4>1 DEF Grown
    <3>. QED
      BY <3>1, <3>2
  <2>14. Len(rs) = i
    BY <2>1, <2>4, <2>9 DEF Grown
  <2>15. Made(t, i)
    BY <2>11, <2>12, <2>13, <2>14
  <2>16. t \in Tables
    BY <2>10, TableKept
  <2>. HIDE DEF Made
  <2>17. t \in good[i]
    BY <2>1, <2>15, <2>16
  <2>. QED
    BY <2>6, <2>10, <2>17
<1>4. PICK s : s = SetupContextNodes(<<>>)
  OBVIOUS
<1>5. s \in good[n] /\ s \in Tables
  <2>. HIDE DEF good
  <2>1. [nodes |-> <<>>, contexts |-> <<>>] \in good[0]
    BY <1>2
  <2>. HIDE DEF base
  <2>. QED
    BY <1>2, <1>3, <1>4, <2>1, ContextTurns DEF n
<1>6. Made(s, n)
  <2>. HIDE DEF Made
  <2>. QED
    BY <1>1, <1>5
<1>7. PICK ns : ns = s.nodes
  OBVIOUS
<1>8. ns \in Nodes /\ Len(ns) = n
  BY <1>5, <1>6, <1>7 DEF Tables
<1>9. PlacedIn(ns)
  <2>1. \A k \in 1 .. n : ns[k].label = Label(Context[k]) /\ ns[k].parent = 0
    BY <1>6, <1>7
  <2>2. \A k \in 1 .. n : /\ Settled(Context[k]) = Label(Context[k])
                          /\ Label(Context[k]) \in Labels /\ Settled(Context[k]).word = Context[k]
    BY <1>1, WordLabel
  <2>3. \A k \in 1 .. n : LabelsOf(ns)[k] = Label(Context[k]) /\ ParentsOf(ns)[k] = 0
    BY <1>8, <2>1 DEF LabelsOf, ParentsOf
  <2>. DEFINE label == LabelsOf(ns)
              parent == ParentsOf(ns)
  <2>4. label = [k \in 1 .. n |-> label[k]] /\ parent = [k \in 1 .. n |-> parent[k]]
    BY <1>8 DEF LabelsOf, ParentsOf
  <2>. HIDE DEF label, parent
  <2>5. \A k \in 1 .. n : label[k] = Label(Context[k]) /\ parent[k] = 0
    BY <2>3 DEF label, parent
  <2>6. label \in [1 .. n -> Labels] /\ parent \in [1 .. n -> 0 .. n]
    <3>1. 0 \in 0 .. n
      BY <1>1
    <3>2. \A k \in 1 .. n : label[k] \in Labels /\ parent[k] \in 0 .. n
      BY <2>2, <2>5, <3>1
    <3>. QED
      BY <2>4, <3>2
  <2>7. \A i, j \in 1 .. n : label[i] = label[j] => i = j
    BY <2>5, LabelsDiffer
  <2>8. n >= Len(Context) /\ Roots = 1 .. n
    BY <1>1 DEF Roots
  <2>9. \A k \in 1 .. n : label[k] = Settled(label[k].word) /\ label[k] = Settled(Context[k])
    BY <2>2, <2>5
  <2>10. Placed(n, label, parent)
    BY <1>1, <2>5, <2>6, <2>7, <2>8, <2>9 DEF Placed
  <2>. QED
    BY <1>8, <2>10 DEF PlacedIn, label, parent
<1>10. Intact(ns)
  BY <1>6, <1>7, <1>8, <1>9, IntactParts
<1>. QED
  BY <1>4, <1>6, <1>7, <1>8, <1>10

\* Of a graph that has the contexts nothing is made again.
LEMMA GraphBound ==
    ASSUME NEW ns \in Nodes, Intact(ns)
    PROVE  SetupContextNodes(ns).nodes = ns /\ SetupContextNodes(ns).contexts = Upto(Len(Context))
<1>. DEFINE n == Len(Context)
            Made(s, i) == s.contexts = Upto(i) /\ s.nodes = ns
            good == [i \in 0 .. n |-> {s \in Tables : Made(s, i)}]
            base == [nodes |-> ns, contexts |-> <<>>]
<1>1. n \in Nat /\ \A i \in 1 .. n : Context[i] \in Contexts
  BY GraphAssumption, ElementOfSeq
<1>2. PlacedIn(ns)
  BY IntactParts
<1>3. base \in good[0]
  <2>1. Upto(0) = <<>> /\ <<>> \in Seq(Nat)
    BY EmptySeq DEF Upto
  <2>2. base \in Tables /\ Made(base, 0)
    BY <2>1 DEF Tables
  <2>. HIDE DEF Made, base
  <2>. QED
    BY <1>1, <2>2
<1>4. ASSUME NEW i \in 1 .. n, NEW s \in Tables, s \in good[i - 1]
      PROVE  Bound(s, Context[i]) \in good[i]
  <2>1. i - 1 \in 0 .. n /\ i \in 0 .. n /\ i \in Nat /\ i # 0
    BY <1>1
  <2>2. Made(s, i - 1)
    <3>. HIDE DEF Made
    <3>. QED
      BY <1>4, <2>1
  <2>3. PICK c \in Contexts : c = Context[i]
    BY <1>1
  <2>4. Settled(c) = Label(c) /\ Settled(c).word = c
    BY WordLabel
  <2>5. RootsOf(ns, c) = {i}
    <3>1. i \in RootsOf(ns, c)
      <4>1. i \in Roots /\ i \in DOMAIN ns
        <5>1. i \in Roots
          BY <1>1 DEF Roots
        <5>2. Roots \subseteq 1 .. Len(ns) /\ DOMAIN ns = 1 .. Len(ns)
          BY <1>2, PlacedHere DEF Nodes
        <5>. QED
          BY <5>1, <5>2
      <4>2. ns[i].label = Settled(Context[i]) /\ ns[i].parent = 0
        BY <1>2, <4>1, PlacedHere
      <4>. QED
        BY <2>3, <2>4, <4>1, <4>2 DEF RootsOf
    <3>2. ASSUME NEW k \in RootsOf(ns, c) PROVE k = i
      <4>1. k \in 1 .. Len(ns) /\ ns[k].parent = 0 /\ ns[k].label = Label(c)
        BY DEF RootsOf, Nodes
      <4>2. k \in Roots
        <5>1. 0 \notin Roots
          BY DEF Roots
        <5>. QED
          BY <1>2, <4>1, <5>1, PlacedHere
      <4>3. ns[k].label = Settled(Context[k]) /\ k \in 1 .. n
        BY <1>2, <4>2, PlacedHere DEF Roots
      <4>4. Settled(Context[k]) = Label(Context[k])
        BY <1>1, <4>3, WordLabel
      <4>. QED
        BY <2>3, <4>1, <4>3, <4>4, LabelsDiffer
    <3>. QED
      BY <3>1, <3>2
  <2>6. Min(RootsOf(ns, c)) = i
    BY <2>5, LeastRoot
  <2>7. PICK t : t = Bound(s, c)
    OBVIOUS
  <2>8. t = [s EXCEPT !.contexts = Upto(i)]
    <3>1. s.nodes = ns /\ s.contexts = Upto(i - 1)
      BY <2>2
    <3>2. Append(s.contexts, Min(RootsOf(s.nodes, c))) = Upto(i)
      BY <2>1, <2>6, <3>1, UptoNext
    <3>3. RootsOf(s.nodes, c) # {}
      BY <2>5, <3>1
    <3>. QED
      BY <2>7, <3>2, <3>3 DEF Bound
  <2>9. t.nodes = ns /\ t.contexts = Upto(i)
    BY <2>2, <2>8 DEF Tables
  <2>10. t \in Tables
    BY <2>7, TableKept
  <2>11. Made(t, i)
    BY <2>9
  <2>. HIDE DEF Made
  <2>12. t \in good[i]
    BY <2>1, <2>10, <2>11
  <2>. QED
    BY <2>3, <2>7, <2>12
<1>5. PICK s : s = SetupContextNodes(ns)
  OBVIOUS
<1>6. s \in good[n]
  <2>. HIDE DEF good
  <2>1. [nodes |-> ns, contexts |-> <<>>] \in good[0]
    BY <1>3
  <2>. HIDE DEF base
  <2>. QED
    BY <1>4, <1>5, <2>1, ContextTurns DEF n
<1>7. Made(s, n)
  <2>. HIDE DEF Made
  <2>. QED
    BY <1>1, <1>6
<1>. QED
  BY <1>5, <1>7

----------------------------------------------------------------------------
\* The graph of a process, and its file

\* The graph of a process that is up is whole, and its table of contexts is as it
\* was bound or as /graph/load leaves it; the file is whole unless the process is
\* writing it, or has ended as it was.
GraphInv ==
    /\ up \in BOOLEAN /\ saving \in {"no", "open", "write"}
    /\ up => /\ nodes \in Nodes /\ Intact(nodes)
             /\ \/ contexts = [i \in DOMAIN Context |-> 1]
                \/ contexts = Upto(Len(Context))
    /\ ~up => nodes = <<>> /\ contexts = <<>>
    /\ \/ file = None
       \/ file = Torn /\ (~up \/ saving = "write")
       \/ Saved(file)

LEMMA GraphStarts == Init => GraphInv
  BY NewGraph DEF Init, InitGraph, GraphInv

LEMMA GraphEnds == ASSUME GraphInv, Ends PROVE GraphInv'
  BY DEF GraphInv, Ends

LEMMA GraphHandled ==
    ASSUME GraphInv, GraphHandler \/ GraphStep \/ load_user_from_dir
    PROVE  GraphInv'
<1>1. ASSUME NEW a \in Answers, handle_post_message(a) PROVE GraphInv'
  <2>1. up /\ nodes \in Nodes /\ Intact(nodes) /\ nodes' = DecomposeInputIntoGraph(nodes, a)
    BY <1>1 DEF GraphInv, handle_post_message
  <2>2. nodes' \in Nodes /\ Intact(nodes')
    BY <2>1, MessageHeard
  <2>3. /\ saving = "no" /\ saving' = "open" /\ up' = up /\ contexts' = contexts /\ file' = file
    BY <1>1 DEF handle_post_message
  <2>. QED
    BY <2>1, <2>2, <2>3 DEF GraphInv
<1>2. CASE handle_post_graph_export
  BY <1>2 DEF GraphInv, handle_post_graph_export, graph
<1>3. CASE handle_get_graph_load
  <2>1. /\ up /\ up' = up /\ saving = "no" /\ saving' = saving /\ file' = file
        /\ nodes' = LoadGraphFromFile(file) /\ contexts' = [i \in DOMAIN Context |-> 1] /\ file # None
    BY <1>3 DEF handle_get_graph_load
  <2>2. Saved(file)
    BY <2>1 DEF GraphInv
  <2>3. nodes' \in Nodes /\ Intact(nodes')
    BY <2>1, <2>2, GraphLoaded
  <2>. QED
    BY <2>1, <2>2, <2>3 DEF GraphInv
<1>4. CASE OpenGraph
  BY <1>4 DEF GraphInv, OpenGraph, graph
<1>5. CASE WriteGraph
  <2>1. /\ up /\ up' = up /\ saving' = "no" /\ nodes' = nodes /\ contexts' = contexts
        /\ file' = SeriliazeGraph(nodes)
    BY <1>5 DEF WriteGraph, graph
  <2>2. Saved(file')
    BY <2>1, Written DEF GraphInv
  <2>. QED
    BY <2>1, <2>2 DEF GraphInv
<1>6. CASE load_user_from_dir
  <2>. DEFINE loaded == IF file = None THEN <<>> ELSE LoadGraphFromFile(file)
  <2>1. /\ ~up /\ up' = TRUE /\ file # Torn /\ file' = file /\ saving' = saving
        /\ nodes' = SetupContextNodes(loaded).nodes /\ contexts' = SetupContextNodes(loaded).contexts
    BY <1>6 DEF load_user_from_dir
  <2>2. nodes' \in Nodes /\ Intact(nodes') /\ contexts' = Upto(Len(Context))
    <3>1. CASE file = None
      BY <2>1, <3>1, NewGraph
    <3>2. CASE file # None
      <4>1. Saved(file)
        BY <2>1, <3>2 DEF GraphInv
      <4>2. loaded \in Nodes /\ Intact(loaded)
        BY <3>2, <4>1, GraphLoaded
      <4>. HIDE DEF loaded
      <4>. QED
        BY <2>1, <4>2, GraphBound
    <3>. QED
      BY <3>1, <3>2
  <2>. HIDE DEF loaded
  <2>. QED
    BY <2>1, <2>2 DEF GraphInv
<1>. QED
  BY <1>1, <1>2, <1>3, <1>4, <1>5, <1>6 DEF GraphHandler, GraphStep

\* The invariant of the graph: whole at every moment the process is up, and the file
\* is one of a whole graph unless it was cut short (node.c, json-to-graph.c,
\* graph-export.c, user-io.c).
THEOREM GraphInductive == Spec => []GraphInv
<1>1. Init => GraphInv
  BY GraphStarts
<1>2. GraphInv /\ [Next]_vars => GraphInv'
  <2>. SUFFICES ASSUME GraphInv, [Next]_vars PROVE GraphInv'
    OBVIOUS
  <2>1. ASSUME UNCHANGED graphVars PROVE GraphInv'
    BY <2>1 DEF GraphInv, graphVars
  <2>2. CASE OfGraph
    BY <2>2, GraphHandled DEF OfGraph
  <2>3. CASE \E min \in MinDepths : handle_post_research_start(min)
    BY <2>1, <2>3 DEF handle_post_research_start
  <2>4. CASE \E r \in Responses : think(r)
    BY <2>1, <2>4, GraphEnds DEF think, Fall
  <2>5. CASE \E pass, given \in BOOLEAN : judge_result(pass, given)
    BY <2>1, <2>5, GraphEnds DEF judge_result, Fall
  <2>6. CASE answer
    BY <2>1, <2>6 DEF answer
  <2>7. CASE Crash
    BY <2>7, GraphEnds DEF Crash, Fall
  <2>8. CASE UNCHANGED vars
    BY <2>1, <2>8 DEF vars
  <2>. QED
    BY <2>2, <2>3, <2>4, <2>5, <2>6, <2>7, <2>8 DEF Next, Searching
<1>. QED
  BY <1>1, <1>2, PTL DEF Spec

LEMMA SoundNow == GraphInv => GraphSound
<1>. SUFFICES ASSUME GraphInv PROVE GraphSound
  OBVIOUS
<1>1. CASE ~up
  <2>1. nodes = <<>> /\ DOMAIN nodes = {} /\ up \in BOOLEAN /\ saving \in {"no", "open", "write"}
    BY <1>1 DEF GraphInv
  <2>. QED
    BY <1>1, <2>1 DEF GraphSound, GraphTypeOK, ContextsOnce, OneNodePerName, LinksMutual
<1>2. CASE up
  <2>1. /\ nodes \in Nodes /\ Intact(nodes) /\ DOMAIN nodes = 1 .. Len(nodes) /\ Len(nodes) \in Nat
        /\ \/ contexts = [i \in DOMAIN Context |-> 1]
           \/ contexts = Upto(Len(Context))
    BY <1>2 DEF GraphInv, Nodes
  <2>2. PlacedIn(nodes) /\ ListedIn(nodes) /\ LinkedIn(nodes)
    BY <2>1, IntactParts
  <2>3. /\ Len(nodes) >= Len(Context) /\ Roots \subseteq 1 .. Len(nodes)
        /\ \A i \in 1 .. Len(nodes) : /\ nodes[i].label \in Labels
                                      /\ nodes[i].parent \in 0 .. Len(nodes)
                                      /\ i \notin Roots => nodes[i].parent \in Roots
        /\ \A i \in Roots : nodes[i].label = Settled(Context[i]) /\ nodes[i].parent = 0
        /\ \A i, j \in 1 .. Len(nodes) :
              Faithful(nodes[i].label) /\ nodes[i].label = nodes[j].label
              /\ nodes[i].parent = nodes[j].parent => i = j
    BY <2>1, <2>2, PlacedHere
  <2>4. Len(Context) \in Nat /\ DOMAIN Context = 1 .. Len(Context)
        /\ \A i \in 1 .. Len(Context) : Context[i] \in Contexts
    BY GraphAssumption, ElementOfSeq
  <2>5. \A i, j \in Roots : Settled(Context[i]) = Settled(Context[j]) => i = j
    <3>1. \A i \in Roots : Settled(Context[i]) = Label(Context[i])
      BY <2>4, WordLabel DEF Roots
    <3>. QED
      BY <3>1, LabelsDiffer DEF Roots
  <2>6. GraphTypeOK
    <3>1. \A i \in DOMAIN nodes : nodes[i].label \in Labels /\ nodes[i].parent \in 0 .. Len(nodes)
      BY <2>1, <2>3
    <3>2. ASSUME NEW i \in DOMAIN nodes PROVE Range(nodes[i].nbrs) \subseteq DOMAIN nodes
      <4>1. nodes[i].nbrs \in Seq(1 .. Len(nodes))
        BY <2>1, <2>2, LinkedHere
      <4>2. DOMAIN nodes[i].nbrs = 1 .. Len(nodes[i].nbrs)
        BY <4>1
      <4>. QED
        BY <2>1, <4>1, <4>2, ElementOfSeq DEF Range
    <3>3. \A i \in DOMAIN nodes : /\ DOMAIN nodes[i].children \subseteq Labels
                                  /\ Range(nodes[i].children) \subseteq DOMAIN nodes
      BY <2>1, <2>2, ListedHere DEF Range
    <3>4. contexts \in [DOMAIN Context -> DOMAIN nodes]
      <4>1. \A i \in DOMAIN Context : i \in DOMAIN nodes /\ 1 \in DOMAIN nodes
        BY <2>1, <2>3, <2>4
      <4>2. Upto(Len(Context)) = [i \in DOMAIN Context |-> i]
        BY <2>4 DEF Upto
      <4>. QED
        BY <2>1, <4>1, <4>2
    <3>5. up \in BOOLEAN /\ saving \in {"no", "open", "write"}
      BY DEF GraphInv
    <3>. QED
      BY <3>1, <3>2, <3>3, <3>4, <3>5 DEF GraphTypeOK
  <2>7. ContextsOnce
    <3>1. ASSUME NEW i \in DOMAIN nodes, NEW j \in DOMAIN nodes,
                 nodes[i].parent = 0, nodes[j].parent = 0, nodes[i].label = nodes[j].label
          PROVE  i = j
      <4>1. i \in Roots /\ j \in Roots
        <5>1. 0 \notin Roots
          BY DEF Roots
        <5>. QED
          BY <2>1, <2>3, <3>1, <5>1
      <4>. QED
        BY <2>3, <2>5, <3>1, <4>1
    <3>2. contexts = Upto(Len(Context)) =>
             \A i \in DOMAIN Context : /\ nodes[contexts[i]].label = Label(Context[i])
                                       /\ nodes[contexts[i]].parent = 0
      <4>1. \A i \in DOMAIN Context : i \in Roots /\ Upto(Len(Context))[i] = i
        BY <2>4 DEF Upto, Roots
      <4>2. \A i \in DOMAIN Context : Settled(Context[i]) = Label(Context[i])
        BY <2>4, WordLabel
      <4>. QED
        BY <2>3, <4>1, <4>2
    <3>3. contexts = [i \in DOMAIN Context |-> 1] => \A i \in DOMAIN Context : contexts[i] = 1
      OBVIOUS
    <3>. QED
      BY <2>1, <3>1, <3>2, <3>3 DEF ContextsOnce
  <2>8. OneNodePerName
    BY <2>1, <2>3 DEF OneNodePerName, Faithful
  <2>9. LinksMutual
    <3>1. \A i, j \in DOMAIN nodes : Times(i, j) = Count(nodes[i].nbrs, j)
      BY DEF Times, Count
    <3>2. \A i, j \in 1 .. Len(nodes) :
             /\ Count(nodes[i].nbrs, j) = Count(nodes[j].nbrs, i)
             /\ Count(nodes[i].nbrs, j) > 0 => nodes[i].parent = nodes[j].parent /\ nodes[i].parent # 0
      BY <2>1, <2>2, LinkedHere
    <3>. QED
      BY <2>1, <3>1, <3>2 DEF LinksMutual
  <2>. QED
    BY <2>6, <2>7, <2>8, <2>9 DEF GraphSound
<1>3. up \in BOOLEAN
  BY DEF GraphInv
<1>. QED
  BY <1>1, <1>2, <1>3

\* The graph keeps its shape over messages, saves, loads, crashes and starts: each
\* context once, one node for a name that is looked for as it is kept, every link
\* from both ends and as often (AddNodeFromEntry, ProcessArrayLinkage,
\* SetupContextNodes, LoadGraphFromFile).
THEOREM GraphStaysSound == Spec => []GraphSound
  BY GraphInductive, SoundNow, PTL

LEMMA Restarted ==
    ASSUME GraphInv, [Next]_vars, ~up, up', file # None
    PROVE  /\ \A i \in DOMAIN file.nodes :
                 nodes'[i].label = file.nodes[i].name /\ nodes'[i].parent = file.nodes[i].parent
           /\ \A i \in DOMAIN nodes' : \A j \in Range(nodes'[i].nbrs) : Contains(file.connections, <<i, j>>)
           /\ \A k \in DOMAIN file.connections :
                 file.connections[k][2] \in Range(nodes'[file.connections[k][1]].nbrs)
<1>1. load_user_from_dir
  BY DEF Next, OfGraph, Searching, Crash, Fall, Ends, think, judge_result, answer, graphVars, vars,
         handle_post_research_start, GraphHandler, GraphStep, OpenGraph, WriteGraph,
         handle_post_message, handle_post_graph_export, handle_get_graph_load
<1>2. PICK g : g = file
  OBVIOUS
<1>3. PICK ns : ns = LoadGraphFromFile(g)
  OBVIOUS
<1>4. Saved(g)
  BY <1>1, <1>2 DEF GraphInv, load_user_from_dir
<1>5. /\ ns \in Nodes /\ Intact(ns) /\ Len(ns) = Len(g.nodes)
      /\ \A i \in 1 .. Len(g.nodes) : /\ ns[i].label = g.nodes[i].name
                                      /\ ns[i].parent = g.nodes[i].parent
      /\ \A i, j \in 1 .. Len(g.nodes) :
            Count(ns[i].nbrs, j) > 0 <=> Contains(g.connections, <<i, j>>)
  BY <1>3, <1>4, GraphLoaded
<1>6. nodes' = ns
  <2>1. nodes' = SetupContextNodes(ns).nodes
    BY <1>1, <1>2, <1>3 DEF load_user_from_dir
  <2>. QED
    BY <1>5, <2>1, GraphBound
<1>7. g.nodes \in Seq([name : Labels, parent : Nat]) /\ g.connections \in Seq(Pairings)
  <2>1. g \in Files
    BY <1>4, SavedHere
  <2>2. g.nodes \in Seq([name : Labels, parent : Nat])
    BY <2>1 DEF Files
  <2>3. g.connections \in Seq(Pairings)
    BY <2>1 DEF Files
  <2>. QED
    BY <2>2, <2>3
<1>8. DOMAIN g.nodes = 1 .. Len(g.nodes) /\ DOMAIN g.connections = 1 .. Len(g.connections)
      /\ DOMAIN ns = 1 .. Len(ns)
  BY <1>5, <1>7 DEF Nodes
<1>9. ASSUME NEW i \in 1 .. Len(ns), NEW j \in 1 .. Len(ns)
      PROVE  j \in Range(ns[i].nbrs) <=> Contains(g.connections, <<i, j>>)
  <2>1. PICK q : q = ns[i].nbrs
    OBVIOUS
  <2>2. q \in Seq(Nat)
    <3>1. ns[i] \in NodeRec
      BY <1>5 DEF Nodes
    <3>. QED
      BY <2>1, <3>1 DEF NodeRec
  <2>3. j \in Range(q) <=> \E k \in 1 .. Len(q) : q[k] = j
    BY <2>2 DEF Range
  <2>4. j \in Range(q) <=> Count(q, j) > 0
    BY <2>2, <2>3, CountType
  <2>. QED
    BY <1>5, <2>1, <2>4
<1>10. ASSUME NEW i \in DOMAIN ns, NEW j \in Range(ns[i].nbrs) PROVE Contains(g.connections, <<i, j>>)
  <2>1. ns[i].nbrs \in Seq(1 .. Len(ns))
    BY <1>5, <1>8, IntactParts, LinkedHere
  <2>2. j \in 1 .. Len(ns)
    <3>1. DOMAIN ns[i].nbrs = 1 .. Len(ns[i].nbrs)
      BY <2>1
    <3>. QED
      BY <2>1, <3>1, ElementOfSeq DEF Range
  <2>. QED
    BY <1>8, <1>9, <1>10, <2>2
<1>11. ASSUME NEW k \in DOMAIN g.connections
       PROVE  g.connections[k][2] \in Range(ns[g.connections[k][1]].nbrs)
  <2>1. g.connections[k] \in Pairings
    BY <1>7, <1>8, <1>11, ElementOfSeq
  <2>2. PICK i \in Nat, j \in Nat : g.connections[k] = <<i, j>>
    BY <2>1 DEF Pairings
  <2>3. i \in 1 .. Len(ns) /\ j \in 1 .. Len(ns)
    BY <1>4, <1>5, <1>8, <2>2, SavedHere
  <2>4. Contains(g.connections, <<i, j>>)
    BY <1>8, <2>2 DEF Contains
  <2>5. j \in Range(ns[i].nbrs)
    BY <1>9, <2>3, <2>4
  <2>. QED
    BY <2>2, <2>5
<1>. QED
  BY <1>2, <1>5, <1>6, <1>8, <1>10, <1>11

\* A start after a whole save brings back every node with its name and place, and
\* every link, and no others (load_user_from_dir, LoadGraphFromFile after
\* SeriliazeGraph).
THEOREM RestartKeeps == Spec => RestartKeepsGraph
<1>1. GraphInv /\ [Next]_vars =>
         [~up /\ up' /\ file # None =>
            /\ \A i \in DOMAIN file.nodes :
                 nodes'[i].label = file.nodes[i].name /\ nodes'[i].parent = file.nodes[i].parent
            /\ \A i \in DOMAIN nodes' : \A j \in Range(nodes'[i].nbrs) : Contains(file.connections, <<i, j>>)
            /\ \A k \in DOMAIN file.connections :
                 file.connections[k][2] \in Range(nodes'[file.connections[k][1]].nbrs)]_graphVars
  BY Restarted
<1>. QED
  BY <1>1, GraphInductive, PTL DEF Spec, RestartKeepsGraph

\* What the commands print of the graph can be asked about: the label of a node and
\* that of its context lead run2 and run3 to a node of that label, also after it was
\* cut, lowered, saved and loaded (AddNodeEx, FindNode), unless /graph/load has
\* dropped the table of contexts.
THEOREM ShownAreFound == Spec => []ShownNamesAreFound
<1>1. GraphInv => ShownNamesAreFound
  <2>. SUFFICES ASSUME GraphInv, up, ~ \A i \in DOMAIN contexts : contexts[i] = 1,
                       NEW i \in DOMAIN nodes, nodes[i].parent # 0
                PROVE  LET c == context_of(nodes[nodes[i].parent].label.word)
                           at == IF c = 0 THEN 0 ELSE FindNode(nodes, nodes[i].label, c)
                       IN  at # 0 /\ nodes[at].label = nodes[i].label
    BY DEF ShownNamesAreFound
  <2>1. /\ nodes \in Nodes /\ Intact(nodes) /\ DOMAIN nodes = 1 .. Len(nodes)
        /\ contexts = Upto(Len(Context)) /\ PlacedIn(nodes)
    BY IntactParts DEF GraphInv, Nodes
  <2>2. PICK p : p = nodes[i].parent
    OBVIOUS
  <2>3. p \in Roots /\ nodes[p].label = Settled(Context[p])
    BY <2>1, <2>2, PlacedHere
  <2>4. Context[p] \in Contexts /\ Len(Context) \in Nat /\ DOMAIN contexts = Roots
        /\ \A k \in Roots : contexts[k] = k /\ Context[k] \in Contexts
    BY <2>1, <2>3, GraphAssumption, ElementOfSeq DEF Roots, Upto
  <2>5. PICK w \in Contexts : w = Context[p]
    BY <2>4
  <2>6. /\ nodes[p].label.word = w /\ Settled(w) = Label(w) /\ lowerAll(Label(w)) = Label(w)
    BY <2>3, <2>5, WordLabel
  <2>7. {k \in DOMAIN contexts : nodes[contexts[k]].label = lowerAll(Label(w))} = {p}
    <3>1. \A k \in Roots : nodes[k].label = Label(Context[k])
      BY <2>1, <2>4, PlacedHere, WordLabel
    <3>2. \A k \in Roots : Label(Context[k]) = Label(w) <=> k = p
      BY <2>3, <2>5, LabelsDiffer DEF Roots
    <3>. QED
      BY <2>3, <2>4, <2>6, <3>1, <3>2
  <2>8. Min({p}) = p
    <3>1. p \in Nat
      BY <2>3 DEF Roots
    <3>2. \E x \in {p} : \A y \in {p} : x =< y
      BY <3>1
    <3>3. Min({p}) \in {p}
      BY <3>2 DEF Min
    <3>. QED
      BY <3>3
  <2>9. context_of(w) = p
    BY <2>3, <2>4, <2>7, <2>8 DEF context_of
  <2>10. PICK l : l = nodes[i].label
    OBVIOUS
  <2>11. l \in Labels /\ lowerAll(l) = l
    <3>1. l \in Labels /\ l = Settled(l.word)
      BY <2>1, <2>10, PlacedHere
    <3>2. l.word \in Words \cup Contexts
      BY <3>1 DEF Labels
    <3>. QED
      BY <3>1, <3>2, WordLabel
  <2>12. FindNode(nodes, l, p) # 0 /\ nodes[FindNode(nodes, l, p)].label = l
    BY <2>1, <2>2, <2>3, <2>10, <2>11, Found
  <2>13. p # 0
    BY <2>3 DEF Roots
  <2>. QED
    BY <2>2, <2>6, <2>9, <2>10, <2>12, <2>13
<1>. QED
  BY <1>1, GraphInductive, PTL

=============================================================================
