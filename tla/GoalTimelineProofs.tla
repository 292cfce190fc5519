-------------------------- MODULE GoalTimelineProofs --------------------------
(* What the timeline of goals promises, proved for every value of its       *)
(* constants. The walks over the tree are functions by recursion; what they *)
(* compute is proved by induction on where a goal is in the journey, which  *)
(* rests on every set of naturals having a least element.                   *)
EXTENDS GoalTimeline, SequenceTheorems, WellFoundedInduction, TLAPS

----------------------------------------------------------------------------
\* The invariant

\* Children are made after their goal, in order, and know it.
KidsLater ==
    \A g \in Goals : \A i \in 1 .. Len(Kids(g)) :
        /\ Kids(g)[i] > g /\ Parent(Kids(g)[i]) = g
        /\ goal[Kids(g)[i]].prev = IF i = 1 THEN NoGoal ELSE Kids(g)[i - 1]

\* A goal is made after its parent, and after a sibling it follows.
ParentsEarlier ==
    \A g \in Goals :
        /\ Parent(g) < g /\ goal[g].prev < g
        /\ goal[g].prev # NoGoal => Parent(g) # NoGoal /\ Parent(goal[g].prev) = Parent(g)

\* Requests and handlers are about goals there are.
Referenced ==
    /\ \A c \in Client : sent[c].op \notin {"none", "create"} => sent[c].goal \in Goals
    /\ \A p \in Port :
          /\ work[p].op \in {"none", "create", "start", "session", "reshape"}
          /\ work[p].op \in {"create", "reshape"} \/ work[p].thinking => work[p].at \in Goals
          /\ work[p].thinking => work[p].op # "none"

GInv == TypeOK /\ KidsLater /\ ParentsEarlier /\ Referenced /\ JournalDoneHasEntry

\* A handler knows the leaf it waits for an answer about.
HandlersKnow ==
    \A p \in Port :
        /\ work[p].op = "create" \/ work[p].thinking => IsLeaf(work[p].at)
        /\ work[p].op = "reshape" => work[p].thinking

PInv == HandlersKnow /\ EveryGoalHasItsPlace

RunningIsLeaf == \A g \in Goals : goal[g].status = "running" => IsLeaf(g)

Lasts == [g \in Goals |-> last_leaf(g)]
Befores == [g \in Goals |-> previous_timeline_leaf(g)]

LocallyInOrder ==
    \A g \in Goals : IsLeaf(g) /\ ~Open(g) /\ Befores[g] # NoGoal => Done(Befores[g])

\* Nothing happened to the leaf meanwhile, and who waits asks for nothing else.
LeavesKept ==
    \A p \in Port :
        /\ work[p].op = "reshape" => goal[work[p].at].status = "running"
        /\ work[p].op = "create" \/ (work[p].thinking /\ work[p].op # "reshape") => Open(work[p].at)
        /\ work[p].op \in {"create", "start", "reshape"} =>
              work[p].who \in Client /\ \A c \in Client : sent[c] = NoRequest

\* Nor to what a screen shows before its request is served.
ScreensTrue ==
    \A c \in Client :
        /\ sent[c].op \in {"end", "extend", "reshape"} => goal[sent[c].goal].status = "running"
        /\ sent[c].op = "cancel" => ~Done(sent[c].goal)

DInv ==
    /\ RunningIsLeaf /\ LocallyInOrder /\ ParentsFollowChildren /\ LeavesKept /\ ScreensTrue
    /\ AssertionsHold

----------------------------------------------------------------------------
\* Induction

\* Every set of naturals that is not empty has a least element.
LEMMA LeastNatural ==
    ASSUME NEW T \in SUBSET Nat, T # {}
    PROVE  \E n \in T : \A m \in T : n <= m
<1>1. PICK n \in T : \A m \in T : ~ <<m, n>> \in OpToRel(<, Nat)
  BY NatLessThanWellFounded, WFMin
<1>2. ASSUME NEW m \in T PROVE n <= m
  <2>1. n \in Nat /\ m \in Nat
    OBVIOUS
  <2>2. ~ (m < n)
    BY <1>1, <2>1 DEF OpToRel
  <2>. QED
    BY <2>1, <2>2
<1>. QED
  BY <1>2

\* A set that has everything all of whose lower elements it has, has all.
Inductive(S, m, T) ==
    /\ m \in [S -> Nat] /\ T \in SUBSET S
    /\ \A h \in S : (\A k \in S : m[k] < m[h] => k \in T) => h \in T

LEMMA MeasureInduction == ASSUME NEW S, NEW m, NEW T, Inductive(S, m, T) PROVE T = S
<1>. SUFFICES ASSUME T # S PROVE FALSE
  OBVIOUS
<1>. DEFINE M == {m[h] : h \in S \ T}
<1>0. /\ m \in [S -> Nat] /\ T \in SUBSET S
      /\ \A h \in S : (\A k \in S : m[k] < m[h] => k \in T) => h \in T
  BY DEF Inductive
<1>1. M \in SUBSET Nat /\ M # {}
  BY <1>0
<1>2. PICK n \in M : \A k \in M : n <= k
  BY <1>1, LeastNatural
<1>3. PICK h \in S \ T : n = m[h]
  OBVIOUS
<1>4. ASSUME NEW k \in S, m[k] < m[h] PROVE k \in T
  <2>. SUFFICES ASSUME k \notin T PROVE FALSE
    OBVIOUS
  <2>1. m[k] \in M /\ m[k] \in Nat /\ m[h] \in Nat
    BY <1>0
  <2>2. n <= m[k]
    BY <1>2, <2>1
  <2>. QED
    BY <1>3, <1>4, <2>1, <2>2
<1>. QED
  BY <1>0, <1>3, <1>4

\* A rule that looks only at lower arguments has a solution.
Recursion(S, V, m, b, rule) ==
    /\ V # {} /\ m \in [S -> Nat] /\ b \in Nat /\ \A h \in S : m[h] < b
    /\ rule \in [S -> [[S -> V] -> V]]
    /\ \A h \in S : \A f, g \in [S -> V] :
           (\A k \in S : m[k] < m[h] => f[k] = g[k]) => rule[h][f] = rule[h][g]

LEMMA RecursionSolved ==
    ASSUME NEW S, NEW V, NEW m, NEW b, NEW rule, Recursion(S, V, m, b, rule)
    PROVE  \E f \in [S -> V] : \A h \in S : f[h] = rule[h][f]
<1>. DEFINE Upto(n) == \E f \in [S -> V] : \A h \in S : m[h] < n => f[h] = rule[h][f]
            T == {n \in Nat : Upto(n)}
            id == [n \in Nat |-> n]
<1>0. /\ m \in [S -> Nat] /\ b \in Nat /\ \A h \in S : m[h] < b
      /\ rule \in [S -> [[S -> V] -> V]]
      /\ \A h \in S : \A f, g \in [S -> V] :
             (\A k \in S : m[k] < m[h] => f[k] = g[k]) => rule[h][f] = rule[h][g]
  BY DEF Recursion
<1>1. Upto(0)
  <2>0. PICK v \in V : TRUE
    BY DEF Recursion
  <2>1. [h \in S |-> v] \in [S -> V]
    OBVIOUS
  <2>2. \A h \in S : ~ (m[h] < 0)
    BY <1>0
  <2>. QED
    BY <1>0, <2>1, <2>2
<1>2. ASSUME NEW n \in Nat, Upto(n) PROVE Upto(n + 1)
  <2>1. PICK f \in [S -> V] : \A h \in S : m[h] < n => f[h] = rule[h][f]
    BY <1>2
  <2>. DEFINE g == [h \in S |-> rule[h][f]]
  <2>2. g \in [S -> V]
    BY <1>0
  <2>3. \A h \in S : m[h] < n => g[h] = f[h]
    BY <2>1
  <2>4. ASSUME NEW h \in S, m[h] < n + 1 PROVE g[h] = rule[h][g]
    <3>1. m[h] \in Nat /\ n \in Nat
      BY <1>0
    <3>2. \A k \in S : m[k] < m[h] => f[k] = g[k]
      BY <1>0, <2>3, <2>4, <3>1
    <3>3. rule[h][f] = rule[h][g]
      BY <1>0, <2>2, <3>2
    <3>. QED
      BY <3>3
  <2>. HIDE DEF g
  <2>. QED
    BY <2>2, <2>4
<1>. HIDE DEF Upto
<1>3. \A n \in Nat : (\A k \in Nat : id[k] < id[n] => k \in T) => n \in T
  <2>. SUFFICES ASSUME NEW n \in Nat, \A k \in Nat : id[k] < id[n] => k \in T
                PROVE  Upto(n)
    OBVIOUS
  <2>1. CASE n = 0
    BY <1>1, <2>1
  <2>2. CASE n # 0
    <3>1. n - 1 \in Nat /\ n - 1 < n /\ (n - 1) + 1 = n
      BY <2>2
    <3>2. Upto(n - 1)
      BY <3>1
    <3>. QED
      BY <1>2, <3>1, <3>2
  <2>. QED
    BY <2>1, <2>2
<1>4. T = Nat
  <2>1. id \in [Nat -> Nat] /\ T \in SUBSET Nat
    OBVIOUS
  <2>. HIDE DEF T, id
  <2>2. Inductive(Nat, id, T)
    BY <1>3, <2>1 DEF Inductive
  <2>. QED
    BY <2>2, MeasureInduction
<1>5. Upto(b)
  BY <1>0, <1>4
<1>. QED
  BY <1>0, <1>5 DEF Upto

----------------------------------------------------------------------------
\* Loops

\* How far a goal is from the end of its loop.
Descends(next, m) ==
    \A h \in DOMAIN next : next[h] # NoGoal => next[h] \in DOMAIN next /\ m[next[h]] < m[h]

\* What Follow finds, one turn of the loop at a time.
LEMMA FollowTurns ==
    ASSUME NEW n \in Nat, NEW next \in [1 .. n -> 0 .. n], NEW m \in [1 .. n -> 0 .. n],
           Descends(next, m)
    PROVE  \A g \in 1 .. n : Follow(next, g) = IF next[g] = NoGoal THEN g ELSE Follow(next, next[g])
<1>. DEFINE S == 1 .. n
            rule == [h \in S |-> [f \in [S -> S] |-> IF next[h] = NoGoal THEN h ELSE f[next[h]]]]
            Ends(f) == f = [h \in S |-> IF next[h] = NoGoal THEN h ELSE f[next[h]]]
            end == CHOOSE f : Ends(f)
<1>0. DOMAIN next = S
  OBVIOUS
<1>1. \A h \in S : next[h] # NoGoal => next[h] \in S /\ m[next[h]] < m[h]
  BY <1>0 DEF Descends
<1>2. \E f : Ends(f)
  <2>1. CASE S = {}
    BY <2>1
  <2>2. CASE S # {}
    <3>1. PICK v \in S : TRUE
      BY <2>2
    <3>2. rule \in [S -> [[S -> S] -> S]]
      BY <1>1
    <3>3. ASSUME NEW h \in S, NEW f \in [S -> S], NEW g \in [S -> S],
                 \A k \in S : m[k] < m[h] => f[k] = g[k]
          PROVE  rule[h][f] = rule[h][g]
      <4>1. CASE next[h] = NoGoal
        BY <4>1
      <4>2. CASE next[h] # NoGoal
        <5>1. f[next[h]] = g[next[h]]
          BY <1>1, <3>3, <4>2
        <5>. QED
          BY <4>2, <5>1
      <4>. QED
        BY <4>1, <4>2
    <3>4. m \in [S -> Nat] /\ n + 1 \in Nat /\ \A h \in S : m[h] < n + 1
      OBVIOUS
    <3>5. Recursion(S, S, m, n + 1, rule)
      <4>. HIDE DEF rule, S
      <4>. QED
        BY <3>1, <3>2, <3>3, <3>4 DEF Recursion
    <3>6. \E f \in [S -> S] : \A h \in S : f[h] = rule[h][f]
      <4>. HIDE DEF rule, S
      <4>. QED
        BY <3>5, RecursionSolved
    <3>7. PICK f \in [S -> S] : \A h \in S : f[h] = rule[h][f]
      BY <3>6
    <3>8. f = [h \in S |-> IF next[h] = NoGoal THEN h ELSE f[next[h]]]
      BY <3>7
    <3>. QED
      BY <3>8
  <2>. QED
    BY <2>1, <2>2
<1>3. Ends(end)
  BY <1>2
<1>4. \A h \in S : Follow(next, h) = end[h]
  BY <1>0 DEF Follow
<1>5. \A h \in S : end[h] = IF next[h] = NoGoal THEN h ELSE end[next[h]]
  <2>1. end = [h \in S |-> IF next[h] = NoGoal THEN h ELSE end[next[h]]]
    BY <1>3
  <2>. HIDE DEF end
  <2>. QED
    BY <2>1
<1>. HIDE DEF end
<1>. QED
  BY <1>1, <1>4, <1>5

\* A loop that stays within a set ends there.
LEMMA FollowStays ==
    ASSUME NEW n \in Nat, NEW next \in [1 .. n -> 0 .. n], NEW m \in [1 .. n -> 0 .. n],
           Descends(next, m), NEW T \in SUBSET (1 .. n),
           \A h \in T : next[h] # NoGoal => next[h] \in T
    PROVE  \A g \in T : Follow(next, g) \in T /\ next[Follow(next, g)] = NoGoal
<1>. DEFINE S == 1 .. n
            Good == {h \in S : h \in T => Follow(next, h) \in T /\ next[Follow(next, h)] = NoGoal}
<1>1. ASSUME NEW h \in S, \A k \in S : m[k] < m[h] => k \in Good
      PROVE  h \in Good
  <2>. SUFFICES ASSUME h \in T PROVE Follow(next, h) \in T /\ next[Follow(next, h)] = NoGoal
    OBVIOUS
  <2>1. CASE next[h] = NoGoal
    BY <2>1, FollowTurns
  <2>2. CASE next[h] # NoGoal
    <3>1. next[h] \in T /\ next[h] \in 1 .. n /\ m[next[h]] < m[h]
      BY <2>2 DEF Descends
    <3>2. next[h] \in Good
      BY <1>1, <3>1
    <3>3. Follow(next, h) = Follow(next, next[h])
      BY <2>2, FollowTurns
    <3>. QED
      BY <3>1, <3>2, <3>3
  <2>. QED
    BY <2>1, <2>2
<1>2. m \in [S -> Nat] /\ Good \in SUBSET S
  OBVIOUS
<1>3. Good = S
  <2>. HIDE DEF Good, S
  <2>1. Inductive(S, m, Good)
    BY <1>1, <1>2 DEF Inductive
  <2>. QED
    BY <2>1, MeasureInduction
<1>. QED
  BY <1>3

----------------------------------------------------------------------------
\* The tree

LEMMA GoalsTyped ==
    TypeOK => /\ Len(goal) \in Nat /\ Goals = 1 .. Len(goal)
              /\ \A g \in Goals : goal[g] \in GoalRec(Len(goal))
  BY DEF TypeOK, Goals

LEMMA FieldsTyped ==
    TypeOK => \A g \in Goals :
        /\ g \in Nat /\ g # NoGoal
        /\ Parent(g) \in Goals \cup {NoGoal} /\ goal[g].prev \in Goals \cup {NoGoal}
        /\ Kids(g) \in Seq(Goals)
<1>. SUFFICES ASSUME TypeOK, NEW g \in Goals
              PROVE  /\ g \in Nat /\ g # NoGoal
                     /\ Parent(g) \in Goals \cup {NoGoal} /\ goal[g].prev \in Goals \cup {NoGoal}
                     /\ Kids(g) \in Seq(Goals)
  OBVIOUS
<1>. DEFINE n == Len(goal)
<1>1. n \in Nat /\ Goals = 1 .. n /\ goal[g] \in GoalRec(n)
  BY GoalsTyped
<1>. HIDE DEF n
<1>2. g \in Nat /\ g # NoGoal
  BY <1>1 DEF NoGoal
<1>3. Parent(g) \in 0 .. n /\ goal[g].prev \in 0 .. n /\ Kids(g) \in Seq(1 .. n)
  BY <1>1 DEF GoalRec, Parent, Kids
<1>. QED
  BY <1>1, <1>2, <1>3 DEF NoGoal

\* What is known of the children of a goal that has some.
LEMMA KidsTyped ==
    TypeOK /\ KidsLater => \A g \in Goals :
        /\ Len(Kids(g)) \in Nat /\ DOMAIN Kids(g) = 1 .. Len(Kids(g))
        /\ IsLeaf(g) <=> Len(Kids(g)) = 0
        /\ \A i \in 1 .. Len(Kids(g)) :
              /\ Kids(g)[i] \in Goals /\ Kids(g)[i] > g /\ Parent(Kids(g)[i]) = g
              /\ goal[Kids(g)[i]].prev = IF i = 1 THEN NoGoal ELSE Kids(g)[i - 1]
<1>. SUFFICES ASSUME TypeOK, KidsLater, NEW g \in Goals
              PROVE  /\ Len(Kids(g)) \in Nat /\ DOMAIN Kids(g) = 1 .. Len(Kids(g))
                     /\ IsLeaf(g) <=> Len(Kids(g)) = 0
                     /\ \A i \in 1 .. Len(Kids(g)) :
                           /\ Kids(g)[i] \in Goals /\ Kids(g)[i] > g /\ Parent(Kids(g)[i]) = g
                           /\ goal[Kids(g)[i]].prev = IF i = 1 THEN NoGoal ELSE Kids(g)[i - 1]
  OBVIOUS
<1>1. Kids(g) \in Seq(Goals)
  BY FieldsTyped
<1>2. /\ Len(Kids(g)) \in Nat /\ DOMAIN Kids(g) = 1 .. Len(Kids(g))
      /\ Kids(g) = <<>> <=> Len(Kids(g)) = 0
      /\ \A i \in 1 .. Len(Kids(g)) : Kids(g)[i] \in Goals
  BY <1>1
<1>3. \A i \in 1 .. Len(Kids(g)) :
         /\ Kids(g)[i] > g /\ Parent(Kids(g)[i]) = g
         /\ goal[Kids(g)[i]].prev = IF i = 1 THEN NoGoal ELSE Kids(g)[i - 1]
  BY DEF KidsLater
<1>. QED
  BY <1>2, <1>3 DEF IsLeaf

LEMMA LastKid ==
    TypeOK /\ KidsLater => \A g \in Goals : ~IsLeaf(g) =>
        /\ Last(Kids(g)) \in Goals /\ Last(Kids(g)) > g /\ Last(Kids(g)) = Kids(g)[Len(Kids(g))]
        /\ Len(Kids(g)) \in 1 .. Len(Kids(g))
<1>. SUFFICES ASSUME TypeOK, KidsLater, NEW g \in Goals, ~IsLeaf(g)
              PROVE  /\ Last(Kids(g)) \in Goals /\ Last(Kids(g)) > g
                     /\ Last(Kids(g)) = Kids(g)[Len(Kids(g))]
                     /\ Len(Kids(g)) \in 1 .. Len(Kids(g))
  OBVIOUS
<1>1. Len(Kids(g)) \in Nat /\ Len(Kids(g)) # 0
  BY KidsTyped
<1>2. Len(Kids(g)) \in 1 .. Len(Kids(g))
  BY <1>1
<1>. QED
  BY <1>2, KidsTyped DEF Last

\* The loop of last_leaf goes down the tree.
LEMMA LastLeafTurns ==
    TypeOK /\ KidsLater => \A g \in Goals :
        /\ last_leaf(g) \in Goals /\ IsLeaf(last_leaf(g))
        /\ last_leaf(g) = IF IsLeaf(g) THEN g ELSE last_leaf(Last(Kids(g)))
<1>. SUFFICES ASSUME TypeOK, KidsLater
              PROVE  \A g \in Goals :
                        /\ last_leaf(g) \in Goals /\ IsLeaf(last_leaf(g))
                        /\ last_leaf(g) = IF IsLeaf(g) THEN g ELSE last_leaf(Last(Kids(g)))
  OBVIOUS
<1>. DEFINE n == Len(goal)
            next == [h \in Goals |-> IF Kids(h) = <<>> THEN NoGoal ELSE Last(Kids(h))]
            m == [h \in 1 .. n |-> n - h]
<1>1. n \in Nat /\ Goals = 1 .. n
  BY GoalsTyped
<1>2. \A h \in Goals : Kids(h) # <<>> => Last(Kids(h)) \in Goals /\ Last(Kids(h)) > h /\ Last(Kids(h)) # NoGoal
  BY LastKid, FieldsTyped DEF IsLeaf
<1>. HIDE DEF n
<1>3. next \in [1 .. n -> 0 .. n] /\ m \in [1 .. n -> 0 .. n]
  BY <1>1, <1>2 DEF NoGoal
<1>4. Descends(next, m)
  <2>. SUFFICES ASSUME NEW h \in Goals, next[h] # NoGoal
                PROVE  next[h] \in Goals /\ m[next[h]] < m[h]
    BY DEF Descends
  <2>1. next[h] \in Goals /\ next[h] > h
    BY <1>2
  <2>. QED
    BY <1>1, <2>1
<1>5. \A g \in Goals : last_leaf(g) = Follow(next, g)
  BY DEF last_leaf
<1>6. \A g \in Goals : next[g] = IF IsLeaf(g) THEN NoGoal ELSE Last(Kids(g))
  BY DEF IsLeaf
<1>7. \A g \in Goals : IsLeaf(g) <=> next[g] = NoGoal
  BY <1>2, <1>6 DEF IsLeaf
<1>. HIDE DEF next, m
<1>8. \A g \in Goals : Follow(next, g) \in Goals /\ next[Follow(next, g)] = NoGoal
  <2>1. \A h \in 1 .. n : next[h] # NoGoal => next[h] \in 1 .. n
    BY <1>3 DEF NoGoal
  <2>2. 1 .. n \in SUBSET (1 .. n)
    OBVIOUS
  <2>3. \A g \in 1 .. n : Follow(next, g) \in 1 .. n /\ next[Follow(next, g)] = NoGoal
    BY <1>1, <1>3, <1>4, <2>1, <2>2, FollowStays
  <2>. QED
    BY <1>1, <2>3
<1>9. \A g \in Goals : Follow(next, g) = IF next[g] = NoGoal THEN g ELSE Follow(next, next[g])
  BY <1>1, <1>3, <1>4, FollowTurns
<1>. QED
  <2>. SUFFICES ASSUME NEW g \in Goals
                PROVE  /\ last_leaf(g) \in Goals /\ IsLeaf(last_leaf(g))
                       /\ last_leaf(g) = IF IsLeaf(g) THEN g ELSE last_leaf(Last(Kids(g)))
    OBVIOUS
  <2>1. last_leaf(g) \in Goals /\ IsLeaf(last_leaf(g))
    BY <1>5, <1>7, <1>8
  <2>2. CASE IsLeaf(g)
    BY <1>5, <1>7, <1>9, <2>1, <2>2
  <2>3. CASE ~IsLeaf(g)
    <3>1. next[g] = Last(Kids(g)) /\ next[g] # NoGoal /\ Last(Kids(g)) \in Goals
      BY <1>2, <1>6, <1>7, <2>3 DEF IsLeaf
    <3>. QED
      BY <1>5, <1>9, <2>1, <2>3, <3>1
  <2>. QED
    BY <2>2, <2>3

\* The loop of CalcGoalRoot goes up.
LEMMA RootTurns ==
    TypeOK /\ ParentsEarlier => \A g \in Goals :
        /\ CalcGoalRoot(g) \in Goals /\ Parent(CalcGoalRoot(g)) = NoGoal
        /\ CalcGoalRoot(g) = IF Parent(g) = NoGoal THEN g ELSE CalcGoalRoot(Parent(g))
<1>. SUFFICES ASSUME TypeOK, ParentsEarlier
              PROVE  \A g \in Goals :
                        /\ CalcGoalRoot(g) \in Goals /\ Parent(CalcGoalRoot(g)) = NoGoal
                        /\ CalcGoalRoot(g) = IF Parent(g) = NoGoal THEN g ELSE CalcGoalRoot(Parent(g))
  OBVIOUS
<1>. DEFINE n == Len(goal)
            next == [h \in Goals |-> Parent(h)]
            m == [h \in 1 .. n |-> h]
<1>1. n \in Nat /\ Goals = 1 .. n
  BY GoalsTyped
<1>2. \A h \in Goals : Parent(h) \in 0 .. n /\ Parent(h) < h /\ (Parent(h) # NoGoal => Parent(h) \in Goals)
  BY <1>1, FieldsTyped DEF ParentsEarlier, NoGoal
<1>. HIDE DEF n
<1>3. next \in [1 .. n -> 0 .. n] /\ m \in [1 .. n -> 0 .. n]
  BY <1>1, <1>2
<1>4. Descends(next, m)
  BY <1>1, <1>2 DEF Descends
<1>5. \A g \in Goals : CalcGoalRoot(g) = Follow(next, g) /\ next[g] = Parent(g)
  BY DEF CalcGoalRoot
<1>. HIDE DEF next, m
<1>6. \A g \in Goals : Follow(next, g) \in Goals /\ next[Follow(next, g)] = NoGoal
  <2>1. \A h \in 1 .. n : next[h] # NoGoal => next[h] \in 1 .. n
    BY <1>3 DEF NoGoal
  <2>2. 1 .. n \in SUBSET (1 .. n)
    OBVIOUS
  <2>3. \A g \in 1 .. n : Follow(next, g) \in 1 .. n /\ next[Follow(next, g)] = NoGoal
    BY <1>1, <1>3, <1>4, <2>1, <2>2, FollowStays
  <2>. QED
    BY <1>1, <2>3
<1>7. \A g \in Goals : Follow(next, g) = IF next[g] = NoGoal THEN g ELSE Follow(next, next[g])
  BY <1>1, <1>3, <1>4, FollowTurns
<1>. QED
  <2>. SUFFICES ASSUME NEW g \in Goals
                PROVE  /\ CalcGoalRoot(g) \in Goals /\ Parent(CalcGoalRoot(g)) = NoGoal
                       /\ CalcGoalRoot(g) = IF Parent(g) = NoGoal THEN g ELSE CalcGoalRoot(Parent(g))
    OBVIOUS
  <2>1. CalcGoalRoot(g) \in Goals /\ Parent(CalcGoalRoot(g)) = NoGoal
    BY <1>5, <1>6
  <2>2. CalcGoalRoot(g) = IF Parent(g) = NoGoal THEN g ELSE CalcGoalRoot(Parent(g))
    BY <1>2, <1>5, <1>7
  <2>. QED
    BY <2>1, <2>2

\* The loop of previous_timeline_leaf goes up until there is a sibling before.
LEMMA PreviousTurns ==
    TypeOK /\ KidsLater /\ ParentsEarlier => \A g \in Goals :
        previous_timeline_leaf(g) =
            IF goal[g].prev # NoGoal THEN last_leaf(goal[g].prev)
            ELSE IF Parent(g) = NoGoal THEN NoGoal ELSE previous_timeline_leaf(Parent(g))
<1>. SUFFICES ASSUME TypeOK, KidsLater, ParentsEarlier, NEW g \in Goals
              PROVE  previous_timeline_leaf(g) =
                        IF goal[g].prev # NoGoal THEN last_leaf(goal[g].prev)
                        ELSE IF Parent(g) = NoGoal THEN NoGoal ELSE previous_timeline_leaf(Parent(g))
  OBVIOUS
<1>. DEFINE n == Len(goal)
            next == [h \in Goals |-> IF goal[h].prev # NoGoal THEN NoGoal ELSE Parent(h)]
            m == [h \in 1 .. n |-> h]
            before(h) == IF goal[h].prev = NoGoal THEN NoGoal ELSE last_leaf(goal[h].prev)
<1>1. n \in Nat /\ Goals = 1 .. n
  BY GoalsTyped
<1>2. \A h \in Goals : Parent(h) \in 0 .. n /\ Parent(h) < h /\ (Parent(h) # NoGoal => Parent(h) \in Goals)
  BY <1>1, FieldsTyped DEF ParentsEarlier, NoGoal
<1>. HIDE DEF n
<1>3. next \in [1 .. n -> 0 .. n] /\ m \in [1 .. n -> 0 .. n]
  BY <1>1, <1>2 DEF NoGoal
<1>4. Descends(next, m)
  BY <1>1, <1>2 DEF Descends
<1>5. \A h \in Goals : previous_timeline_leaf(h) = before(Follow(next, h))
  BY DEF previous_timeline_leaf
<1>6. \A h \in Goals : next[h] = IF goal[h].prev # NoGoal THEN NoGoal ELSE Parent(h)
  OBVIOUS
<1>. HIDE DEF next, m
<1>7. \A h \in Goals : Follow(next, h) = IF next[h] = NoGoal THEN h ELSE Follow(next, next[h])
  BY <1>1, <1>3, <1>4, FollowTurns
<1>8. CASE goal[g].prev # NoGoal
  <2>1. Follow(next, g) = g
    BY <1>6, <1>7, <1>8
  <2>. QED
    BY <1>5, <1>8, <2>1
<1>9. CASE goal[g].prev = NoGoal /\ Parent(g) = NoGoal
  <2>1. Follow(next, g) = g
    BY <1>6, <1>7, <1>9
  <2>. QED
    BY <1>5, <1>9, <2>1
<1>10. CASE goal[g].prev = NoGoal /\ Parent(g) # NoGoal
  <2>1. Parent(g) \in Goals /\ Follow(next, g) = Follow(next, Parent(g))
    BY <1>2, <1>6, <1>7, <1>10
  <2>. QED
    BY <1>5, <1>10, <2>1
<1>. QED
  BY <1>8, <1>9, <1>10

\* An induction over the tree from the roots, and one from the leaves.
LEMMA Downwards ==
    ASSUME NEW n \in Nat, NEW T \in SUBSET (1 .. n),
           \A h \in 1 .. n : (\A k \in 1 .. n : k < h => k \in T) => h \in T
    PROVE  T = 1 .. n
<1>. DEFINE S == 1 .. n
            m == [h \in S |-> h]
<1>1. m \in [S -> Nat] /\ \A h \in S : m[h] = h
  OBVIOUS
<1>2. \A h \in S : (\A k \in S : k < h => k \in T) => h \in T
  OBVIOUS
<1>3. Inductive(S, m, T)
  <2>. HIDE DEF S, m
  <2>1. T \in SUBSET S
    BY DEF S
  <2>. QED
    BY <1>1, <1>2, <2>1 DEF Inductive
<1>. QED
  BY <1>3, MeasureInduction

LEMMA Upwards ==
    ASSUME NEW n \in Nat, NEW T \in SUBSET (1 .. n),
           \A h \in 1 .. n : (\A k \in 1 .. n : k > h => k \in T) => h \in T
    PROVE  T = 1 .. n
<1>. DEFINE S == 1 .. n
            m == [h \in S |-> n - h]
<1>1. m \in [S -> Nat] /\ \A h, k \in S : m[k] < m[h] <=> k > h
  OBVIOUS
<1>2. \A h \in S : (\A k \in S : k > h => k \in T) => h \in T
  OBVIOUS
<1>3. Inductive(S, m, T)
  <2>. HIDE DEF S, m
  <2>1. T \in SUBSET S
    BY DEF S
  <2>. QED
    BY <1>1, <1>2, <2>1 DEF Inductive
<1>. QED
  BY <1>3, MeasureInduction

\* The leaf before a goal is a leaf of the same tree.
LEMMA LastLeafInTree ==
    TypeOK /\ KidsLater /\ ParentsEarlier =>
        \A g \in Goals : CalcGoalRoot(last_leaf(g)) = CalcGoalRoot(g)
<1>. SUFFICES ASSUME TypeOK, KidsLater, ParentsEarlier
              PROVE  \A g \in Goals : CalcGoalRoot(last_leaf(g)) = CalcGoalRoot(g)
  OBVIOUS
<1>. DEFINE T == {h \in Goals : CalcGoalRoot(last_leaf(h)) = CalcGoalRoot(h)}
<1>1. Len(goal) \in Nat /\ Goals = 1 .. Len(goal)
  BY GoalsTyped
<1>2. ASSUME NEW h \in Goals, \A k \in Goals : k > h => k \in T PROVE h \in T
  <2>1. CASE IsLeaf(h)
    BY <2>1, LastLeafTurns
  <2>2. CASE ~IsLeaf(h)
    <3>1. Last(Kids(h)) \in Goals /\ Last(Kids(h)) > h /\ Parent(Last(Kids(h))) = h
      BY <2>2, LastKid, KidsTyped
    <3>2. CalcGoalRoot(Last(Kids(h))) = CalcGoalRoot(h)
      BY <3>1, RootTurns, FieldsTyped
    <3>3. CalcGoalRoot(last_leaf(Last(Kids(h)))) = CalcGoalRoot(Last(Kids(h)))
      BY <1>2, <3>1
    <3>4. last_leaf(h) = last_leaf(Last(Kids(h)))
      BY <2>2, LastLeafTurns
    <3>. QED
      BY <3>2, <3>3, <3>4
  <2>. QED
    BY <2>1, <2>2
<1>. HIDE DEF T
<1>3. T = 1 .. Len(goal)
  <2>1. T \in SUBSET (1 .. Len(goal))
    BY <1>1 DEF T
  <2>2. \A h \in 1 .. Len(goal) : (\A k \in 1 .. Len(goal) : k > h => k \in T) => h \in T
    BY <1>1, <1>2
  <2>. QED
    BY <1>1, <2>1, <2>2, Upwards
<1>. QED
  BY <1>1, <1>3 DEF T

LEMMA PreviousInTree ==
    TypeOK /\ KidsLater /\ ParentsEarlier => \A g \in Goals :
        LET p == previous_timeline_leaf(g)
        IN  p # NoGoal => p \in Goals /\ IsLeaf(p) /\ CalcGoalRoot(p) = CalcGoalRoot(g)
<1>. DEFINE Good(g) == LET p == previous_timeline_leaf(g)
                       IN  p # NoGoal => p \in Goals /\ IsLeaf(p) /\ CalcGoalRoot(p) = CalcGoalRoot(g)
<1>. SUFFICES ASSUME TypeOK, KidsLater, ParentsEarlier
              PROVE  \A g \in Goals : Good(g)
  OBVIOUS
<1>. DEFINE T == {h \in Goals : Good(h)}
<1>1. Len(goal) \in Nat /\ Goals = 1 .. Len(goal)
  BY GoalsTyped
<1>2. ASSUME NEW h \in Goals, \A k \in Goals : k < h => k \in T PROVE h \in T
  <2>1. CASE goal[h].prev # NoGoal
    <3>. DEFINE q == goal[h].prev
    <3>1. q \in Goals /\ Parent(h) \in Goals /\ Parent(q) = Parent(h) /\ Parent(h) # NoGoal
      BY <2>1, FieldsTyped DEF ParentsEarlier
    <3>2. previous_timeline_leaf(h) = last_leaf(q)
      BY <2>1, PreviousTurns
    <3>. HIDE DEF q
    <3>3. CalcGoalRoot(last_leaf(q)) = CalcGoalRoot(q) /\ CalcGoalRoot(q) = CalcGoalRoot(h)
      BY <3>1, RootTurns, LastLeafInTree
    <3>4. last_leaf(q) \in Goals /\ IsLeaf(last_leaf(q))
      BY <3>1, LastLeafTurns
    <3>. QED
      BY <3>2, <3>3, <3>4
  <2>2. CASE goal[h].prev = NoGoal /\ Parent(h) = NoGoal
    BY <2>2, PreviousTurns
  <2>3. CASE goal[h].prev = NoGoal /\ Parent(h) # NoGoal
    <3>1. Parent(h) \in Goals /\ Parent(h) < h
      BY <2>3, FieldsTyped DEF ParentsEarlier
    <3>2. Good(Parent(h))
      BY <1>2, <3>1
    <3>3. previous_timeline_leaf(h) = previous_timeline_leaf(Parent(h))
      BY <2>3, PreviousTurns
    <3>4. CalcGoalRoot(h) = CalcGoalRoot(Parent(h))
      BY <2>3, RootTurns
    <3>. QED
      BY <3>2, <3>3, <3>4
  <2>. QED
    BY <2>1, <2>2, <2>3
<1>. HIDE DEF T
<1>3. T = 1 .. Len(goal)
  <2>1. T \in SUBSET (1 .. Len(goal))
    BY <1>1 DEF T
  <2>2. \A h \in 1 .. Len(goal) : (\A k \in 1 .. Len(goal) : k < h => k \in T) => h \in T
    BY <1>1, <1>2
  <2>. QED
    BY <1>1, <2>1, <2>2, Downwards
<1>. QED
  BY <1>1, <1>3 DEF T

\* The walk of can_start_leaf begins with the leaf before, and stays in every
\* set that has it and, with a goal, the leaf before that.
LEMMA EarlierWalk ==
    TypeOK /\ KidsLater /\ ParentsEarlier => \A g \in Goals :
        /\ previous_timeline_leaf(g) # NoGoal => previous_timeline_leaf(g) \in Earlier(g)
        /\ \A T \in SUBSET Goals :
              /\ previous_timeline_leaf(g) \in T \cup {NoGoal}
              /\ \A h \in T : previous_timeline_leaf(h) \in T \cup {NoGoal}
              => Earlier(g) \subseteq T
<1>. SUFFICES ASSUME TypeOK, KidsLater, ParentsEarlier, NEW g \in Goals
              PROVE  /\ previous_timeline_leaf(g) # NoGoal => previous_timeline_leaf(g) \in Earlier(g)
                     /\ \A T \in SUBSET Goals :
                           /\ previous_timeline_leaf(g) \in T \cup {NoGoal}
                           /\ \A h \in T : previous_timeline_leaf(h) \in T \cup {NoGoal}
                           => Earlier(g) \subseteq T
  OBVIOUS
<1>. DEFINE n == Len(goal)
            S == 0 .. n
            prior(h) == IF h = NoGoal THEN NoGoal ELSE previous_timeline_leaf(h)
            turn(f, i) == IF i = 0 THEN g
                          ELSE IF f[i - 1] = NoGoal THEN NoGoal ELSE previous_timeline_leaf(f[i - 1])
            rule == [i \in S |-> [f \in [S -> S] |-> turn(f, i)]]
            Walk(f) == f = [i \in S |-> turn(f, i)]
            back == CHOOSE f : Walk(f)
            m == [i \in S |-> i]
<1>1. n \in Nat /\ Goals = 1 .. n /\ n >= 1
  BY GoalsTyped
<1>. HIDE DEF n
<1>2. \A h \in Goals : previous_timeline_leaf(h) \in S
  <2>1. \A h \in Goals : previous_timeline_leaf(h) \in Goals \/ previous_timeline_leaf(h) = 0
    BY PreviousInTree DEF NoGoal
  <2>2. Goals \subseteq S /\ 0 \in S
    BY <1>1
  <2>. QED
    BY <2>1, <2>2
<1>3. ASSUME NEW f \in [S -> S], NEW i \in S PROVE turn(f, i) \in S
  <2>1. CASE i = 0
    BY <1>1, <2>1
  <2>2. CASE i # 0
    <3>1. i - 1 \in S
      BY <1>1, <2>2
    <3>2. f[i - 1] \in S
      BY <3>1
    <3>3. f[i - 1] = NoGoal \/ f[i - 1] \in Goals
      BY <1>1, <3>2 DEF NoGoal
    <3>4. NoGoal \in S
      BY <1>1 DEF NoGoal
    <3>. QED
      BY <1>2, <2>2, <3>3, <3>4
  <2>. QED
    BY <2>1, <2>2
<1>4. \E f : Walk(f)
  <2>1. rule \in [S -> [[S -> S] -> S]]
    <3>. HIDE DEF turn
    <3>. QED
      BY <1>3
  <2>2. ASSUME NEW i \in S, NEW e \in [S -> S], NEW f \in [S -> S],
               \A k \in S : m[k] < m[i] => e[k] = f[k]
        PROVE  rule[i][e] = rule[i][f]
    <3>1. CASE i = 0
      BY <3>1
    <3>2. CASE i # 0
      <4>1. i - 1 \in S /\ m[i - 1] < m[i]
        BY <1>1, <3>2
      <4>. QED
        BY <2>2, <4>1
    <3>. QED
      BY <3>1, <3>2
  <2>3. m \in [S -> Nat] /\ n + 1 \in Nat /\ \A i \in S : m[i] < n + 1
    BY <1>1
  <2>4. S # {}
    BY <1>1
  <2>5. Recursion(S, S, m, n + 1, rule)
    <3>. HIDE DEF rule, S, m
    <3>. QED
      BY <2>1, <2>2, <2>3, <2>4 DEF Recursion
  <2>6. \E f \in [S -> S] : \A i \in S : f[i] = rule[i][f]
    <3>. HIDE DEF rule, S, m
    <3>. QED
      BY <2>5, RecursionSolved
  <2>7. PICK f \in [S -> S] : \A i \in S : f[i] = rule[i][f]
    BY <2>6
  <2>8. f = [i \in S |-> turn(f, i)]
    BY <2>7
  <2>. QED
    BY <2>8
<1>5. Walk(back)
  BY <1>4
<1>6. Earlier(g) = {back[i] : i \in 1 .. n} \ {NoGoal}
  BY DEF Earlier, n
<1>7. \A i \in S : back[i] = turn(back, i)
  <2>1. back = [i \in S |-> turn(back, i)]
    BY <1>5
  <2>. HIDE DEF back
  <2>. QED
    BY <2>1
<1>. HIDE DEF back
<1>8. back[0] = g /\ \A i \in 1 .. n : back[i] = prior(back[i - 1])
  <2>1. back[0] = g
    BY <1>1, <1>7
  <2>2. \A i \in 1 .. n : i \in S /\ i # 0
    BY <1>1
  <2>. QED
    BY <1>7, <2>1, <2>2
<1>9. previous_timeline_leaf(g) # NoGoal => previous_timeline_leaf(g) \in Earlier(g)
  <2>1. back[1] = previous_timeline_leaf(g) /\ 1 \in 1 .. n
    BY <1>1, <1>8 DEF NoGoal
  <2>. QED
    BY <1>6, <2>1
<1>10. ASSUME NEW T \in SUBSET Goals, previous_timeline_leaf(g) \in T \cup {NoGoal},
              \A h \in T : previous_timeline_leaf(h) \in T \cup {NoGoal}
       PROVE  Earlier(g) \subseteq T
  <2>. DEFINE U == {i \in 1 .. n : back[i] \in T \cup {NoGoal}}
  <2>1. ASSUME NEW i \in 1 .. n, \A k \in 1 .. n : k < i => k \in U PROVE i \in U
    <3>1. CASE i = 1
      BY <1>1, <1>8, <1>10, <3>1 DEF NoGoal
    <3>2. CASE i # 1
      <4>1. i - 1 \in 1 .. n /\ i - 1 < i
        BY <1>1, <3>2
      <4>2. back[i - 1] \in T \cup {NoGoal}
        BY <2>1, <4>1
      <4>3. back[i] = prior(back[i - 1])
        BY <1>8
      <4>. QED
        BY <1>10, <4>2, <4>3
    <3>. QED
      BY <3>1, <3>2
  <2>2. U = 1 .. n
    <3>1. U \in SUBSET (1 .. n)
      OBVIOUS
    <3>. HIDE DEF U
    <3>. QED
      BY <1>1, <2>1, <3>1, Downwards
  <2>. QED
    BY <1>6, <2>2
<1>. QED
  BY <1>9, <1>10

\* A goal is on its own line, and so is the parent of a goal on it.
LEMMA LineClimbs ==
    TypeOK /\ ParentsEarlier => \A g \in Goals :
        /\ g \in Line(g)
        /\ \A h \in Line(g) : h \in Goals /\ (Parent(h) # NoGoal => Parent(h) \in Line(g))
<1>. SUFFICES ASSUME TypeOK, ParentsEarlier
              PROVE  \A g \in Goals :
                        /\ g \in Line(g)
                        /\ \A h \in Line(g) : h \in Goals /\ (Parent(h) # NoGoal => Parent(h) \in Line(g))
  OBVIOUS
<1>. DEFINE n == Len(goal)
            S == 1 .. n
            V == SUBSET S
            turn(f, h) == IF Parent(h) = NoGoal THEN {h} ELSE {h} \cup f[Parent(h)]
            rule == [h \in S |-> [f \in [S -> V] |-> turn(f, h)]]
            Climbs(f) == f = [h \in Goals |-> turn(f, h)]
            line == CHOOSE f : Climbs(f)
            m == [h \in S |-> h]
<1>1. n \in Nat /\ Goals = S
  BY GoalsTyped
<1>2. \A h \in S : Parent(h) < h /\ h \in Nat /\ (Parent(h) # NoGoal => Parent(h) \in S)
  BY <1>1, FieldsTyped DEF ParentsEarlier
<1>. HIDE DEF n
<1>3. \E f : Climbs(f)
  <2>1. rule \in [S -> [[S -> V] -> V]]
    BY <1>2
  <2>2. ASSUME NEW i \in S, NEW e \in [S -> V], NEW f \in [S -> V],
               \A k \in S : m[k] < m[i] => e[k] = f[k]
        PROVE  rule[i][e] = rule[i][f]
    <3>1. CASE Parent(i) = NoGoal
      BY <3>1
    <3>2. CASE Parent(i) # NoGoal
      <4>1. Parent(i) \in S /\ m[Parent(i)] < m[i]
        BY <1>2, <3>2
      <4>2. e[Parent(i)] = f[Parent(i)]
        BY <2>2, <4>1
      <4>. QED
        BY <3>2, <4>2
    <3>. QED
      BY <3>1, <3>2
  <2>3. m \in [S -> Nat] /\ n + 1 \in Nat /\ \A i \in S : m[i] < n + 1
    BY <1>1
  <2>4. V # {}
    OBVIOUS
  <2>5. Recursion(S, V, m, n + 1, rule)
    <3>. HIDE DEF rule, S, m, V
    <3>. QED
      BY <2>1, <2>2, <2>3, <2>4 DEF Recursion
  <2>6. \E f \in [S -> V] : \A i \in S : f[i] = rule[i][f]
    <3>. HIDE DEF rule, S, m, V
    <3>. QED
      BY <2>5, RecursionSolved
  <2>7. PICK f \in [S -> V] : \A i \in S : f[i] = rule[i][f]
    BY <2>6
  <2>8. f = [i \in S |-> turn(f, i)]
    BY <2>7
  <2>. QED
    BY <1>1, <2>8
<1>4. Climbs(line)
  BY <1>3
<1>5. \A h \in Goals : Line(h) = line[h]
  BY DEF Line
<1>6. \A h \in Goals : line[h] = turn(line, h)
  <2>1. line = [h \in Goals |-> turn(line, h)]
    BY <1>4
  <2>. HIDE DEF line
  <2>. QED
    BY <2>1
<1>. HIDE DEF line
<1>7. \A h \in Goals : Line(h) = IF Parent(h) = NoGoal THEN {h} ELSE {h} \cup Line(Parent(h))
  BY <1>1, <1>2, <1>5, <1>6
<1>. DEFINE Good(g) == \A h \in Line(g) : h \in Goals /\ (Parent(h) # NoGoal => Parent(h) \in Line(g))
            T == {g \in S : Good(g)}
<1>8. ASSUME NEW g \in S, \A k \in S : k < g => k \in T PROVE Good(g)
  <2>1. CASE Parent(g) = NoGoal
    BY <1>1, <1>7, <2>1
  <2>2. CASE Parent(g) # NoGoal
    <3>1. Parent(g) \in S /\ Good(Parent(g))
      BY <1>2, <1>8, <2>2
    <3>2. Line(g) = {g} \cup Line(Parent(g)) /\ Parent(g) \in Line(Parent(g))
      BY <1>1, <1>7, <2>2, <3>1
    <3>. QED
      BY <1>1, <3>1, <3>2
  <2>. QED
    BY <2>1, <2>2
<1>9. T = S
  <2>1. T \in SUBSET (1 .. n) /\ \A h \in 1 .. n : (\A k \in 1 .. n : k < h => k \in T) => h \in T
    BY <1>8
  <2>. HIDE DEF T
  <2>. QED
    BY <1>1, <2>1, Downwards
<1>10. \A g \in Goals : g \in Line(g)
  BY <1>7
<1>. QED
  BY <1>1, <1>9, <1>10

\* first_unstarted_leaf goes through the children in order.
LEMMA FirstOpenTurns ==
    TypeOK /\ KidsLater => \A g \in Goals :
        /\ FirstOpen(g) \in Goals \cup {NoGoal}
        /\ \/ IsLeaf(g) /\ Open(g) /\ FirstOpen(g) = g
           \/ /\ ~(IsLeaf(g) /\ Open(g)) /\ FirstOpen(g) = NoGoal
              /\ \A i \in 1 .. Len(Kids(g)) : FirstOpen(Kids(g)[i]) = NoGoal
           \/ /\ ~(IsLeaf(g) /\ Open(g)) /\ FirstOpen(g) # NoGoal
              /\ \E i \in 1 .. Len(Kids(g)) :
                    /\ FirstOpen(g) = FirstOpen(Kids(g)[i])
                    /\ \A j \in 1 .. Len(Kids(g)) : j < i => FirstOpen(Kids(g)[j]) = NoGoal
<1>. SUFFICES ASSUME TypeOK, KidsLater
              PROVE  \A g \in Goals :
                        /\ FirstOpen(g) \in Goals \cup {NoGoal}
                        /\ \/ IsLeaf(g) /\ Open(g) /\ FirstOpen(g) = g
                           \/ /\ ~(IsLeaf(g) /\ Open(g)) /\ FirstOpen(g) = NoGoal
                              /\ \A i \in 1 .. Len(Kids(g)) : FirstOpen(Kids(g)[i]) = NoGoal
                           \/ /\ ~(IsLeaf(g) /\ Open(g)) /\ FirstOpen(g) # NoGoal
                              /\ \E i \in 1 .. Len(Kids(g)) :
                                    /\ FirstOpen(g) = FirstOpen(Kids(g)[i])
                                    /\ \A j \in 1 .. Len(Kids(g)) : j < i => FirstOpen(Kids(g)[j]) = NoGoal
  OBVIOUS
<1>. DEFINE n == Len(goal)
            S == 1 .. n
            V == 0 .. n
            found(f, h) == {i \in DOMAIN Kids(h) : f[Kids(h)[i]] # NoGoal}
            turn(f, h) == IF IsLeaf(h) /\ Open(h) THEN h
                          ELSE IF found(f, h) = {} THEN NoGoal ELSE f[Kids(h)[Min(found(f, h))]]
            rule == [h \in S |-> [f \in [S -> V] |-> turn(f, h)]]
            Finds(f) == f = [h \in Goals |-> turn(f, h)]
            first == CHOOSE f : Finds(f)
            m == [h \in S |-> n - h]
<1>1. n \in Nat /\ Goals = S
  BY GoalsTyped
<1>2. \A h \in S : \A i \in DOMAIN Kids(h) : Kids(h)[i] \in S /\ Kids(h)[i] > h /\ i \in Nat
  BY <1>1, KidsTyped
<1>. HIDE DEF n
<1>3. ASSUME NEW f, NEW h \in S, found(f, h) # {}
      PROVE  /\ Min(found(f, h)) \in DOMAIN Kids(h) /\ f[Kids(h)[Min(found(f, h))]] # NoGoal
             /\ \A j \in DOMAIN Kids(h) : j < Min(found(f, h)) => f[Kids(h)[j]] = NoGoal
  <2>. DEFINE F == found(f, h)
  <2>1. F \in SUBSET Nat /\ F # {}
    BY <1>2, <1>3
  <2>2. \E x \in F : \A y \in F : x <= y
    <3>. HIDE DEF F
    <3>. QED
      BY <2>1, LeastNatural
  <2>3. Min(F) \in F /\ \A y \in F : Min(F) <= y
    <3>. HIDE DEF F
    <3>. QED
      BY <2>2 DEF Min
  <2>4. ASSUME NEW j \in DOMAIN Kids(h), j < Min(F) PROVE f[Kids(h)[j]] = NoGoal
    <3>. SUFFICES ASSUME f[Kids(h)[j]] # NoGoal PROVE FALSE
      OBVIOUS
    <3>1. j \in F /\ j \in Nat /\ Min(F) \in Nat
      BY <1>2, <2>1, <2>3
    <3>2. Min(F) <= j
      BY <2>3, <3>1
    <3>. HIDE DEF F
    <3>. QED
      BY <2>4, <3>1, <3>2
  <2>. QED
    BY <2>3, <2>4
<1>4. \E f : Finds(f)
  <2>1. rule \in [S -> [[S -> V] -> V]]
    <3>1. ASSUME NEW h \in S, NEW f \in [S -> V] PROVE turn(f, h) \in V
      <4>1. NoGoal \in V /\ h \in V
        BY <1>1 DEF NoGoal
      <4>2. CASE found(f, h) # {}
        <5>1. Kids(h)[Min(found(f, h))] \in S
          BY <1>2, <1>3, <4>2
        <5>. HIDE DEF found
        <5>2. f[Kids(h)[Min(found(f, h))]] \in V
          BY <5>1
        <5>. QED
          BY <4>1, <5>2
      <4>3. CASE found(f, h) = {}
        BY <4>1, <4>3
      <4>. QED
        BY <4>2, <4>3
    <3>. HIDE DEF turn
    <3>. QED
      BY <3>1
  <2>2. ASSUME NEW i \in S, NEW e \in [S -> V], NEW f \in [S -> V],
               \A k \in S : m[k] < m[i] => e[k] = f[k]
        PROVE  rule[i][e] = rule[i][f]
    <3>1. \A j \in DOMAIN Kids(i) : e[Kids(i)[j]] = f[Kids(i)[j]]
      <4>. SUFFICES ASSUME NEW j \in DOMAIN Kids(i) PROVE e[Kids(i)[j]] = f[Kids(i)[j]]
        OBVIOUS
      <4>1. Kids(i)[j] \in S /\ Kids(i)[j] > i
        BY <1>2
      <4>2. m[Kids(i)[j]] < m[i]
        BY <1>1, <4>1
      <4>. QED
        BY <2>2, <4>1, <4>2
    <3>2. found(e, i) = found(f, i)
      BY <3>1
    <3>3. turn(e, i) = turn(f, i)
      <4>1. CASE found(f, i) = {}
        BY <3>2, <4>1
      <4>2. CASE found(f, i) # {}
        <5>1. Min(found(f, i)) \in DOMAIN Kids(i)
          BY <1>3, <4>2
        <5>. HIDE DEF found
        <5>. QED
          BY <3>1, <3>2, <4>2, <5>1
      <4>. QED
        BY <4>1, <4>2
    <3>. HIDE DEF turn
    <3>. QED
      BY <3>3
  <2>3. m \in [S -> Nat] /\ n + 1 \in Nat /\ \A i \in S : m[i] < n + 1
    BY <1>1
  <2>4. V # {}
    <3>1. 0 \in V
      BY <1>1
    <3>. QED
      BY <3>1
  <2>5. Recursion(S, V, m, n + 1, rule)
    <3>. HIDE DEF rule, S, m, V
    <3>. QED
      BY <2>1, <2>2, <2>3, <2>4 DEF Recursion
  <2>6. \E f \in [S -> V] : \A i \in S : f[i] = rule[i][f]
    <3>. HIDE DEF rule, S, m, V
    <3>. QED
      BY <2>5, RecursionSolved
  <2>7. PICK f \in [S -> V] : \A i \in S : f[i] = rule[i][f]
    BY <2>6
  <2>8. f = [i \in S |-> turn(f, i)]
    <3>. HIDE DEF turn
    <3>. QED
      BY <2>7
  <2>. HIDE DEF turn, S, V
  <2>9. Finds(f)
    BY <1>1, <2>8
  <2>. HIDE DEF Finds
  <2>. QED
    BY <2>7, <2>9
<1>5. Finds(first)
  BY <1>4
<1>6. \A h \in Goals : FirstOpen(h) = first[h]
  BY DEF FirstOpen
<1>7. \A h \in Goals : first[h] = turn(first, h)
  <2>1. first = [h \in Goals |-> turn(first, h)]
    BY <1>5
  <2>. HIDE DEF first, turn
  <2>. QED
    BY <2>1
<1>. HIDE DEF first
<1>8. ASSUME NEW g \in Goals
      PROVE  \/ IsLeaf(g) /\ Open(g) /\ FirstOpen(g) = g
             \/ /\ ~(IsLeaf(g) /\ Open(g)) /\ FirstOpen(g) = NoGoal
                /\ \A i \in 1 .. Len(Kids(g)) : FirstOpen(Kids(g)[i]) = NoGoal
             \/ /\ ~(IsLeaf(g) /\ Open(g)) /\ FirstOpen(g) # NoGoal
                /\ \E i \in 1 .. Len(Kids(g)) :
                      /\ FirstOpen(g) = FirstOpen(Kids(g)[i])
                      /\ \A j \in 1 .. Len(Kids(g)) : j < i => FirstOpen(Kids(g)[j]) = NoGoal
  <2>0. DOMAIN Kids(g) = 1 .. Len(Kids(g)) /\ \A i \in DOMAIN Kids(g) : Kids(g)[i] \in Goals
    BY KidsTyped
  <2>1. CASE IsLeaf(g) /\ Open(g)
    BY <1>6, <1>7, <2>1
  <2>2. CASE ~(IsLeaf(g) /\ Open(g)) /\ found(first, g) = {}
    <3>1. FirstOpen(g) = NoGoal
      BY <1>6, <1>7, <2>2
    <3>2. \A i \in DOMAIN Kids(g) : first[Kids(g)[i]] = NoGoal
      BY <2>2
    <3>3. \A i \in DOMAIN Kids(g) : FirstOpen(Kids(g)[i]) = NoGoal
      BY <1>6, <2>0, <3>2
    <3>. QED
      BY <2>0, <2>2, <3>1, <3>3
  <2>3. CASE ~(IsLeaf(g) /\ Open(g)) /\ found(first, g) # {}
    <3>. DEFINE i == Min(found(first, g))
    <3>1. /\ i \in DOMAIN Kids(g) /\ first[Kids(g)[i]] # NoGoal
          /\ \A j \in DOMAIN Kids(g) : j < i => first[Kids(g)[j]] = NoGoal
      BY <1>1, <1>3, <2>3
    <3>2. FirstOpen(g) = first[Kids(g)[i]]
      <4>. HIDE DEF found
      <4>. QED
        BY <1>6, <1>7, <2>3
    <3>. HIDE DEF i
    <3>3. FirstOpen(g) = FirstOpen(Kids(g)[i])
      BY <1>6, <2>0, <3>1, <3>2
    <3>4. \A j \in DOMAIN Kids(g) : j < i => FirstOpen(Kids(g)[j]) = NoGoal
      BY <1>6, <2>0, <3>1
    <3>. QED
      BY <2>0, <2>3, <3>1, <3>2, <3>3, <3>4
  <2>. QED
    BY <2>1, <2>2, <2>3
<1>9. \A g \in Goals : FirstOpen(g) \in Goals \cup {NoGoal}
  <2>. DEFINE T == {h \in S : FirstOpen(h) \in Goals \cup {NoGoal}}
  <2>1. ASSUME NEW h \in S, \A k \in S : k > h => k \in T PROVE FirstOpen(h) \in Goals \cup {NoGoal}
    <3>1. \A i \in 1 .. Len(Kids(h)) : FirstOpen(Kids(h)[i]) \in Goals \cup {NoGoal}
      <4>. SUFFICES ASSUME NEW i \in 1 .. Len(Kids(h))
                    PROVE  FirstOpen(Kids(h)[i]) \in Goals \cup {NoGoal}
        OBVIOUS
      <4>1. Kids(h)[i] \in S /\ Kids(h)[i] > h
        BY <1>1, KidsTyped
      <4>. QED
        BY <2>1, <4>1
    <3>. QED
      BY <1>1, <1>8, <3>1
  <2>2. T = S
    <3>1. T \in SUBSET (1 .. n) /\ \A h \in 1 .. n : (\A k \in 1 .. n : k > h => k \in T) => h \in T
      BY <2>1
    <3>. HIDE DEF T
    <3>. QED
      BY <1>1, <3>1, Upwards
  <2>. QED
    BY <1>1, <2>2
<1>. QED
  BY <1>8, <1>9

\* What refresh_goal_completion_from_children_upwards ends.
LEMMA Refreshed ==
    TypeOK /\ KidsLater => \A g \in Goals : \A done \in SUBSET Goals :
        LET ended == refresh_goal_completion_from_children_upwards(done, g)
        IN  /\ ended \in SUBSET Goals
            /\ \A h \in Goals : h \in ended <=>
                  \/ h \in done
                  \/ h \in Line(g) /\ ~IsLeaf(h) /\ \A k \in ToSet(Kids(h)) : k \in ended
<1>. SUFFICES ASSUME TypeOK, KidsLater, NEW g \in Goals, NEW done \in SUBSET Goals
              PROVE  LET ended == refresh_goal_completion_from_children_upwards(done, g)
                     IN  /\ ended \in SUBSET Goals
                         /\ \A h \in Goals : h \in ended <=>
                               \/ h \in done
                               \/ h \in Line(g) /\ ~IsLeaf(h) /\ \A k \in ToSet(Kids(h)) : k \in ended
  OBVIOUS
<1>. DEFINE n == Len(goal)
            S == 1 .. n
            turn(f, h) == h \in done \/ (h \in Line(g) /\ Kids(h) # <<>> /\ \A k \in ToSet(Kids(h)) : f[k])
            rule == [h \in S |-> [f \in [S -> BOOLEAN] |-> turn(f, h)]]
            Ends(f) == f = [h \in Goals |-> turn(f, h)]
            finished == CHOOSE f : Ends(f)
            m == [h \in S |-> n - h]
            ended == refresh_goal_completion_from_children_upwards(done, g)
<1>1. n \in Nat /\ Goals = S
  BY GoalsTyped
<1>2. \A h \in S : \A k \in ToSet(Kids(h)) : k \in S /\ k > h
  BY <1>1, KidsTyped DEF ToSet
<1>. HIDE DEF n
<1>3. \E f : Ends(f)
  <2>1. rule \in [S -> [[S -> BOOLEAN] -> BOOLEAN]]
    <3>1. \A h, f : turn(f, h) \in BOOLEAN
      OBVIOUS
    <3>. HIDE DEF turn
    <3>. QED
      BY <3>1
  <2>2. ASSUME NEW i \in S, NEW e \in [S -> BOOLEAN], NEW f \in [S -> BOOLEAN],
               \A k \in S : m[k] < m[i] => e[k] = f[k]
        PROVE  rule[i][e] = rule[i][f]
    <3>1. ASSUME NEW k \in ToSet(Kids(i)) PROVE e[k] = f[k]
      <4>1. k \in S /\ k > i
        BY <1>2
      <4>2. m[k] < m[i]
        BY <1>1, <4>1
      <4>. QED
        BY <2>2, <4>1, <4>2
    <3>2. turn(e, i) = turn(f, i)
      BY <3>1
    <3>. HIDE DEF turn
    <3>. QED
      BY <3>2
  <2>3. m \in [S -> Nat] /\ n + 1 \in Nat /\ \A i \in S : m[i] < n + 1
    BY <1>1
  <2>5. Recursion(S, BOOLEAN, m, n + 1, rule)
    <3>. HIDE DEF rule, S, m
    <3>. QED
      BY <2>1, <2>2, <2>3 DEF Recursion
  <2>6. \E f \in [S -> BOOLEAN] : \A i \in S : f[i] = rule[i][f]
    <3>. HIDE DEF rule, S, m
    <3>. QED
      BY <2>5, RecursionSolved
  <2>7. PICK f \in [S -> BOOLEAN] : \A i \in S : f[i] = rule[i][f]
    BY <2>6
  <2>8. f = [i \in S |-> turn(f, i)]
    <3>. HIDE DEF turn
    <3>. QED
      BY <2>7
  <2>. HIDE DEF turn, S
  <2>9. Ends(f)
    BY <1>1, <2>8
  <2>. QED
    BY <2>9
<1>4. Ends(finished)
  <2>. HIDE DEF Ends
  <2>. QED
    BY <1>3
<1>5. ended = {h \in Goals : finished[h]}
  BY DEF refresh_goal_completion_from_children_upwards
<1>6. \A h \in Goals : finished[h] = turn(finished, h)
  <2>1. finished = [h \in Goals |-> turn(finished, h)]
    BY <1>4
  <2>. HIDE DEF finished, turn
  <2>. QED
    BY <2>1
<1>. HIDE DEF finished, ended
<1>7. ASSUME NEW h \in Goals
      PROVE  h \in ended <=> h \in done \/ (h \in Line(g) /\ ~IsLeaf(h) /\ \A k \in ToSet(Kids(h)) : k \in ended)
  <2>1. \A k \in ToSet(Kids(h)) : finished[k] <=> k \in ended
    BY <1>1, <1>2, <1>5
  <2>2. h \in ended <=> turn(finished, h)
    BY <1>5, <1>6
  <2>. QED
    BY <2>1, <2>2 DEF IsLeaf
<1>8. ended \in SUBSET Goals
  BY <1>5
<1>. QED
  BY <1>7, <1>8 DEF ended

\* The minutes of the children add up, whatever the split.
LEMMA TotalTyped == \A split \in Seq((Nat \ {0}) \X BOOLEAN) : Total(split) \in Nat
<1>. SUFFICES ASSUME NEW split \in Seq((Nat \ {0}) \X BOOLEAN) PROVE Total(split) \in Nat
  OBVIOUS
<1>. DEFINE n == Len(split)
            S == 0 .. n
            turn(f, i) == IF i = 0 THEN 0 ELSE f[i - 1] + split[i][1]
            rule == [i \in S |-> [f \in [S -> Nat] |-> turn(f, i)]]
            Sums(f) == f = [i \in S |-> turn(f, i)]
            sum == CHOOSE f : Sums(f)
            m == [i \in S |-> i]
<1>1. n \in Nat /\ \A i \in 1 .. n : split[i][1] \in Nat
  OBVIOUS
<1>2. Total(split) = sum[n]
  BY DEF Total
<1>. HIDE DEF n
<1>3. ASSUME NEW i \in S, i # 0 PROVE i - 1 \in S /\ i \in 1 .. n /\ m[i - 1] < m[i]
  BY <1>1, <1>3
<1>4. ASSUME NEW i \in S, NEW f \in [S -> Nat] PROVE turn(f, i) \in Nat
  <2>1. CASE i = 0
    BY <2>1
  <2>2. CASE i # 0
    <3>1. f[i - 1] \in Nat /\ split[i][1] \in Nat
      BY <1>1, <1>3, <2>2
    <3>. QED
      BY <2>2, <3>1
  <2>. QED
    BY <2>1, <2>2
<1>5. \E f : Sums(f)
  <2>1. rule \in [S -> [[S -> Nat] -> Nat]]
    <3>. HIDE DEF turn
    <3>. QED
      BY <1>4
  <2>2. ASSUME NEW i \in S, NEW e \in [S -> Nat], NEW f \in [S -> Nat],
               \A k \in S : m[k] < m[i] => e[k] = f[k]
        PROVE  rule[i][e] = rule[i][f]
    <3>1. turn(e, i) = turn(f, i)
      <4>1. CASE i # 0
        <5>1. e[i - 1] = f[i - 1]
          BY <1>3, <2>2, <4>1
        <5>. QED
          BY <5>1
      <4>. QED
        BY <4>1
    <3>. HIDE DEF turn
    <3>. QED
      BY <3>1
  <2>3. m \in [S -> Nat] /\ n + 1 \in Nat /\ \A i \in S : m[i] < n + 1
    BY <1>1
  <2>5. Recursion(S, Nat, m, n + 1, rule)
    <3>. HIDE DEF rule, S, m
    <3>. QED
      BY <2>1, <2>2, <2>3 DEF Recursion
  <2>6. \E f \in [S -> Nat] : \A i \in S : f[i] = rule[i][f]
    <3>. HIDE DEF rule, S, m
    <3>. QED
      BY <2>5, RecursionSolved
  <2>7. PICK f \in [S -> Nat] : \A i \in S : f[i] = rule[i][f]
    BY <2>6
  <2>. HIDE DEF turn
  <2>8. f = [i \in S |-> turn(f, i)]
    BY <2>7
  <2>. QED
    BY <2>8
<1>6. sum = [i \in S |-> turn(sum, i)]
  <2>1. Sums(sum)
    <3>. HIDE DEF Sums
    <3>. QED
      BY <1>5
  <2>. QED
    BY <2>1
<1>. HIDE DEF sum
<1>7. \A i \in S : sum[i] = turn(sum, i)
  <2>. HIDE DEF turn
  <2>. QED
    BY <1>6
<1>8. sum[0] = 0 /\ 0 \in S
  BY <1>1, <1>7
<1>. DEFINE T == {i \in 1 .. n : sum[i] \in Nat}
<1>9. ASSUME NEW i \in 1 .. n, \A k \in 1 .. n : k < i => k \in T PROVE sum[i] \in Nat
  <2>1. i \in S /\ i # 0 /\ sum[i] = sum[i - 1] + split[i][1]
    BY <1>1, <1>7
  <2>2. sum[i - 1] \in Nat
    <3>1. CASE i = 1
      BY <1>8, <3>1
    <3>2. CASE i # 1
      <4>1. i - 1 \in 1 .. n /\ i - 1 < i
        BY <1>1, <3>2
      <4>. QED
        BY <1>9, <4>1
    <3>. QED
      BY <3>1, <3>2
  <2>. QED
    BY <1>1, <2>1, <2>2
<1>10. T = 1 .. n
  <2>1. T \in SUBSET (1 .. n) /\ \A h \in 1 .. n : (\A k \in 1 .. n : k < h => k \in T) => h \in T
    BY <1>9
  <2>. HIDE DEF T
  <2>. QED
    BY <1>1, <2>1, Downwards
<1>11. CASE n = 0
  BY <1>2, <1>8, <1>11
<1>12. CASE n # 0
  <2>1. n \in 1 .. n
    BY <1>1, <1>12
  <2>. QED
    BY <1>2, <1>10, <2>1
<1>. QED
  BY <1>11, <1>12

LEMMA HardCapTyped == \A minutes \in Nat : HardCap(minutes) \in Nat
  BY DEF HardCap

----------------------------------------------------------------------------
\* Steps: the types, the shape of the tree, and the entries of the journal

LEMMA Monotone ==
    ASSUME NEW m \in Nat, NEW n \in Nat, m <= n
    PROVE  /\ GoalRec(m) \subseteq GoalRec(n)
           /\ Requests(m) \subseteq Requests(n) /\ Handlers(m) \subseteq Handlers(n)
<1>1. 0 .. m \subseteq 0 .. n /\ 1 .. m \subseteq 1 .. n
  OBVIOUS
<1>2. Seq(1 .. m) \subseteq Seq(1 .. n)
  BY <1>1
<1>3. SUBSET (1 .. m) \subseteq SUBSET (1 .. n)
  BY <1>1
<1>. DEFINE a == 0 .. m
            b == 0 .. n
            k == Seq(1 .. m)
            l == Seq(1 .. n)
            s == SUBSET (1 .. m)
            t == SUBSET (1 .. n)
<1>4. a \subseteq b /\ k \subseteq l /\ s \subseteq t
  BY <1>1, <1>2, <1>3
<1>5. /\ GoalRec(m) = [parent : a, prev : a, kids : k, minutes : Nat, journal : BOOLEAN,
                       status : {"open", "running", "done"}, attached : BOOLEAN,
                       retry : 0 .. MaxRetry, dropped : BOOLEAN]
      /\ GoalRec(n) = [parent : b, prev : b, kids : l, minutes : Nat, journal : BOOLEAN,
                       status : {"open", "running", "done"}, attached : BOOLEAN,
                       retry : 0 .. MaxRetry, dropped : BOOLEAN]
      /\ Requests(m) = [op : Ops, goal : a] /\ Requests(n) = [op : Ops, goal : b]
      /\ Handlers(m) = [op : Ops, who : Client \cup {NoClient}, at : a, todo : s,
                        thinking : BOOLEAN, cap : Nat]
      /\ Handlers(n) = [op : Ops, who : Client \cup {NoClient}, at : b, todo : t,
                        thinking : BOOLEAN, cap : Nat]
  BY DEF GoalRec, Requests, Handlers
<1>. HIDE DEF a, b, k, l, s, t
<1>6. GoalRec(m) \subseteq GoalRec(n)
  BY <1>4, <1>5
<1>7. Requests(m) \subseteq Requests(n)
  BY <1>4, <1>5
<1>8. Handlers(m) \subseteq Handlers(n)
  BY <1>4, <1>5
<1>. QED
  BY <1>6, <1>7, <1>8

\* Requests and handlers that are about the first n goals.
Ref(r, n) == r \in Requests(n) /\ (r.op \notin {"none", "create"} => r.goal \in 1 .. n)
Han(w, n) ==
    /\ w \in Handlers(n)
    /\ w.op \in {"none", "create", "start", "session", "reshape"}
    /\ w.op \in {"create", "reshape"} \/ w.thinking => w.at \in 1 .. n
    /\ w.thinking => w.op # "none"

LEMMA RefHan ==
    TypeOK /\ Referenced =>
        /\ \A c \in Client : Ref(sent[c], Len(goal))
        /\ \A p \in Port : Han(work[p], Len(goal))
<1>. SUFFICES ASSUME TypeOK, Referenced
              PROVE  /\ \A c \in Client : Ref(sent[c], Len(goal))
                     /\ \A p \in Port : Han(work[p], Len(goal))
  OBVIOUS
<1>. DEFINE n == Len(goal)
<1>1. Goals = 1 .. n /\ n \in Nat
  BY GoalsTyped
<1>2. /\ \A c \in Client : sent[c] \in Requests(n)
      /\ \A p \in Port : work[p] \in Handlers(n)
  BY DEF TypeOK
<1>. HIDE DEF n
<1>3. \A c \in Client : Ref(sent[c], n)
  BY <1>1, <1>2 DEF Referenced, Ref
<1>4. \A p \in Port : Han(work[p], n)
  BY <1>1, <1>2 DEF Referenced, Han
<1>. QED
  BY <1>3, <1>4 DEF n

LEMMA RefHanGrow ==
    ASSUME NEW m \in Nat, NEW n \in Nat, m <= n
    PROVE  /\ \A r : Ref(r, m) => Ref(r, n)
           /\ \A w : Han(w, m) => Han(w, n)
<1>1. 1 .. m \subseteq 1 .. n
  OBVIOUS
<1>2. Requests(m) \subseteq Requests(n) /\ Handlers(m) \subseteq Handlers(n)
  BY Monotone
<1>3. \A r : Ref(r, m) => Ref(r, n)
  BY <1>1, <1>2 DEF Ref
<1>4. \A w : Han(w, m) => Han(w, n)
  BY <1>1, <1>2 DEF Han
<1>. QED
  BY <1>3, <1>4

\* A step that leaves requests and handlers about goals there are.
LEMMA Moves ==
    ASSUME TypeOK, Referenced,
           up' \in BOOLEAN, Len(goal) <= Len(goal'), Len(goal') <= MaxGoals,
           goal' \in Seq(GoalRec(Len(goal'))),
           sent' = sent \/ \E c \in Client, r \in {r \in Requests(Len(goal')) : Ref(r, Len(goal'))} :
                              sent' = [sent EXCEPT ![c] = r],
           work' = work \/ \E p \in Port, w \in {w \in Handlers(Len(goal')) : Han(w, Len(goal'))} :
                              work' = [work EXCEPT ![p] = w]
    PROVE  TypeOK' /\ Referenced'
<1>. DEFINE m == Len(goal)
            n == Len(goal')
<1>1. /\ m \in Nat /\ n \in Nat /\ m <= n /\ DOMAIN goal' = 1 .. n
      /\ sent \in [Client -> Requests(m)] /\ work \in [Port -> Handlers(m)]
  BY DEF TypeOK
<1>. HIDE DEF m, n
<1>2. /\ \A c \in Client : Ref(sent[c], n)
      /\ \A p \in Port : Han(work[p], n)
  BY <1>1, RefHan, RefHanGrow DEF m
<1>3. sent' \in [Client -> Requests(n)] /\ \A c \in Client : Ref(sent'[c], n)
  <2>1. CASE sent' = sent
    BY <1>1, <1>2, <2>1 DEF Ref
  <2>2. CASE \E c \in Client, r \in {r \in Requests(n) : Ref(r, n)} : sent' = [sent EXCEPT ![c] = r]
    BY <1>1, <1>2, <2>2 DEF Ref
  <2>. QED
    BY <2>1, <2>2 DEF n
<1>4. work' \in [Port -> Handlers(n)] /\ \A p \in Port : Han(work'[p], n)
  <2>1. CASE work' = work
    BY <1>1, <1>2, <2>1 DEF Han
  <2>2. CASE \E p \in Port, w \in {w \in Handlers(n) : Han(w, n)} : work' = [work EXCEPT ![p] = w]
    BY <1>1, <1>2, <2>2 DEF Han
  <2>. QED
    BY <2>1, <2>2 DEF n
<1>5. TypeOK'
  BY <1>3, <1>4 DEF TypeOK, n
<1>6. Referenced'
  BY <1>1, <1>3, <1>4 DEF Referenced, Ref, Han, Goals
<1>. QED
  BY <1>5, <1>6

\* A step that keeps the shape of the tree.
Kept ==
    /\ goal' \in [Goals -> GoalRec(Len(goal))]
    /\ \A h \in Goals : Parent(h)' = Parent(h) /\ goal'[h].prev = goal[h].prev /\ Kids(h)' = Kids(h)

LEMMA KeptShape ==
    ASSUME TypeOK, KidsLater, ParentsEarlier, Kept
    PROVE  /\ Len(goal') = Len(goal) /\ Goals' = Goals /\ goal' \in Seq(GoalRec(Len(goal')))
           /\ KidsLater' /\ ParentsEarlier'
<1>. DEFINE n == Len(goal)
<1>1. n \in Nat /\ Goals = 1 .. n /\ goal' \in [1 .. n -> GoalRec(n)]
  BY GoalsTyped DEF Kept
<1>. HIDE DEF n
<1>2. Len(goal') = n /\ DOMAIN goal' = 1 .. n /\ goal' \in Seq(GoalRec(n))
  BY <1>1
<1>3. Goals' = Goals
  BY <1>1, <1>2 DEF Goals
<1>4. KidsLater'
  <2>. SUFFICES ASSUME NEW g \in Goals, NEW i \in 1 .. Len(Kids(g)')
                PROVE  /\ Kids(g)'[i] > g /\ Parent(Kids(g)[i])' = g
                       /\ goal'[Kids(g)'[i]].prev = IF i = 1 THEN NoGoal ELSE Kids(g)'[i - 1]
    BY <1>3 DEF KidsLater
  <2>1. Kids(g)' = Kids(g)
    BY DEF Kept
  <2>2. /\ Kids(g)[i] \in Goals /\ Kids(g)[i] > g /\ Parent(Kids(g)[i]) = g
        /\ goal[Kids(g)[i]].prev = IF i = 1 THEN NoGoal ELSE Kids(g)[i - 1]
    BY <2>1, KidsTyped
  <2>. DEFINE k == Kids(g)[i]
  <2>3. Parent(k)' = Parent(k) /\ goal'[k].prev = goal[k].prev
    BY <2>2 DEF Kept
  <2>. HIDE DEF k
  <2>4. k' = k
    BY <2>1 DEF k
  <2>. QED
    BY <2>1, <2>2, <2>3, <2>4 DEF k
<1>5. ParentsEarlier'
  <2>. SUFFICES ASSUME NEW g \in Goals
                PROVE  /\ Parent(g)' < g /\ goal'[g].prev < g
                       /\ goal'[g].prev # NoGoal =>
                             Parent(g)' # NoGoal /\ Parent(goal[g].prev)' = Parent(g)'
    BY <1>3 DEF ParentsEarlier
  <2>1. Parent(g)' = Parent(g) /\ goal'[g].prev = goal[g].prev
    BY DEF Kept
  <2>2. goal[g].prev # NoGoal => goal[g].prev \in Goals
    BY FieldsTyped
  <2>3. ASSUME goal[g].prev # NoGoal
        PROVE  Parent(g) # NoGoal /\ Parent(goal[g].prev)' = Parent(g)
    <3>1. Parent(goal[g].prev) = Parent(g) /\ Parent(g) # NoGoal
      BY <2>3 DEF ParentsEarlier
    <3>2. goal'[goal[g].prev].parent = goal[goal[g].prev].parent
      BY <2>2, <2>3 DEF Kept, Parent
    <3>3. Parent(goal[g].prev)' = goal'[goal[g].prev].parent
      BY <2>1 DEF Parent
    <3>. QED
      BY <3>1, <3>2, <3>3 DEF Parent
  <2>4. Parent(g) < g /\ goal[g].prev < g
    BY DEF ParentsEarlier
  <2>. QED
    BY <2>1, <2>3, <2>4
<1>. QED
  BY <1>2, <1>3, <1>4, <1>5 DEF n

\* A step that leaves the goals alone.
LEMMA SameTree ==
    ASSUME KidsLater, ParentsEarlier, JournalDoneHasEntry, UNCHANGED goal
    PROVE  KidsLater' /\ ParentsEarlier' /\ JournalDoneHasEntry'
<1>1. KidsLater'
  BY DEF KidsLater, Goals, Kids, Parent
<1>2. ParentsEarlier'
  BY DEF ParentsEarlier, Goals, Parent
<1>3. JournalDoneHasEntry'
  BY DEF JournalDoneHasEntry, Goals, IsLeaf, Kids, Done
<1>. QED
  BY <1>1, <1>2, <1>3

LEMMA NoneRef == ASSUME NEW n \in Nat PROVE Ref(NoRequest, n)
<1>1. 0 \in 0 .. n
  OBVIOUS
<1>. DEFINE s == 0 .. n
<1>2. Requests(n) = [op : Ops, goal : s] /\ NoGoal \in s
  BY <1>1 DEF Requests, NoGoal
<1>. HIDE DEF s
<1>. QED
  BY <1>2 DEF Ref, NoRequest, Ops

LEMMA AskedRef ==
    ASSUME NEW n \in Nat, NEW op \in Ops, NEW g \in 0 .. n, op \notin {"none", "create"} => g \in 1 .. n
    PROVE  Ref([op |-> op, goal |-> g], n)
<1>. DEFINE s == 0 .. n
            t == 1 .. n
<1>1. Requests(n) = [op : Ops, goal : s] /\ g \in s /\ (op \notin {"none", "create"} => g \in t)
  BY DEF Requests
<1>. HIDE DEF s, t
<1>2. [op |-> op, goal |-> g] \in Requests(n)
  BY <1>1
<1>3. op \notin {"none", "create"} => g \in 1 .. n
  BY <1>1 DEF t
<1>. HIDE DEF t
<1>. QED
  BY <1>2, <1>3 DEF Ref

LEMMA HanMade ==
    ASSUME NEW n \in Nat, NEW op \in {"create", "start", "session", "reshape"},
           NEW who \in Client \cup {NoClient}, NEW at \in 0 .. n, NEW todo \in SUBSET (1 .. n),
           NEW thinking \in BOOLEAN, NEW cap \in Nat,
           op \in {"create", "reshape"} \/ thinking => at \in 1 .. n
    PROVE  Han([op |-> op, who |-> who, at |-> at, todo |-> todo, thinking |-> thinking, cap |-> cap], n)
<1>. DEFINE s == 0 .. n
            t == 1 .. n
            w == [op |-> op, who |-> who, at |-> at, todo |-> todo, thinking |-> thinking, cap |-> cap]
<1>1. /\ Handlers(n) = [op : Ops, who : Client \cup {NoClient}, at : s, todo : SUBSET t,
                        thinking : BOOLEAN, cap : Nat]
      /\ at \in s /\ todo \in SUBSET t /\ (op \in {"create", "reshape"} \/ thinking => at \in t)
  BY DEF Handlers
<1>. HIDE DEF s, t
<1>2. w \in Handlers(n)
  BY <1>1 DEF Ops
<1>3. w.op \in {"none", "create", "start", "session", "reshape"} /\ (w.thinking => w.op # "none")
  OBVIOUS
<1>4. w.op \in {"create", "reshape"} \/ w.thinking => w.at \in t
  BY <1>1
<1>. HIDE DEF w
<1>. QED
  BY <1>2, <1>3, <1>4 DEF Han, w, t

LEMMA IdleHan == ASSUME NEW n \in Nat PROVE Han(NoWork, n)
<1>. DEFINE s == 0 .. n
            t == 1 .. n
<1>1. /\ Handlers(n) = [op : Ops, who : Client \cup {NoClient}, at : s, todo : SUBSET t,
                        thinking : BOOLEAN, cap : Nat]
      /\ NoGoal \in s /\ {} \in SUBSET t /\ 0 \in Nat
  BY DEF Handlers, NoGoal
<1>. HIDE DEF s, t
<1>2. NoWork \in Handlers(n)
  BY <1>1 DEF NoWork, Ops
<1>3. NoWork.op = "none" /\ NoWork.thinking = FALSE
  BY DEF NoWork
<1>. QED
  BY <1>2, <1>3 DEF Han

\* The fields of a handler that is about the first n goals.
LEMMA HanFields ==
    ASSUME NEW n \in Nat, NEW w, Han(w, n)
    PROVE  /\ w = [op |-> w.op, who |-> w.who, at |-> w.at, todo |-> w.todo,
                   thinking |-> w.thinking, cap |-> w.cap]
           /\ w.op \in {"none", "create", "start", "session", "reshape"}
           /\ w.who \in Client \cup {NoClient} /\ w.at \in 0 .. n /\ w.todo \in SUBSET (1 .. n)
           /\ w.thinking \in BOOLEAN /\ w.cap \in Nat
           /\ w.op \in {"create", "reshape"} \/ w.thinking => w.at \in 1 .. n
           /\ w.thinking => w.op # "none"
<1>. DEFINE s == 0 .. n
            t == 1 .. n
<1>1. w \in [op : Ops, who : Client \cup {NoClient}, at : s, todo : SUBSET t,
             thinking : BOOLEAN, cap : Nat]
  BY DEF Han, Handlers
<1>2. /\ w.op \in {"none", "create", "start", "session", "reshape"}
      /\ w.op \in {"create", "reshape"} \/ w.thinking => w.at \in t
      /\ w.thinking => w.op # "none"
  BY DEF Han
<1>. HIDE DEF s, t
<1>3. w = [op |-> w.op, who |-> w.who, at |-> w.at, todo |-> w.todo,
           thinking |-> w.thinking, cap |-> w.cap]
  BY <1>1
<1>4. w.who \in Client \cup {NoClient} /\ w.at \in s /\ w.todo \in SUBSET t
      /\ w.thinking \in BOOLEAN /\ w.cap \in Nat
  BY <1>1
<1>. QED
  BY <1>2, <1>3, <1>4 DEF s, t

\* The port of a client takes its request.
LEMMA Taken ==
    ASSUME TypeOK, Referenced, NEW c \in Client, NEW op \in Ops, Take(c, op), NEW n \in Nat
    PROVE  /\ \E d \in Client, r \in {r \in Requests(n) : Ref(r, n)} : sent' = [sent EXCEPT ![d] = r]
           /\ op \notin {"none", "create"} => sent[c].goal \in Goals
           /\ PortOf[c] \in Port
<1>1. sent' = [sent EXCEPT ![c] = NoRequest] /\ sent[c].op = op
  BY DEF Take
<1>2. NoRequest \in {r \in Requests(n) : Ref(r, n)}
  BY NoneRef DEF Ref
<1>3. op \notin {"none", "create"} => sent[c].goal \in Goals
  BY <1>1 DEF Referenced
<1>. QED
  BY <1>1, <1>2, <1>3, ClientsAssumption

LEMMA Worked ==
    ASSUME NEW p \in Port, NEW w, NEW n \in Nat, Han(w, n), Work(p, w)
    PROVE  \E q \in Port, v \in {v \in Handlers(n) : Han(v, n)} : work' = [work EXCEPT ![q] = v]
  BY DEF Work, Han

\* What the search finds is a leaf that is open.
LEMMA FirstOpenLeaf ==
    TypeOK /\ KidsLater => \A g \in Goals : FirstOpen(g) # NoGoal =>
        FirstOpen(g) \in Goals /\ IsLeaf(FirstOpen(g)) /\ Open(FirstOpen(g))
<1>. DEFINE Good(g) == FirstOpen(g) # NoGoal =>
                          FirstOpen(g) \in Goals /\ IsLeaf(FirstOpen(g)) /\ Open(FirstOpen(g))
            T == {h \in Goals : Good(h)}
<1>. SUFFICES ASSUME TypeOK, KidsLater PROVE \A g \in Goals : Good(g)
  OBVIOUS
<1>1. Len(goal) \in Nat /\ Goals = 1 .. Len(goal)
  BY GoalsTyped
<1>2. ASSUME NEW h \in Goals, \A k \in Goals : k > h => k \in T PROVE Good(h)
  <2>1. CASE IsLeaf(h) /\ Open(h) /\ FirstOpen(h) = h
    BY <2>1
  <2>2. CASE FirstOpen(h) = NoGoal
    BY <2>2
  <2>3. ASSUME NEW i \in 1 .. Len(Kids(h)), FirstOpen(h) = FirstOpen(Kids(h)[i])
        PROVE  Good(h)
    <3>1. Kids(h)[i] \in Goals /\ Kids(h)[i] > h
      BY KidsTyped
    <3>2. Good(Kids(h)[i])
      BY <1>2, <3>1
    <3>. QED
      BY <2>3, <3>2
  <2>. HIDE DEF Good
  <2>. QED
    BY <2>1, <2>2, <2>3, FirstOpenTurns
<1>. HIDE DEF T
<1>3. T = 1 .. Len(goal)
  <2>1. T \in SUBSET (1 .. Len(goal))
    BY <1>1 DEF T
  <2>2. \A h \in 1 .. Len(goal) : (\A k \in 1 .. Len(goal) : k > h => k \in T) => h \in T
    BY <1>1, <1>2 DEF T
  <2>. QED
    BY <1>1, <2>1, <2>2, Upwards
<1>. QED
  BY <1>1, <1>3 DEF T

\* The invariant after a step that leaves the goals alone.
LEMMA GInvSameTree ==
    ASSUME GInv, up' \in BOOLEAN, UNCHANGED goal,
           sent' = sent \/ \E c \in Client, r \in {r \in Requests(Len(goal)) : Ref(r, Len(goal))} :
                              sent' = [sent EXCEPT ![c] = r],
           work' = work \/ \E p \in Port, w \in {w \in Handlers(Len(goal)) : Han(w, Len(goal))} :
                              work' = [work EXCEPT ![p] = w]
    PROVE  GInv'
<1>1. TypeOK /\ KidsLater /\ ParentsEarlier /\ Referenced /\ JournalDoneHasEntry
  BY DEF GInv
<1>2. KidsLater' /\ ParentsEarlier' /\ JournalDoneHasEntry'
  BY <1>1, SameTree
<1>3. Len(goal) \in Nat /\ Len(goal) <= MaxGoals /\ goal \in Seq(GoalRec(Len(goal)))
  BY <1>1 DEF TypeOK
<1>4. Len(goal) <= Len(goal') /\ Len(goal') <= MaxGoals /\ goal' \in Seq(GoalRec(Len(goal')))
  BY <1>3
<1>5. TypeOK' /\ Referenced'
  BY <1>1, <1>4, Moves
<1>. QED
  BY <1>2, <1>5 DEF GInv

\* And after one that keeps the shape of the tree.
LEMMA GInvKept ==
    ASSUME GInv, up' \in BOOLEAN, Kept, JournalDoneHasEntry',
           sent' = sent \/ \E c \in Client, r \in {r \in Requests(Len(goal)) : Ref(r, Len(goal))} :
                              sent' = [sent EXCEPT ![c] = r],
           work' = work \/ \E p \in Port, w \in {w \in Handlers(Len(goal)) : Han(w, Len(goal))} :
                              work' = [work EXCEPT ![p] = w]
    PROVE  GInv' /\ Goals' = Goals
<1>1. TypeOK /\ KidsLater /\ ParentsEarlier /\ Referenced
  BY DEF GInv
<1>2. /\ Len(goal') = Len(goal) /\ Goals' = Goals /\ goal' \in Seq(GoalRec(Len(goal')))
      /\ KidsLater' /\ ParentsEarlier'
  BY <1>1, KeptShape
<1>3. Len(goal) \in Nat /\ Len(goal) <= MaxGoals
  BY <1>1 DEF TypeOK
<1>4. Len(goal) <= Len(goal') /\ Len(goal') <= MaxGoals
  BY <1>2, <1>3
<1>5. TypeOK' /\ Referenced'
  BY <1>1, <1>2, <1>4, Moves
<1>. QED
  BY <1>2, <1>5 DEF GInv

LEMMA GAsk == ASSUME GInv, NEW c \in Client, Ask(c) PROVE GInv'
<1>. DEFINE n == Len(goal)
<1>1. TypeOK /\ up \in BOOLEAN /\ n \in Nat /\ Goals = 1 .. n
  BY GoalsTyped DEF GInv, TypeOK
<1>2. UNCHANGED <<up, goal, work>>
  BY DEF Ask
<1>. HIDE DEF n
<1>3. \E r \in {r \in Requests(n) : Ref(r, n)} : sent' = [sent EXCEPT ![c] = r]
  <2>1. CASE sent' = [sent EXCEPT ![c] = [op |-> "create", goal |-> NoGoal]]
    <3>1. "create" \in Ops /\ NoGoal \in 0 .. n
      BY <1>1 DEF Ops, NoGoal
    <3>2. Ref([op |-> "create", goal |-> NoGoal], n)
      BY <1>1, <3>1, AskedRef
    <3>. QED
      BY <2>1, <3>2 DEF Ref
  <2>2. ASSUME NEW g \in Goals, NEW op \in Offered(g), sent' = [sent EXCEPT ![c] = [op |-> op, goal |-> g]]
        PROVE  \E r \in {r \in Requests(n) : Ref(r, n)} : sent' = [sent EXCEPT ![c] = r]
    <3>1. op \in Ops
      BY DEF Offered, Ops
    <3>2. g \in 0 .. n /\ g \in 1 .. n
      BY <1>1
    <3>3. Ref([op |-> op, goal |-> g], n)
      BY <1>1, <3>1, <3>2, AskedRef
    <3>. QED
      BY <2>2, <3>3 DEF Ref
  <2>. QED
    BY <2>1, <2>2 DEF Ask
<1>. QED
  BY <1>1, <1>2, <1>3, GInvSameTree DEF n

LEMMA GStart == ASSUME GInv, NEW c \in Client, handle_post_goal_start(c) PROVE GInv'
<1>. DEFINE n == Len(goal)
            g == sent[c].goal
            w == [op |-> "start", who |-> c, at |-> NoGoal, todo |-> {g}, thinking |-> FALSE, cap |-> 0]
<1>1. TypeOK /\ Referenced /\ up \in BOOLEAN /\ n \in Nat /\ Goals = 1 .. n
  BY GoalsTyped DEF GInv, TypeOK
<1>2. Take(c, "start") /\ Work(PortOf[c], w) /\ UNCHANGED <<up, goal>>
  <2>1. w = [NoWork EXCEPT !.op = "start", !.who = c, !.todo = {g}]
    <3>. HIDE DEF g
    <3>1. PICK v : v = [NoWork EXCEPT !.op = "start", !.who = c, !.todo = {g}]
      OBVIOUS
    <3>2. v = [op |-> "start", who |-> c, at |-> NoGoal, todo |-> {g}, thinking |-> FALSE, cap |-> 0]
      BY <3>1 DEF NoWork
    <3>. QED
      BY <3>1, <3>2
  <2>. HIDE DEF w
  <2>. QED
    BY <2>1 DEF handle_post_goal_start
<1>. HIDE DEF n
<1>3. /\ \E d \in Client, r \in {r \in Requests(n) : Ref(r, n)} : sent' = [sent EXCEPT ![d] = r]
      /\ g \in Goals /\ PortOf[c] \in Port
  BY <1>1, <1>2, Taken DEF Ops
<1>. HIDE DEF g
<1>4. {g} \in SUBSET (1 .. n) /\ NoGoal \in 0 .. n
  BY <1>1, <1>3 DEF NoGoal
<1>5. Han(w, n)
  BY <1>1, <1>4, HanMade
<1>. HIDE DEF w
<1>6. \E q \in Port, v \in {v \in Handlers(n) : Han(v, n)} : work' = [work EXCEPT ![q] = v]
  BY <1>1, <1>2, <1>3, <1>5, Worked
<1>. QED
  BY <1>1, <1>2, <1>3, <1>6, GInvSameTree DEF n

LEMMA GReshapeAsked == ASSUME GInv, NEW c \in Client, handle_post_goal_reshape(c) PROVE GInv'
<1>. DEFINE n == Len(goal)
            g == sent[c].goal
            w == [op |-> "reshape", who |-> c, at |-> g, todo |-> {}, thinking |-> TRUE, cap |-> 0]
<1>1. TypeOK /\ Referenced /\ up \in BOOLEAN /\ n \in Nat /\ Goals = 1 .. n
  BY GoalsTyped DEF GInv, TypeOK
<1>2. Take(c, "reshape") /\ (Work(PortOf[c], w) \/ UNCHANGED work) /\ UNCHANGED <<up, goal>>
  <2>1. w = [NoWork EXCEPT !.op = "reshape", !.who = c, !.at = g, !.thinking = TRUE]
    <3>. HIDE DEF g
    <3>1. PICK v : v = [NoWork EXCEPT !.op = "reshape", !.who = c, !.at = g, !.thinking = TRUE]
      OBVIOUS
    <3>2. v = [op |-> "reshape", who |-> c, at |-> g, todo |-> {}, thinking |-> TRUE, cap |-> 0]
      BY <3>1 DEF NoWork
    <3>. QED
      BY <3>1, <3>2
  <2>. HIDE DEF w
  <2>. QED
    BY <2>1 DEF handle_post_goal_reshape
<1>. HIDE DEF n
<1>3. /\ \E d \in Client, r \in {r \in Requests(n) : Ref(r, n)} : sent' = [sent EXCEPT ![d] = r]
      /\ g \in Goals /\ PortOf[c] \in Port
  BY <1>1, <1>2, Taken DEF Ops
<1>. HIDE DEF g
<1>4. g \in 1 .. n /\ g \in 0 .. n /\ {} \in SUBSET (1 .. n)
  BY <1>1, <1>3
<1>5. Han(w, n)
  BY <1>1, <1>4, HanMade
<1>. HIDE DEF w
<1>6. work' = work \/ \E q \in Port, v \in {v \in Handlers(n) : Han(v, n)} : work' = [work EXCEPT ![q] = v]
  BY <1>1, <1>2, <1>3, <1>5, Worked
<1>. QED
  BY <1>1, <1>2, <1>3, <1>6, GInvSameTree DEF n

LEMMA GSession == ASSUME GInv, NEW p \in Port, handle_get_session_goals(p) PROVE GInv'
<1>. DEFINE n == Len(goal)
            w == [op |-> "session", who |-> NoClient, at |-> NoGoal, todo |-> Roots, thinking |-> FALSE, cap |-> 0]
<1>1. TypeOK /\ up \in BOOLEAN /\ n \in Nat /\ Goals = 1 .. n
  BY GoalsTyped DEF GInv, TypeOK
<1>2. Work(p, w) /\ UNCHANGED <<up, goal, sent>>
  <2>1. w = [NoWork EXCEPT !.op = "session", !.todo = Roots]
    <3>1. PICK v : v = [NoWork EXCEPT !.op = "session", !.todo = Roots]
      OBVIOUS
    <3>2. v = [op |-> "session", who |-> NoClient, at |-> NoGoal, todo |-> Roots, thinking |-> FALSE, cap |-> 0]
      BY <3>1 DEF NoWork
    <3>. QED
      BY <3>1, <3>2
  <2>. HIDE DEF w
  <2>. QED
    BY <2>1 DEF handle_get_session_goals
<1>. HIDE DEF n
<1>4. Roots \in SUBSET (1 .. n) /\ NoGoal \in 0 .. n
  BY <1>1 DEF Roots, NoGoal
<1>5. Han(w, n)
  BY <1>1, <1>4, HanMade
<1>. HIDE DEF w
<1>6. \E q \in Port, v \in {v \in Handlers(n) : Han(v, n)} : work' = [work EXCEPT ![q] = v]
  BY <1>1, <1>2, <1>5, Worked
<1>. QED
  BY <1>1, <1>2, <1>6, GInvSameTree DEF n

\* Who asks for a decomposition waits for it.
LEMMA ThinkingHan ==
    ASSUME GInv, NEW p \in Port, NEW todo \in SUBSET Goals, NEW f \in Goals,
           work[p].op \in {"create", "start", "session"},
           Work(p, Thinking([work[p] EXCEPT !.todo = todo], f))
    PROVE  \E q \in Port, v \in {v \in Handlers(Len(goal)) : Han(v, Len(goal))} : work' = [work EXCEPT ![q] = v]
<1>. DEFINE n == Len(goal)
            c == HardCap(goal[f].minutes)
            w == work[p]
            v == Thinking([w EXCEPT !.todo = todo], f)
<1>1. TypeOK /\ n \in Nat /\ Goals = 1 .. n /\ Han(w, n) /\ goal[f] \in GoalRec(n)
  BY GoalsTyped, RefHan DEF GInv
<1>2. c \in Nat
  BY <1>1, HardCapTyped DEF GoalRec
<1>3. f \in 0 .. n /\ f \in 1 .. n /\ todo \in SUBSET (1 .. n)
  BY <1>1
<1>4. v = [[w EXCEPT !.todo = todo] EXCEPT !.thinking = TRUE, !.at = f, !.cap = c]
  BY DEF Thinking
<1>. HIDE DEF n, c, w
<1>5. v = [op |-> w.op, who |-> w.who, at |-> f, todo |-> todo, thinking |-> TRUE, cap |-> c]
  BY <1>1, <1>4, HanFields
<1>6. w.who \in Client \cup {NoClient} /\ w.op \in {"create", "start", "session", "reshape"}
  BY <1>1, HanFields DEF w
<1>7. Han(v, n)
  <2>. HIDE DEF v
  <2>. QED
    BY <1>1, <1>2, <1>3, <1>5, <1>6, HanMade
<1>8. Work(p, v)
  BY DEF w
<1>. HIDE DEF v
<1>. QED
  BY <1>1, <1>7, <1>8, Worked DEF n

LEMMA GPartial == ASSUME GInv, NEW p \in Port, ComputePartialDecomposition(p) PROVE GInv'
<1>. DEFINE n == Len(goal)
            w == work[p]
<1>1. TypeOK /\ KidsLater /\ up \in BOOLEAN /\ n \in Nat /\ Goals = 1 .. n /\ Han(w, n)
  BY GoalsTyped, RefHan DEF GInv, TypeOK
<1>2. UNCHANGED <<up, goal, sent>> /\ w.op = "create" /\ w.at \in Goals
  BY DEF ComputePartialDecomposition, GInv, Referenced
<1>3. \E q \in Port, v \in {v \in Handlers(n) : Han(v, n)} : work' = [work EXCEPT ![q] = v]
  <2>1. CASE Work(p, NoWork)
    BY <1>1, <2>1, IdleHan, Worked
  <2>2. CASE Work(p, Thinking(w, w.at))
    <3>1. w = [w EXCEPT !.todo = w.todo] /\ w.todo \in SUBSET Goals
      <4>. HIDE DEF n, w
      <4>. QED
        BY <1>1, HanFields
    <3>2. Work(p, Thinking([w EXCEPT !.todo = w.todo], w.at))
      BY <2>2, <3>1
    <3>. QED
      BY <1>2, <3>1, <3>2, ThinkingHan
  <2>3. CASE Kids(w.at) # <<>> /\ Work(p, [w EXCEPT !.at = Head(Kids(w.at))])
    <3>. DEFINE h == Head(Kids(w.at))
                v == [w EXCEPT !.at = h]
    <3>1. Kids(w.at) \in Seq(Goals)
      BY <1>1, <1>2, FieldsTyped
    <3>2. h \in Goals
      BY <2>3, <3>1
    <3>. HIDE DEF h, w, n
    <3>3. h \in 0 .. n /\ h \in 1 .. n
      BY <1>1, <3>2
    <3>4. v = [op |-> "create", who |-> w.who, at |-> h, todo |-> w.todo, thinking |-> w.thinking, cap |-> w.cap]
      BY <1>1, <1>2, HanFields
    <3>5. Han(v, n)
      <4>. HIDE DEF v
      <4>1. w.who \in Client \cup {NoClient} /\ w.todo \in SUBSET (1 .. n) /\ w.thinking \in BOOLEAN /\ w.cap \in Nat
        BY <1>1, HanFields
      <4>. QED
        BY <1>1, <3>3, <3>4, <4>1, HanMade
    <3>6. Work(p, v)
      BY <2>3 DEF h
    <3>. HIDE DEF v
    <3>. QED
      BY <1>1, <3>5, <3>6, Worked
  <2>. QED
    BY <2>1, <2>2, <2>3 DEF ComputePartialDecomposition
<1>. QED
  BY <1>1, <1>2, <1>3, GInvSameTree

LEMMA GSearch == ASSUME GInv, NEW p \in Port, first_unstarted_leaf(p) PROVE GInv'
<1>. DEFINE n == Len(goal)
            w == work[p]
<1>1. TypeOK /\ KidsLater /\ up \in BOOLEAN /\ n \in Nat /\ Goals = 1 .. n /\ Han(w, n)
  BY GoalsTyped, RefHan DEF GInv, TypeOK
<1>2. UNCHANGED <<up, goal, sent>> /\ w.op \in {"start", "session"}
  BY DEF first_unstarted_leaf
<1>3. PICK g \in w.todo : /\ TooBig(FirstOpen(g))
                          /\ Work(p, Thinking([w EXCEPT !.todo = @ \ {g}], FirstOpen(g)))
  BY DEF first_unstarted_leaf
<1>4. w.todo \in SUBSET Goals
  <2>. HIDE DEF n, w
  <2>. QED
    BY <1>1, HanFields
<1>5. FirstOpen(g) \in Goals
  BY <1>1, <1>3, <1>4, FirstOpenLeaf DEF TooBig
<1>6. Work(p, Thinking([w EXCEPT !.todo = w.todo \ {g}], FirstOpen(g)))
  BY <1>3
<1>7. \E q \in Port, v \in {v \in Handlers(n) : Han(v, n)} : work' = [work EXCEPT ![q] = v]
  BY <1>2, <1>4, <1>5, <1>6, ThinkingHan
<1>. QED
  BY <1>1, <1>2, <1>7, GInvSameTree

\* A step after which l has status st, and the others have the one they had.
SetTo(l, st) ==
    /\ Kept /\ Goals' = Goals /\ l \in Goals
    /\ goal'[l].status = st /\ \A h \in Goals : h # l => goal'[h].status = goal[h].status

\* The invariant after a change of one goal that leaves it its place.
LEMMA GInvChanged ==
    ASSUME GInv, up' \in BOOLEAN, NEW l \in Goals, NEW r \in GoalRec(Len(goal)),
           r.parent = Parent(l), r.prev = goal[l].prev, r.kids = Kids(l),
           r.kids = <<>> /\ r.journal /\ r.status = "done" /\ ~r.dropped => r.attached,
           goal' = [goal EXCEPT ![l] = r],
           sent' = sent \/ \E c \in Client, q \in {q \in Requests(Len(goal)) : Ref(q, Len(goal))} :
                              sent' = [sent EXCEPT ![c] = q],
           work' = work \/ \E p \in Port, w \in {w \in Handlers(Len(goal)) : Han(w, Len(goal))} :
                              work' = [work EXCEPT ![p] = w]
    PROVE  GInv' /\ SetTo(l, r.status)
<1>. DEFINE n == Len(goal)
<1>1. TypeOK /\ n \in Nat /\ Goals = 1 .. n /\ \A h \in Goals : goal[h] \in GoalRec(n)
  BY GoalsTyped DEF GInv
<1>2. goal \in [Goals -> GoalRec(n)]
  BY <1>1 DEF TypeOK
<1>3. goal' \in [Goals -> GoalRec(n)] /\ goal'[l] = r /\ \A h \in Goals : h # l => goal'[h] = goal[h]
  <2>1. r \in GoalRec(n)
    OBVIOUS
  <2>. HIDE DEF n
  <2>. QED
    BY <1>2, <2>1
<1>4. Kept
  BY <1>3 DEF Kept, Parent, Kids
<1>5. Goals' = Goals
  BY <1>3 DEF Goals
<1>6. JournalDoneHasEntry'
  <2>. SUFFICES ASSUME NEW h \in Goals, goal'[h].kids = <<>>, goal'[h].journal,
                       goal'[h].status = "done", ~goal'[h].dropped
                PROVE  goal'[h].attached
    BY <1>5 DEF JournalDoneHasEntry, IsLeaf, Kids, Done
  <2>1. CASE h = l
    BY <1>3, <2>1
  <2>2. CASE h # l
    BY <1>3, <2>2 DEF GInv, JournalDoneHasEntry, IsLeaf, Kids, Done
  <2>. QED
    BY <2>1, <2>2
<1>. QED
  BY <1>3, <1>4, <1>5, <1>6, GInvKept DEF SetTo

\* A goal with another status, entry or estimate, in its place.
Like(r, g, n) ==
    /\ r \in GoalRec(n)
    /\ r.parent = g.parent /\ r.prev = g.prev /\ r.kids = g.kids /\ r.journal = g.journal

Dated(g, s, a) == [g EXCEPT !.status = s, !.attached = a]
Estimated(g, m, t) == [g EXCEPT !.minutes = m, !.retry = t]
Afresh(g, m) == [g EXCEPT !.status = "open", !.retry = 0, !.minutes = m]
Attached(g, a) == [g EXCEPT !.attached = a]
Ended(g) == [g EXCEPT !.status = "done"]
Dropped(g) == [g EXCEPT !.status = "done", !.dropped = TRUE]

LEMMA DatedLike ==
    ASSUME NEW n, NEW g \in GoalRec(n), NEW s \in {"open", "running", "done"}, NEW a \in BOOLEAN
    PROVE  /\ Like(Dated(g, s, a), g, n)
           /\ Dated(g, s, a).status = s /\ Dated(g, s, a).attached = a /\ Dated(g, s, a).dropped = g.dropped
<1>. DEFINE S == {"open", "running", "done"}
            T == 0 .. MaxRetry
            P == 0 .. n
            K == Seq(1 .. n)
            B == BOOLEAN
            N == Nat
            R == [parent : P, prev : P, kids : K, minutes : N, journal : B,
                  status : S, attached : B, retry : T, dropped : B]
<1>1. GoalRec(n) = R
  BY DEF GoalRec
<1>2. g \in R /\ s \in S /\ a \in B
  BY <1>1, GoalBounds
<1>. HIDE DEF S, T, P, K, B, N
<1>3. PICK r : r = [g EXCEPT !.status = s, !.attached = a]
  OBVIOUS
<1>4. r \in R /\ r.parent = g.parent /\ r.prev = g.prev /\ r.kids = g.kids /\ r.journal = g.journal
  BY <1>2, <1>3
<1>5. r.status = s /\ r.attached = a /\ r.dropped = g.dropped
  BY <1>2, <1>3
<1>6. r = Dated(g, s, a)
  BY <1>3 DEF Dated
<1>7. Like(r, g, n)
  <2>. HIDE DEF R
  <2>. QED
    BY <1>1, <1>4 DEF Like
<1>. QED
  BY <1>5, <1>6, <1>7

LEMMA EstimatedLike ==
    ASSUME NEW n, NEW g \in GoalRec(n), NEW m \in Nat, NEW t \in 0 .. MaxRetry
    PROVE  /\ Like(Estimated(g, m, t), g, n)
           /\ Estimated(g, m, t).status = g.status /\ Estimated(g, m, t).attached = g.attached /\ Estimated(g, m, t).dropped = g.dropped
<1>. DEFINE S == {"open", "running", "done"}
            T == 0 .. MaxRetry
            P == 0 .. n
            K == Seq(1 .. n)
            B == BOOLEAN
            N == Nat
            R == [parent : P, prev : P, kids : K, minutes : N, journal : B,
                  status : S, attached : B, retry : T, dropped : B]
<1>1. GoalRec(n) = R
  BY DEF GoalRec
<1>2. g \in R /\ m \in N /\ t \in T
  BY <1>1, GoalBounds
<1>. HIDE DEF S, T, P, K, B, N
<1>3. PICK r : r = [g EXCEPT !.minutes = m, !.retry = t]
  OBVIOUS
<1>4. r \in R /\ r.parent = g.parent /\ r.prev = g.prev /\ r.kids = g.kids /\ r.journal = g.journal
  BY <1>2, <1>3
<1>5. r.status = g.status /\ r.attached = g.attached /\ r.dropped = g.dropped
  BY <1>2, <1>3
<1>6. r = Estimated(g, m, t)
  BY <1>3 DEF Estimated
<1>7. Like(r, g, n)
  <2>. HIDE DEF R
  <2>. QED
    BY <1>1, <1>4 DEF Like
<1>. QED
  BY <1>5, <1>6, <1>7

LEMMA AfreshLike ==
    ASSUME NEW n, NEW g \in GoalRec(n), NEW m \in Nat
    PROVE  /\ Like(Afresh(g, m), g, n)
           /\ Afresh(g, m).status = "open"
<1>. DEFINE S == {"open", "running", "done"}
            T == 0 .. MaxRetry
            P == 0 .. n
            K == Seq(1 .. n)
            B == BOOLEAN
            N == Nat
            R == [parent : P, prev : P, kids : K, minutes : N, journal : B,
                  status : S, attached : B, retry : T, dropped : B]
            o == "open"
            z == 0
<1>1. GoalRec(n) = R
  BY DEF GoalRec
<1>2. g \in R /\ m \in N /\ o \in S /\ z \in T
  BY <1>1, GoalBounds
<1>. HIDE DEF S, T, P, K, B, N, o, z
<1>3. PICK r : r = [g EXCEPT !.status = o, !.retry = z, !.minutes = m]
  OBVIOUS
<1>4. r \in R /\ r.parent = g.parent /\ r.prev = g.prev /\ r.kids = g.kids /\ r.journal = g.journal
  BY <1>2, <1>3
<1>5. r.status = o
  BY <1>2, <1>3
<1>6. r = Afresh(g, m)
  BY <1>3 DEF Afresh, o, z
<1>7. Like(r, g, n)
  <2>. HIDE DEF R
  <2>. QED
    BY <1>1, <1>4 DEF Like
<1>. QED
  BY <1>5, <1>6, <1>7 DEF o, z

LEMMA AttachedLike ==
    ASSUME NEW n, NEW g \in GoalRec(n), NEW a \in BOOLEAN
    PROVE  /\ Like(Attached(g, a), g, n)
           /\ Attached(g, a).status = g.status /\ Attached(g, a).attached = a /\ Attached(g, a).dropped = g.dropped
<1>. DEFINE S == {"open", "running", "done"}
            T == 0 .. MaxRetry
            P == 0 .. n
            K == Seq(1 .. n)
            B == BOOLEAN
            N == Nat
            R == [parent : P, prev : P, kids : K, minutes : N, journal : B,
                  status : S, attached : B, retry : T, dropped : B]
<1>1. GoalRec(n) = R
  BY DEF GoalRec
<1>2. g \in R /\ a \in B
  BY <1>1, GoalBounds
<1>. HIDE DEF S, T, P, K, B, N
<1>3. PICK r : r = [g EXCEPT !.attached = a]
  OBVIOUS
<1>4. r \in R /\ r.parent = g.parent /\ r.prev = g.prev /\ r.kids = g.kids /\ r.journal = g.journal
  BY <1>2, <1>3
<1>5. r.status = g.status /\ r.attached = a /\ r.dropped = g.dropped
  BY <1>2, <1>3
<1>6. r = Attached(g, a)
  BY <1>3 DEF Attached
<1>7. Like(r, g, n)
  <2>. HIDE DEF R
  <2>. QED
    BY <1>1, <1>4 DEF Like
<1>. QED
  BY <1>5, <1>6, <1>7

LEMMA EndedLike ==
    ASSUME NEW n, NEW g \in GoalRec(n)
    PROVE  /\ Like(Ended(g), g, n)
           /\ Ended(g).status = "done" /\ Ended(g).attached = g.attached /\ Ended(g).dropped = g.dropped
<1>. DEFINE S == {"open", "running", "done"}
            T == 0 .. MaxRetry
            P == 0 .. n
            K == Seq(1 .. n)
            B == BOOLEAN
            N == Nat
            R == [parent : P, prev : P, kids : K, minutes : N, journal : B,
                  status : S, attached : B, retry : T, dropped : B]
            d == "done"
<1>1. GoalRec(n) = R
  BY DEF GoalRec
<1>2. g \in R /\ d \in S
  BY <1>1, GoalBounds
<1>. HIDE DEF S, T, P, K, B, N, d
<1>3. PICK r : r = [g EXCEPT !.status = d]
  OBVIOUS
<1>4. r \in R /\ r.parent = g.parent /\ r.prev = g.prev /\ r.kids = g.kids /\ r.journal = g.journal
  BY <1>2, <1>3
<1>5. r.status = d /\ r.attached = g.attached /\ r.dropped = g.dropped
  BY <1>2, <1>3
<1>6. r = Ended(g)
  BY <1>3 DEF Ended, d
<1>7. Like(r, g, n)
  <2>. HIDE DEF R
  <2>. QED
    BY <1>1, <1>4 DEF Like
<1>. QED
  BY <1>5, <1>6, <1>7 DEF d

LEMMA DroppedLike ==
    ASSUME NEW n, NEW g \in GoalRec(n)
    PROVE  /\ Like(Dropped(g), g, n)
           /\ Dropped(g).status = "done" /\ Dropped(g).dropped = TRUE
<1>. DEFINE S == {"open", "running", "done"}
            T == 0 .. MaxRetry
            P == 0 .. n
            K == Seq(1 .. n)
            B == BOOLEAN
            N == Nat
            R == [parent : P, prev : P, kids : K, minutes : N, journal : B,
                  status : S, attached : B, retry : T, dropped : B]
            d == "done"
            y == TRUE
<1>1. GoalRec(n) = R
  BY DEF GoalRec
<1>2. g \in R /\ d \in S /\ y \in B
  BY <1>1, GoalBounds
<1>. HIDE DEF S, T, P, K, B, N, d, y
<1>3. PICK r : r = [g EXCEPT !.status = d, !.dropped = y]
  OBVIOUS
<1>4. r \in R /\ r.parent = g.parent /\ r.prev = g.prev /\ r.kids = g.kids /\ r.journal = g.journal
  BY <1>2, <1>3
<1>5. r.status = d /\ r.dropped = y
  BY <1>2, <1>3
<1>6. r = Dropped(g)
  BY <1>3 DEF Dropped, d, y
<1>7. Like(r, g, n)
  <2>. HIDE DEF R
  <2>. QED
    BY <1>1, <1>4 DEF Like
<1>. QED
  BY <1>5, <1>6, <1>7 DEF d, y

\* And one that is not written to stays as it is.
LEMMA Unwritten ==
    ASSUME NEW n, NEW g \in GoalRec(n)
    PROVE  /\ g.status \in {"open", "running", "done"} /\ g.attached \in BOOLEAN
           /\ g.dropped \in BOOLEAN /\ g.minutes \in Nat /\ g.retry \in 0 .. MaxRetry
           /\ g.journal \in BOOLEAN
<1>. DEFINE S == {"open", "running", "done"}
            T == 0 .. MaxRetry
            P == 0 .. n
            K == Seq(1 .. n)
<1>1. GoalRec(n) = [parent : P, prev : P, kids : K, minutes : Nat, journal : BOOLEAN,
                    status : S, attached : BOOLEAN, retry : T, dropped : BOOLEAN]
  BY DEF GoalRec
<1>. HIDE DEF S, T, P, K
<1>2. /\ g.status \in S /\ g.attached \in BOOLEAN /\ g.dropped \in BOOLEAN /\ g.minutes \in Nat
      /\ g.retry \in T /\ g.journal \in BOOLEAN
  BY <1>1
<1>. QED
  BY <1>2 DEF S, T

LEMMA GCancel == ASSUME GInv, NEW c \in Client, handle_post_goal_cancel(c) 
    PROVE  GInv' /\ SetTo(sent[c].goal, "open")
<1>. DEFINE n == Len(goal)
            g == sent[c].goal
<1>1. TypeOK /\ Referenced /\ up \in BOOLEAN /\ n \in Nat /\ Goals = 1 .. n /\ \A h \in Goals : goal[h] \in GoalRec(n)
  BY GoalsTyped DEF GInv, TypeOK
<1>2. Take(c, "cancel") /\ UNCHANGED <<up, work>>
  BY DEF handle_post_goal_cancel
<1>3. /\ \E d \in Client, r \in {r \in Requests(n) : Ref(r, n)} : sent' = [sent EXCEPT ![d] = r]
      /\ g \in Goals
  <2>. HIDE DEF n
  <2>. QED
    BY <1>1, <1>2, Taken DEF Ops
<1>4. goal' = [goal EXCEPT ![g] = Dated(goal[g], "open", FALSE)]
  BY DEF handle_post_goal_cancel, Dated
<1>. HIDE DEF n, g
<1>5. PICK r : r = Dated(goal[g], "open", FALSE)
  OBVIOUS
<1>6. Like(r, goal[g], n) /\ r.status = "open"
  <2>1. goal[g] \in GoalRec(n)
    BY <1>1, <1>3
  <2>. QED
    BY <1>5, <2>1, DatedLike
<1>7. GInv' /\ SetTo(g, r.status)
  BY <1>1, <1>2, <1>3, <1>4, <1>5, <1>6, GInvChanged DEF Like, n, Parent, Kids
<1>. QED
  BY <1>6, <1>7 DEF g

LEMMA GExtend == ASSUME GInv, NEW c \in Client, handle_post_goal_extend(c) 
    PROVE  GInv' /\ (UNCHANGED goal \/ SetTo(sent[c].goal, goal[sent[c].goal].status))
<1>. DEFINE n == Len(goal)
            g == sent[c].goal
            extra == IF 5 + goal[g].retry > 10 THEN 10 ELSE 5 + goal[g].retry
            m == goal[g].minutes + extra
            t == goal[g].retry + 1
<1>1. TypeOK /\ Referenced /\ up \in BOOLEAN /\ n \in Nat /\ Goals = 1 .. n /\ \A h \in Goals : goal[h] \in GoalRec(n)
  BY GoalsTyped DEF GInv, TypeOK
<1>2. Take(c, "extend") /\ UNCHANGED <<up, work>>
  BY DEF handle_post_goal_extend
<1>3. /\ \E d \in Client, r \in {r \in Requests(n) : Ref(r, n)} : sent' = [sent EXCEPT ![d] = r]
      /\ g \in Goals
  <2>. HIDE DEF n
  <2>. QED
    BY <1>1, <1>2, Taken DEF Ops
<1>4. CASE UNCHANGED goal
  BY <1>1, <1>2, <1>3, <1>4, GInvSameTree
<1>5. CASE goal[g].retry < MaxRetry /\ goal' = [goal EXCEPT ![g].minutes = @ + extra, ![g].retry = @ + 1]
  <2>1. goal' = [goal EXCEPT ![g] = Estimated(goal[g], m, t)]
    BY <1>5 DEF Estimated
  <2>2. goal[g].minutes \in Nat /\ goal[g].retry \in 0 .. MaxRetry
    BY <1>1, <1>3, Unwritten
  <2>3. m \in Nat /\ t \in 0 .. MaxRetry
    BY <1>5, <2>2, GoalBounds
  <2>. HIDE DEF n, g, m, t
  <2>4. PICK r : r = Estimated(goal[g], m, t)
    OBVIOUS
  <2>5. goal[g] \in GoalRec(n)
    BY <1>1, <1>3
  <2>6. /\ Like(r, goal[g], n) /\ r.status = goal[g].status
        /\ r.attached = goal[g].attached /\ r.dropped = goal[g].dropped
    BY <2>3, <2>4, <2>5, EstimatedLike
  <2>7. r.kids = <<>> /\ r.journal /\ r.status = "done" /\ ~r.dropped => r.attached
    BY <1>3, <2>6 DEF GInv, JournalDoneHasEntry, IsLeaf, Kids, Done, Like
  <2>8. r.parent = Parent(g) /\ r.prev = goal[g].prev /\ r.kids = Kids(g) /\ r \in GoalRec(n)
    BY <2>6 DEF Like, Parent, Kids
  <2>9. goal' = [goal EXCEPT ![g] = r]
    BY <2>1, <2>4
  <2>10. GInv' /\ SetTo(g, r.status)
    BY <1>1, <1>2, <1>3, <2>7, <2>8, <2>9, GInvChanged DEF n
  <2>. QED
    BY <2>6, <2>10 DEF g
<1>. QED
  BY <1>4, <1>5 DEF handle_post_goal_extend

LEMMA GReshaped == ASSUME GInv, NEW p \in Port, reshape_goal_leaf(p) 
    PROVE  GInv' /\ SetTo(work[p].at, "open")
<1>. DEFINE n == Len(goal)
            g == work[p].at
<1>1. TypeOK /\ Referenced /\ up \in BOOLEAN /\ n \in Nat /\ Goals = 1 .. n /\ \A h \in Goals : goal[h] \in GoalRec(n)
  BY GoalsTyped DEF GInv, TypeOK
<1>2. UNCHANGED <<up, sent>> /\ work[p].op = "reshape" /\ Work(p, NoWork)
  BY DEF reshape_goal_leaf
<1>3. g \in Goals
  BY <1>1, <1>2 DEF Referenced
<1>4. goal[g] \in GoalRec(n) /\ goal[g].minutes \in Nat
  BY <1>1, <1>3, Unwritten
<1>5. PICK m \in LeafMinutes \cup {goal[g].minutes} :
         goal' = [goal EXCEPT ![g].status = "open", ![g].retry = 0, ![g].minutes = m]
  BY DEF reshape_goal_leaf
<1>6. m \in Nat
  BY <1>4, GoalBounds
<1>7. goal' = [goal EXCEPT ![g] = Afresh(goal[g], m)]
  BY <1>5 DEF Afresh
<1>8. \E q \in Port, v \in {v \in Handlers(n) : Han(v, n)} : work' = [work EXCEPT ![q] = v]
  <2>. HIDE DEF n
  <2>. QED
    BY <1>1, <1>2, IdleHan, Worked
<1>. HIDE DEF n, g
<1>9. PICK r : r = Afresh(goal[g], m)
  OBVIOUS
<1>10. Like(r, goal[g], n) /\ r.status = "open"
  BY <1>4, <1>6, <1>9, AfreshLike
<1>11. goal' = [goal EXCEPT ![g] = r]
  BY <1>7, <1>9
<1>12. GInv' /\ SetTo(g, r.status)
  BY <1>1, <1>2, <1>3, <1>8, <1>10, <1>11, GInvChanged DEF Like, n, Parent, Kids
<1>. QED
  BY <1>10, <1>12 DEF g

LEMMA GStarted == ASSUME GInv, NEW p \in Port, StartGoalDeepFromGoal(p) 
    PROVE  /\ GInv'
           /\ \/ UNCHANGED goal
              \/ /\ work[p].op = "start"
                 /\ \E l \in Goals : can_start_leaf(l) /\ SetTo(l, "running")
<1>. DEFINE n == Len(goal)
            w == work[p]
<1>1. /\ TypeOK /\ KidsLater /\ Referenced /\ up \in BOOLEAN /\ n \in Nat /\ Goals = 1 .. n
      /\ \A h \in Goals : goal[h] \in GoalRec(n)
  BY GoalsTyped DEF GInv, TypeOK
<1>2. UNCHANGED <<up, sent>> /\ Work(p, NoWork)
  BY DEF StartGoalDeepFromGoal
<1>3. \E q \in Port, v \in {v \in Handlers(n) : Han(v, n)} : work' = [work EXCEPT ![q] = v]
  <2>. HIDE DEF n
  <2>. QED
    BY <1>1, <1>2, IdleHan, Worked
<1>4. CASE UNCHANGED goal
  BY <1>1, <1>2, <1>3, <1>4, GInvSameTree
<1>5. ASSUME w.op = "start", NEW g \in w.todo, NEW draft \in BOOLEAN, can_start_leaf(FirstOpen(g)),
             goal' = [goal EXCEPT ![FirstOpen(g)].status = "running",
                                  ![FirstOpen(g)].attached = @ \/ draft]
      PROVE  GInv' /\ \E l \in Goals : can_start_leaf(l) /\ SetTo(l, "running")
  <2>. DEFINE l == FirstOpen(g)
              a == (goal[l].attached \/ draft)
  <2>1. g \in Goals
    <3>1. Han(w, n)
      BY <1>1, RefHan
    <3>2. w.todo \in SUBSET (1 .. n)
      <4>. HIDE DEF n, w
      <4>. QED
        BY <1>1, <3>1, HanFields
    <3>. QED
      BY <1>1, <3>2
  <2>2. l \in Goals
    BY <1>1, <1>5, <2>1, FirstOpenTurns DEF can_start_leaf
  <2>3. goal' = [goal EXCEPT ![l] = Dated(goal[l], "running", a)]
    BY <1>5 DEF Dated
  <2>4. a \in BOOLEAN
    OBVIOUS
  <2>. HIDE DEF n, l, a
  <2>5. goal[l] \in GoalRec(n)
    BY <1>1, <2>2
  <2>6. PICK r : r = Dated(goal[l], "running", a)
    OBVIOUS
  <2>7. Like(r, goal[l], n) /\ r.status = "running"
    BY <2>4, <2>5, <2>6, DatedLike
  <2>8. goal' = [goal EXCEPT ![l] = r]
    BY <2>3, <2>6
  <2>9. GInv' /\ SetTo(l, r.status)
    BY <1>1, <1>2, <1>3, <2>2, <2>7, <2>8, GInvChanged DEF Like, n, Parent, Kids
  <2>10. can_start_leaf(l)
    BY <1>5 DEF l
  <2>. QED
    BY <2>2, <2>7, <2>9, <2>10
<1>. QED
  BY <1>4, <1>5 DEF StartGoalDeepFromGoal

LEMMA GDrop == ASSUME GInv, NEW c \in Client, handle_post_goal_drop(c) 
    PROVE  /\ GInv' /\ Kept /\ Goals' = Goals
           /\ \A h \in Goals :
                 goal'[h].status = IF CalcGoalRoot(h) = CalcGoalRoot(sent[c].goal) THEN "done"
                                   ELSE goal[h].status
<1>. DEFINE n == Len(goal)
            tree == {h \in Goals : CalcGoalRoot(h) = CalcGoalRoot(sent[c].goal) /\ ~Done(h)}
<1>1. TypeOK /\ Referenced /\ up \in BOOLEAN /\ n \in Nat /\ Goals = 1 .. n /\ \A h \in Goals : goal[h] \in GoalRec(n)
  BY GoalsTyped DEF GInv, TypeOK
<1>2. Take(c, "drop") /\ UNCHANGED <<up, work>>
  BY DEF handle_post_goal_drop
<1>3. \E d \in Client, r \in {r \in Requests(n) : Ref(r, n)} : sent' = [sent EXCEPT ![d] = r]
  <2>. HIDE DEF n
  <2>. QED
    BY <1>1, <1>2, Taken DEF Ops
<1>4. goal' = [h \in Goals |-> IF h \in tree THEN Dropped(goal[h]) ELSE goal[h]]
  BY DEF handle_post_goal_drop, Dropped
<1>. HIDE DEF n, tree
<1>5. \A h \in Goals : /\ Like(Dropped(goal[h]), goal[h], n) /\ Dropped(goal[h]).dropped = TRUE
                       /\ Like(goal[h], goal[h], n)
  BY <1>1, DroppedLike DEF Like
<1>6. \A h \in Goals : Like(goal'[h], goal[h], n) /\ (goal'[h] = goal[h] \/ goal'[h].dropped = TRUE)
  BY <1>4, <1>5
<1>7. goal' \in [Goals -> GoalRec(n)]
  <2>1. \A h \in Goals : (IF h \in tree THEN Dropped(goal[h]) ELSE goal[h]) \in GoalRec(n)
    BY <1>5 DEF Like
  <2>. QED
    BY <1>4, <2>1
<1>8. Kept
  BY <1>6, <1>7 DEF Kept, Like, Parent, Kids, n
<1>9. JournalDoneHasEntry'
  <2>1. Goals' = Goals
    BY <1>7 DEF Goals
  <2>. SUFFICES ASSUME NEW h \in Goals, goal'[h].kids = <<>>, goal'[h].journal,
                       goal'[h].status = "done", ~goal'[h].dropped
                PROVE  goal'[h].attached
    BY <2>1 DEF JournalDoneHasEntry, IsLeaf, Kids, Done
  <2>2. goal'[h] = goal[h]
    BY <1>6
  <2>. QED
    BY <2>2 DEF GInv, JournalDoneHasEntry, IsLeaf, Kids, Done
<1>10. \A h \in Goals : goal'[h].status = IF CalcGoalRoot(h) = CalcGoalRoot(sent[c].goal) THEN "done"
                                          ELSE goal[h].status
  <2>. SUFFICES ASSUME NEW h \in Goals
                PROVE  goal'[h].status = IF CalcGoalRoot(h) = CalcGoalRoot(sent[c].goal) THEN "done"
                                         ELSE goal[h].status
    OBVIOUS
  <2>1. Dropped(goal[h]).status = "done"
    BY <1>1, DroppedLike
  <2>2. goal'[h] = IF h \in tree THEN Dropped(goal[h]) ELSE goal[h]
    BY <1>4
  <2>. QED
    BY <2>1, <2>2 DEF tree, Done
<1>11. Goals' = Goals
  BY <1>7 DEF Goals
<1>. QED
  BY <1>1, <1>2, <1>3, <1>8, <1>9, <1>10, <1>11, GInvKept DEF n

\* What is ended by ending g: the goals that were, g, and those the refresh adds.
EndedWith(g) ==
    refresh_goal_completion_from_children_upwards({h \in Goals : Done(h)} \cup {g}, g)

\* The goals after an end.
LEMMA EndGoalDoes ==
    ASSUME TypeOK, KidsLater, NEW g \in Goals, goal' = EndGoal(g)
    PROVE  /\ Kept /\ Goals' = Goals
           /\ \A h \in Goals : Done(h)' <=> h \in EndedWith(g)
           /\ \A h \in Goals : h \notin EndedWith(g) => goal'[h].status = goal[h].status
           /\ \A h \in Goals : h # g => /\ goal'[h].attached = goal[h].attached
                                        /\ goal'[h].dropped = goal[h].dropped
           /\ goal[g].journal => goal'[g].attached
           /\ \A h \in Goals : goal'[h].journal = goal[h].journal
<1>. DEFINE n == Len(goal)
            E == EndedWith(g)
            a == (goal[g].attached \/ goal[g].journal)
            o == Attached(goal[g], a)
            now == [goal EXCEPT ![g] = o]
<1>1. n \in Nat /\ Goals = 1 .. n /\ \A h \in Goals : goal[h] \in GoalRec(n)
  BY GoalsTyped
<1>2. E \in SUBSET Goals /\ g \in E /\ \A h \in Goals : Done(h) => h \in E
  BY Refreshed DEF EndedWith
<1>3. [goal EXCEPT ![g].attached = @ \/ goal[g].journal] = now
  BY DEF Attached
<1>4. goal' = [h \in DOMAIN now |-> IF h \in E THEN Ended(now[h]) ELSE now[h]]
  BY <1>3 DEF EndGoal, EndedWith, WithDone, Ended
<1>5. DOMAIN now = Goals /\ now[g] = o /\ \A h \in Goals : h # g => now[h] = goal[h]
  <2>1. goal \in [Goals -> GoalRec(n)]
    BY <1>1 DEF TypeOK, Goals
  <2>. HIDE DEF o, n
  <2>. QED
    BY <2>1
<1>6. a \in BOOLEAN /\ (goal[g].journal => a)
  OBVIOUS
<1>7. goal[g] \in GoalRec(n)
  BY <1>1
<1>. HIDE DEF now, E, a, n
<1>8. Like(o, goal[g], n) /\ o.status = goal[g].status /\ o.attached = a
  BY <1>6, <1>7, AttachedLike
<1>9. \A h \in Goals : /\ goal'[h] = IF h \in E THEN Ended(now[h]) ELSE now[h]
                       /\ Like(now[h], goal[h], n) /\ now[h].status = goal[h].status
                       /\ h # g => now[h].attached = goal[h].attached /\ now[h].dropped = goal[h].dropped
  <2>. SUFFICES ASSUME NEW h \in Goals
                PROVE  /\ goal'[h] = IF h \in E THEN Ended(now[h]) ELSE now[h]
                       /\ Like(now[h], goal[h], n) /\ now[h].status = goal[h].status
                       /\ h # g => now[h].attached = goal[h].attached /\ now[h].dropped = goal[h].dropped
    OBVIOUS
  <2>1. goal'[h] = IF h \in E THEN Ended(now[h]) ELSE now[h]
    BY <1>4, <1>5
  <2>2. CASE h = g
    <3>. HIDE DEF o
    <3>. QED
      BY <1>5, <1>8, <2>1, <2>2
  <2>3. CASE h # g
    <3>1. now[h] = goal[h] /\ goal[h] \in GoalRec(n)
      BY <1>1, <1>5, <2>3
    <3>2. Like(goal[h], goal[h], n)
      BY <3>1 DEF Like
    <3>. QED
      BY <2>1, <2>3, <3>1, <3>2
  <2>. QED
    BY <2>2, <2>3
<1>. HIDE DEF o
<1>10. \A h \in Goals : /\ Like(Ended(now[h]), now[h], n) /\ Ended(now[h]).status = "done"
                        /\ Ended(now[h]).attached = now[h].attached
                        /\ Ended(now[h]).dropped = now[h].dropped
  <2>. SUFFICES ASSUME NEW h \in Goals
                PROVE  /\ Like(Ended(now[h]), now[h], n) /\ Ended(now[h]).status = "done"
                       /\ Ended(now[h]).attached = now[h].attached
                       /\ Ended(now[h]).dropped = now[h].dropped
    OBVIOUS
  <2>1. now[h] \in GoalRec(n)
    BY <1>9 DEF Like
  <2>. QED
    BY <2>1, EndedLike
<1>11. \A h \in Goals :
          /\ Like(goal'[h], goal[h], n)
          /\ h \in E => goal'[h].status = "done"
          /\ h \notin E => goal'[h].status = goal[h].status
          /\ h # g => goal'[h].attached = goal[h].attached /\ goal'[h].dropped = goal[h].dropped
  <2>. SUFFICES ASSUME NEW h \in Goals
                PROVE  /\ Like(goal'[h], goal[h], n)
                       /\ h \in E => goal'[h].status = "done"
                       /\ h \notin E => goal'[h].status = goal[h].status
                       /\ h # g => goal'[h].attached = goal[h].attached /\ goal'[h].dropped = goal[h].dropped
    OBVIOUS
  <2>1. CASE h \in E
    <3>1. goal'[h] = Ended(now[h])
      BY <1>9, <2>1
    <3>2. Like(goal'[h], goal[h], n)
      BY <1>9, <1>10, <3>1 DEF Like
    <3>. QED
      BY <1>9, <1>10, <2>1, <3>1, <3>2
  <2>2. CASE h \notin E
    <3>1. goal'[h] = now[h]
      BY <1>9, <2>2
    <3>. QED
      BY <1>9, <2>2, <3>1
  <2>. QED
    BY <2>1, <2>2
<1>12. DOMAIN goal' = Goals
  BY <1>4, <1>5
<1>13. goal' \in [Goals -> GoalRec(n)]
  <2>1. goal' = [h \in Goals |-> IF h \in E THEN Ended(now[h]) ELSE now[h]]
    BY <1>4, <1>5
  <2>2. \A h \in Goals : (IF h \in E THEN Ended(now[h]) ELSE now[h]) \in GoalRec(n)
    BY <1>9, <1>11 DEF Like
  <2>. QED
    BY <2>1, <2>2
<1>14. Kept
  BY <1>11, <1>13 DEF Kept, Like, Parent, Kids, n
<1>15. \A h \in Goals : Done(h)' <=> h \in E
  BY <1>2, <1>11 DEF Done
<1>16. goal[g].journal => goal'[g].attached
  <2>1. goal'[g] = Ended(now[g])
    BY <1>2, <1>9
  <2>2. goal'[g].attached = o.attached
    BY <1>5, <1>10, <2>1
  <2>. QED
    BY <1>6, <1>8, <2>2
<1>. QED
  BY <1>11, <1>12, <1>14, <1>15, <1>16 DEF Goals, Like, E

LEMMA GEnd == ASSUME GInv, NEW c \in Client, handle_post_goal_end(c) PROVE GInv'
<1>. DEFINE n == Len(goal)
            g == sent[c].goal
<1>1. TypeOK /\ KidsLater /\ Referenced /\ up \in BOOLEAN /\ n \in Nat /\ Goals = 1 .. n
  BY GoalsTyped DEF GInv, TypeOK
<1>2. Take(c, "end") /\ UNCHANGED work
  BY DEF handle_post_goal_end
<1>3. /\ \E d \in Client, r \in {r \in Requests(n) : Ref(r, n)} : sent' = [sent EXCEPT ![d] = r]
      /\ g \in Goals
  <2>. HIDE DEF n
  <2>. QED
    BY <1>1, <1>2, Taken DEF Ops
<1>4. CASE UNCHANGED goal /\ (UNCHANGED up \/ up' = FALSE)
  <2>1. up' \in BOOLEAN
    BY <1>1, <1>4
  <2>. QED
    BY <1>2, <1>3, <1>4, <2>1, GInvSameTree
<1>5. CASE goal' = EndGoal(g) /\ UNCHANGED up
  <2>. HIDE DEF g, n
  <2>1. Kept
    BY <1>1, <1>3, <1>5, EndGoalDoes
  <2>2. JournalDoneHasEntry'
    <3>0. /\ Goals' = Goals
          /\ \A h \in Goals : Done(h)' <=> h \in EndedWith(g)
          /\ \A h \in Goals : h # g => /\ goal'[h].attached = goal[h].attached
                                       /\ goal'[h].dropped = goal[h].dropped
          /\ goal[g].journal => goal'[g].attached
          /\ \A h \in Goals : goal'[h].journal = goal[h].journal
      BY <1>1, <1>3, <1>5, EndGoalDoes
    <3>. SUFFICES ASSUME NEW h \in Goals, goal'[h].kids = <<>>, goal'[h].journal,
                         goal'[h].status = "done", ~goal'[h].dropped
                  PROVE  goal'[h].attached
      BY <3>0 DEF JournalDoneHasEntry, IsLeaf, Kids, Done
    <3>1. CASE h = g
      BY <3>0, <3>1
    <3>2. CASE h # g
      <4>1. h \in EndedWith(g)
        BY <3>0 DEF Done
      <4>2. IsLeaf(h)
        BY <2>1 DEF Kept, IsLeaf, Kids
      <4>3. Done(h)
        BY <1>1, <1>3, <3>2, <4>1, <4>2, Refreshed DEF EndedWith
      <4>. QED
        BY <3>0, <3>2, <4>2, <4>3 DEF GInv, JournalDoneHasEntry
    <3>. QED
      BY <3>1, <3>2
  <2>3. up' \in BOOLEAN
    BY <1>1, <1>5
  <2>. QED
    BY <1>2, <1>3, <2>1, <2>2, <2>3, GInvKept DEF n
<1>. QED
  BY <1>4, <1>5 DEF handle_post_goal_end

LEMMA NewGoalTyped ==
    ASSUME NEW n \in Nat, NEW parent \in 0 .. n, NEW prev \in 0 .. n, NEW minutes \in Nat,
           NEW journal \in BOOLEAN
    PROVE  LET g == NewGoal(parent, prev, minutes, journal)
           IN  /\ g \in GoalRec(n) /\ g.parent = parent /\ g.prev = prev /\ g.kids = <<>>
               /\ g.status = "open"
<1>. DEFINE S == {"open", "running", "done"}
            T == 0 .. MaxRetry
            P == 0 .. n
            K == Seq(1 .. n)
            B == BOOLEAN
            N == Nat
            R == [parent : P, prev : P, kids : K, minutes : N, journal : B,
                  status : S, attached : B, retry : T, dropped : B]
            e == <<>>
            o == "open"
            x == FALSE
            z == 0
<1>1. GoalRec(n) = R
  BY DEF GoalRec
<1>2. parent \in P /\ prev \in P /\ e \in K /\ minutes \in N /\ journal \in B /\ o \in S /\ x \in B /\ z \in T
  BY GoalBounds
<1>. HIDE DEF S, T, P, K, B, N, e, o, x, z
<1>3. PICK g : g = [parent |-> parent, prev |-> prev, kids |-> e, minutes |-> minutes,
                    journal |-> journal, status |-> o, attached |-> x, retry |-> z, dropped |-> x]
  OBVIOUS
<1>4. g \in R
  BY <1>2, <1>3
<1>5. g.parent = parent /\ g.prev = prev /\ g.kids = e /\ g.status = o
  BY <1>3
<1>6. g = NewGoal(parent, prev, minutes, journal)
  BY <1>3 DEF NewGoal, e, o, x, z
<1>7. g \in GoalRec(n)
  BY <1>1, <1>4
<1>. QED
  BY <1>5, <1>6, <1>7 DEF e, o

\* A goal that gets children.
Split(g, k, m) == [g EXCEPT !.kids = k, !.minutes = m]

LEMMA SplitTyped ==
    ASSUME NEW n, NEW g \in GoalRec(n), NEW k \in Seq(1 .. n), NEW m \in Nat
    PROVE  /\ Split(g, k, m) \in GoalRec(n)
           /\ Split(g, k, m).parent = g.parent /\ Split(g, k, m).prev = g.prev
           /\ Split(g, k, m).kids = k /\ Split(g, k, m).status = g.status
           /\ Split(g, k, m).journal = g.journal
<1>. DEFINE S == {"open", "running", "done"}
            T == 0 .. MaxRetry
            P == 0 .. n
            K == Seq(1 .. n)
            B == BOOLEAN
            N == Nat
            R == [parent : P, prev : P, kids : K, minutes : N, journal : B,
                  status : S, attached : B, retry : T, dropped : B]
<1>1. GoalRec(n) = R
  BY DEF GoalRec
<1>2. g \in R /\ k \in K /\ m \in N
  BY <1>1
<1>. HIDE DEF S, T, P, K, B, N
<1>3. PICK r : r = [g EXCEPT !.kids = k, !.minutes = m]
  OBVIOUS
<1>4. r \in R
  BY <1>2, <1>3
<1>5. r.parent = g.parent /\ r.prev = g.prev /\ r.kids = k /\ r.status = g.status /\ r.journal = g.journal
  BY <1>2, <1>3
<1>6. r = Split(g, k, m)
  BY <1>3 DEF Split
<1>7. r \in GoalRec(n)
  BY <1>1, <1>4
<1>. QED
  BY <1>5, <1>6, <1>7

LEMMA Appended ==
    ASSUME NEW S, NEW seq \in Seq(S), NEW e \in S, NEW t, t = Append(seq, e), NEW n, n = Len(seq)
    PROVE  /\ n \in Nat /\ t \in Seq(S) /\ Len(t) = n + 1 /\ DOMAIN t = 1 .. (n + 1)
           /\ t[n + 1] = e /\ \A h \in 1 .. n : t[h] = seq[h]
<1>1. n \in Nat
  OBVIOUS
<1>2. t \in Seq(S) /\ Len(t) = n + 1
  BY AppendProperties
<1>3. t[n + 1] = e /\ \A h \in 1 .. n : t[h] = seq[h]
  BY AppendProperties
<1>4. DOMAIN t = 1 .. (n + 1)
  BY <1>1, <1>2, LenProperties
<1>. QED
  BY <1>1, <1>2, <1>3, <1>4

\* The goals after a new tree was made.
LEMMA CreateDoes ==
    ASSUME NEW n \in Nat, NEW old \in Seq(GoalRec(n)), n = Len(old), NEW g \in GoalRec(n + 1),
           NEW new, new = Append(old, g)
    PROVE  /\ new \in Seq(GoalRec(n + 1)) /\ Len(new) = n + 1 /\ DOMAIN new = 1 .. (n + 1)
           /\ new[n + 1] = g /\ \A h \in 1 .. n : new[h] = old[h]
<1>. DEFINE big == GoalRec(n + 1)
<1>1. GoalRec(n) \subseteq big
  BY Monotone
<1>2. g \in big
  OBVIOUS
<1>. HIDE DEF big
<1>3. old \in Seq(big)
  BY <1>1
<1>4. /\ new \in Seq(big) /\ Len(new) = n + 1 /\ DOMAIN new = 1 .. (n + 1)
      /\ new[n + 1] = g /\ \A h \in 1 .. n : new[h] = old[h]
  BY <1>2, <1>3, Appended
<1>. QED
  BY <1>4 DEF big

\* The child h of f, made when there were n goals.
Made(n, s, f, split, h, k) ==
    /\ n \in Nat /\ s \in Nat /\ f \in 1 .. n /\ h \in (n + 1) .. (n + s)
    /\ \A i \in 1 .. s : split[i][1] \in Nat /\ split[i][2] \in BOOLEAN
    /\ k = NewGoal(f, IF h = n + 1 THEN NoGoal ELSE h - 1, split[h - n][1], split[h - n][2])

Fits(n, parent, prev, minutes, journal) ==
    n \in Nat /\ parent \in 0 .. n /\ prev \in 0 .. n /\ minutes \in Nat /\ journal \in BOOLEAN

LEMMA FitsTyped ==
    ASSUME NEW n, NEW parent, NEW prev, NEW minutes, NEW journal, Fits(n, parent, prev, minutes, journal),
           NEW k, k = NewGoal(parent, prev, minutes, journal)
    PROVE  /\ k \in GoalRec(n) /\ k.parent = parent /\ k.prev = prev /\ k.kids = <<>>
           /\ k.status = "open"
<1>1. n \in Nat /\ parent \in 0 .. n /\ prev \in 0 .. n /\ minutes \in Nat /\ journal \in BOOLEAN
  BY DEF Fits
<1>. QED
  BY <1>1, NewGoalTyped

LEMMA KidTyped ==
    ASSUME NEW n, NEW s, NEW f, NEW split, NEW h, NEW k, Made(n, s, f, split, h, k)
    PROVE  /\ k \in GoalRec(n + s) /\ k.parent = f
           /\ k.prev = IF h = n + 1 THEN NoGoal ELSE h - 1
           /\ k.kids = <<>> /\ k.status = "open"
<1>. DEFINE prev == IF h = n + 1 THEN NoGoal ELSE h - 1
            a == split[h - n][1]
            b == split[h - n][2]
            z == n + s
<1>0. /\ n \in Nat /\ s \in Nat /\ f \in 1 .. n /\ h \in (n + 1) .. (n + s)
      /\ \A i \in 1 .. s : split[i][1] \in Nat /\ split[i][2] \in BOOLEAN
  BY DEF Made
<1>1. h - n \in 1 .. s /\ f \in 0 .. z /\ prev \in 0 .. z /\ z \in Nat
  BY <1>0 DEF NoGoal
<1>2. a \in Nat /\ b \in BOOLEAN
  BY <1>0, <1>1
<1>3. k = NewGoal(f, prev, a, b)
  BY DEF Made
<1>. HIDE DEF prev, a, b, z
<1>4. Fits(z, f, prev, a, b)
  BY <1>1, <1>2 DEF Fits
<1>5. k \in GoalRec(z) /\ k.parent = f /\ k.prev = prev /\ k.kids = <<>> /\ k.status = "open"
  BY <1>3, <1>4, FitsTyped
<1>. QED
  BY <1>5 DEF prev, z

\* The goals after f got the children of a split.
Shaped(n, s, f, new) ==
    /\ n \in Nat /\ s \in Nat /\ s >= 2 /\ Goals = 1 .. n
    /\ new \in Seq(GoalRec(n + s)) /\ Len(new) = n + s /\ DOMAIN new = 1 .. (n + s)
    /\ \A h \in Goals : h # f => new[h] = goal[h]
    /\ new[f].parent = Parent(f) /\ new[f].prev = goal[f].prev /\ new[f].status = goal[f].status
    /\ new[f].kids = [i \in 1 .. s |-> n + i]
    /\ \A h \in (n + 1) .. (n + s) :
          /\ new[h].parent = f /\ new[h].prev = IF h = n + 1 THEN NoGoal ELSE h - 1
          /\ new[h].kids = <<>> /\ new[h].status = "open"

LEMMA DecomposeDoes ==
    ASSUME TypeOK, NEW f, f \in Goals, NEW split, split \in Splits, NEW n, n = Len(goal),
           NEW s, s = Len(split), NEW new, new = WithChildren(f, split)
    PROVE  Shaped(n, s, f, new)
<1>. DEFINE k == [i \in 1 .. s |-> n + i]
            t == Total(split)
            kid(h) == NewGoal(f, IF h = n + 1 THEN NoGoal ELSE h - 1, split[h - n][1], split[h - n][2])
            big == GoalRec(n + s)
<1>1. n \in Nat /\ Goals = 1 .. n /\ \A h \in Goals : goal[h] \in GoalRec(n)
  BY GoalsTyped
<1>2. split \in Seq((Nat \ {0}) \X BOOLEAN) /\ Len(split) \in 2 .. 9
  BY SplitsAssumption
<1>3. s \in Nat /\ s >= 2 /\ DOMAIN split = 1 .. s /\ t \in Nat
  BY <1>2, TotalTyped
<1>4. \A i \in 1 .. s : split[i][1] \in Nat /\ split[i][2] \in BOOLEAN
  BY <1>2
<1>5. new = [h \in 1 .. n + s |-> IF h = f THEN Split(goal[f], k, t)
                                  ELSE IF h <= n THEN goal[h] ELSE kid(h)]
  BY <1>3 DEF WithChildren, Split
<1>. HIDE DEF t
<1>6. n + s \in Nat /\ n <= n + s
  BY <1>1, <1>3
<1>7. \A h \in Goals : goal[h] \in big
  BY <1>1, <1>6, Monotone
<1>8. k \in Seq(1 .. (n + s))
  BY <1>1, <1>3
<1>9. /\ Split(goal[f], k, t) \in big
      /\ Split(goal[f], k, t).parent = Parent(f) /\ Split(goal[f], k, t).prev = goal[f].prev
      /\ Split(goal[f], k, t).kids = k /\ Split(goal[f], k, t).status = goal[f].status
  <2>. DEFINE z == n + s
              o == goal[f]
  <2>1. o \in GoalRec(z) /\ k \in Seq(1 .. z) /\ t \in Nat
    BY <1>3, <1>7, <1>8
  <2>. HIDE DEF k, z, o
  <2>2. /\ Split(o, k, t) \in GoalRec(z) /\ Split(o, k, t).parent = o.parent
        /\ Split(o, k, t).prev = o.prev /\ Split(o, k, t).kids = k /\ Split(o, k, t).status = o.status
    BY <2>1, SplitTyped
  <2>. QED
    BY <2>2 DEF Parent, z, o
<1>10. ASSUME NEW h \in (n + 1) .. (n + s)
       PROVE  /\ kid(h) \in big /\ kid(h).parent = f
              /\ kid(h).prev = IF h = n + 1 THEN NoGoal ELSE h - 1
              /\ kid(h).kids = <<>> /\ kid(h).status = "open"
  <2>1. f \in 1 .. n
    BY <1>1
  <2>. HIDE DEF big
  <2>2. PICK k_ : k_ = kid(h)
    OBVIOUS
  <2>. HIDE DEF kid
  <2>3. Made(n, s, f, split, h, k_)
    BY <1>1, <1>3, <1>4, <1>10, <2>1, <2>2 DEF kid, Made
  <2>4. k_ \in GoalRec(n + s) /\ k_.parent = f /\ k_.prev = (IF h = n + 1 THEN NoGoal ELSE h - 1)
        /\ k_.kids = <<>> /\ k_.status = "open"
    BY <2>3, KidTyped
  <2>. QED
    BY <2>2, <2>4 DEF big
<1>. HIDE DEF kid, big, k
<1>11. /\ \A h \in Goals : h # f => new[h] = goal[h]
       /\ new[f] = Split(goal[f], k, t)
       /\ \A h \in (n + 1) .. (n + s) : new[h] = kid(h)
  <2>1. \A h \in 1 .. (n + s) : new[h] = IF h = f THEN Split(goal[f], k, t)
                                         ELSE IF h <= n THEN goal[h] ELSE kid(h)
    BY <1>5
  <2>2. f \in 1 .. n /\ \A h \in 1 .. n : h \in 1 .. (n + s) /\ h <= n
    BY <1>1, <1>3
  <2>3. \A h \in (n + 1) .. (n + s) : h \in 1 .. (n + s) /\ ~(h <= n) /\ h # f
    BY <1>1, <1>3
  <2>. QED
    BY <1>1, <2>1, <2>2, <2>3
<1>12. new \in Seq(big) /\ Len(new) = n + s /\ DOMAIN new = 1 .. (n + s)
  <2>1. \A h \in 1 .. (n + s) : new[h] \in big
    <3>1. \A h \in 1 .. (n + s) : h \in Goals \/ h \in (n + 1) .. (n + s)
      BY <1>1, <1>3
    <3>. QED
      BY <1>7, <1>9, <1>10, <1>11, <3>1
  <2>2. new \in [1 .. (n + s) -> big]
    BY <1>5, <2>1
  <2>. QED
    BY <1>6, <2>2
<1>. QED
  BY <1>1, <1>3, <1>9, <1>10, <1>11, <1>12 DEF Shaped, big, k

\* What the creation of a goal does to the tree.
Planted(n) ==
    /\ n \in Nat /\ Goals = 1 .. n /\ Goals' = 1 .. (n + 1)
    /\ \A h \in Goals : goal'[h] = goal[h]
    /\ goal'[n + 1].parent = NoGoal /\ goal'[n + 1].prev = NoGoal
    /\ goal'[n + 1].kids = <<>> /\ goal'[n + 1].status = "open"

LEMMA GCreate == ASSUME GInv, NEW c \in Client, handle_post_goal_create(c)
    PROVE  GInv' /\ Planted(Len(goal))
<1>. DEFINE m == Len(goal) + 1
            w == [op |-> "create", who |-> c, at |-> m, todo |-> {}, thinking |-> FALSE, cap |-> 0]
<1>1. /\ TypeOK /\ KidsLater /\ ParentsEarlier /\ Referenced /\ JournalDoneHasEntry
      /\ up \in BOOLEAN /\ Len(goal) \in Nat /\ Goals = 1 .. Len(goal)
  BY GoalsTyped DEF GInv, TypeOK
<1>2. Take(c, "create") /\ Work(PortOf[c], w) /\ UNCHANGED up /\ Len(goal) < MaxGoals
  <2>1. w = [NoWork EXCEPT !.op = "create", !.who = c, !.at = m]
    <3>. HIDE DEF m
    <3>1. PICK v : v = [NoWork EXCEPT !.op = "create", !.who = c, !.at = m]
      OBVIOUS
    <3>2. v = w
      BY <3>1 DEF NoWork
    <3>. QED
      BY <3>1, <3>2
  <2>. HIDE DEF w
  <2>. QED
    BY <2>1 DEF handle_post_goal_create
<1>3. PICK minutes \in RootMinutes : goal' = Append(goal, NewGoal(NoGoal, NoGoal, minutes, FALSE))
  BY DEF handle_post_goal_create
<1>4. PICK n : n = Len(goal)
  OBVIOUS
<1>5. n \in Nat /\ n + 1 \in Nat /\ Goals = 1 .. n /\ n < MaxGoals /\ m = n + 1 /\ goal \in Seq(GoalRec(n))
  BY <1>1, <1>2, <1>4 DEF TypeOK
<1>6. /\ \E d \in Client, r \in {r \in Requests(n + 1) : Ref(r, n + 1)} : sent' = [sent EXCEPT ![d] = r]
      /\ PortOf[c] \in Port
  BY <1>1, <1>2, <1>5, Taken DEF Ops
<1>7. Han(w, n + 1)
  <2>1. m \in 0 .. (n + 1) /\ m \in 1 .. (n + 1) /\ {} \in SUBSET (1 .. (n + 1))
    BY <1>5
  <2>. HIDE DEF m
  <2>. QED
    BY <1>5, <2>1, HanMade
<1>. HIDE DEF w, m
<1>8. \E q \in Port, v \in {v \in Handlers(n + 1) : Han(v, n + 1)} : work' = [work EXCEPT ![q] = v]
  BY <1>2, <1>5, <1>6, <1>7, Worked
<1>9. PICK g \in GoalRec(n + 1) :
         /\ goal' = Append(goal, g)
         /\ g.parent = NoGoal /\ g.prev = NoGoal /\ g.kids = <<>> /\ g.status = "open"
  <2>. DEFINE x == FALSE
              g == NewGoal(NoGoal, NoGoal, minutes, x)
  <2>1. x \in BOOLEAN /\ goal' = Append(goal, g)
    BY <1>3
  <2>2. NoGoal \in 0 .. (n + 1) /\ minutes \in Nat
    BY <1>5, GoalBounds DEF NoGoal
  <2>. HIDE DEF x
  <2>3. g \in GoalRec(n + 1) /\ g.parent = NoGoal /\ g.prev = NoGoal /\ g.kids = <<>> /\ g.status = "open"
    BY <1>5, <2>1, <2>2, NewGoalTyped
  <2>. HIDE DEF g
  <2>. QED
    BY <2>1, <2>3
<1>10. /\ goal' \in Seq(GoalRec(n + 1)) /\ Len(goal') = n + 1 /\ DOMAIN goal' = 1 .. (n + 1)
       /\ goal'[n + 1] = g /\ \A h \in 1 .. n : goal'[h] = goal[h]
  BY <1>4, <1>5, <1>9, CreateDoes
<1>11. Goals' = 1 .. (n + 1) /\ \A h \in Goals' : h \in Goals \/ h = n + 1
  BY <1>5, <1>10 DEF Goals
<1>12. KidsLater'
  <2>. SUFFICES ASSUME NEW h \in Goals', NEW i \in 1 .. Len(goal'[h].kids)
                PROVE  /\ goal'[h].kids[i] > h /\ goal'[goal'[h].kids[i]].parent = h
                       /\ goal'[goal'[h].kids[i]].prev = IF i = 1 THEN NoGoal ELSE goal'[h].kids[i - 1]
    BY DEF KidsLater, Kids, Parent
  <2>1. CASE h = n + 1
    <3>1. Len(goal'[h].kids) = 0
      BY <1>9, <1>10, <2>1
    <3>. QED
      BY <3>1
  <2>2. CASE h \in Goals
    <3>1. goal'[h] = goal[h]
      BY <1>5, <1>10, <2>2
    <3>2. i \in 1 .. Len(Kids(h))
      BY <3>1 DEF Kids
    <3>3. /\ Kids(h)[i] \in Goals /\ Kids(h)[i] > h /\ Parent(Kids(h)[i]) = h
          /\ goal[Kids(h)[i]].prev = IF i = 1 THEN NoGoal ELSE Kids(h)[i - 1]
      BY <1>1, <2>2, <3>2, KidsTyped
    <3>4. goal'[Kids(h)[i]] = goal[Kids(h)[i]]
      BY <1>5, <1>10, <3>3
    <3>. QED
      BY <3>1, <3>3, <3>4 DEF Kids, Parent
  <2>. QED
    BY <1>11, <2>1, <2>2
<1>13. ParentsEarlier'
  <2>. SUFFICES ASSUME NEW h \in Goals'
                PROVE  /\ goal'[h].parent < h /\ goal'[h].prev < h
                       /\ goal'[h].prev # NoGoal =>
                             goal'[h].parent # NoGoal /\ goal'[goal'[h].prev].parent = goal'[h].parent
    BY DEF ParentsEarlier, Parent
  <2>1. CASE h = n + 1
    BY <1>5, <1>9, <1>10, <2>1 DEF NoGoal
  <2>2. CASE h \in Goals
    <3>1. goal'[h] = goal[h]
      BY <1>5, <1>10, <2>2
    <3>2. /\ goal[h].parent < h /\ goal[h].prev < h
          /\ goal[h].prev # NoGoal => goal[h].parent # NoGoal /\ goal[goal[h].prev].parent = goal[h].parent
      BY <1>1, <2>2 DEF ParentsEarlier, Parent
    <3>3. goal[h].prev # NoGoal => goal'[goal[h].prev] = goal[goal[h].prev]
      BY <1>1, <1>5, <1>10, <2>2, FieldsTyped
    <3>. QED
      BY <3>1, <3>2, <3>3
  <2>. QED
    BY <1>11, <2>1, <2>2
<1>14. JournalDoneHasEntry'
  <2>. SUFFICES ASSUME NEW h \in Goals', goal'[h].kids = <<>>, goal'[h].journal,
                       goal'[h].status = "done", ~goal'[h].dropped
                PROVE  goal'[h].attached
    BY DEF JournalDoneHasEntry, IsLeaf, Kids, Done
  <2>1. h \in Goals /\ goal'[h] = goal[h]
    BY <1>5, <1>9, <1>10, <1>11
  <2>. QED
    BY <1>1, <2>1 DEF JournalDoneHasEntry, IsLeaf, Kids, Done
<1>15. TypeOK' /\ Referenced'
  <2>1. Len(goal) <= Len(goal') /\ Len(goal') <= MaxGoals
    BY <1>4, <1>5, <1>10, GoalBounds
  <2>2. /\ goal' \in Seq(GoalRec(Len(goal')))
        /\ \E d \in Client, r \in {r \in Requests(Len(goal')) : Ref(r, Len(goal'))} : sent' = [sent EXCEPT ![d] = r]
        /\ \E q \in Port, v \in {v \in Handlers(Len(goal')) : Han(v, Len(goal'))} : work' = [work EXCEPT ![q] = v]
        /\ up' \in BOOLEAN
    BY <1>1, <1>2, <1>6, <1>8, <1>10
  <2>. QED
    BY <1>1, <2>1, <2>2, Moves
<1>16. Planted(n)
  BY <1>5, <1>9, <1>10, <1>11 DEF Planted
<1>. QED
  BY <1>4, <1>12, <1>13, <1>14, <1>15, <1>16 DEF GInv

\* What a decomposition does to the tree.
Grows(n, s, f) ==
    /\ n \in Nat /\ s \in Nat /\ s >= 2 /\ f \in Goals /\ Goals = 1 .. n /\ Goals' = 1 .. (n + s)
    /\ \A h \in Goals : h # f => goal'[h] = goal[h]
    /\ goal'[f].parent = Parent(f) /\ goal'[f].prev = goal[f].prev /\ goal'[f].status = goal[f].status
    /\ goal'[f].kids = [i \in 1 .. s |-> n + i]
    /\ \A h \in (n + 1) .. (n + s) :
          /\ goal'[h].parent = f /\ goal'[h].prev = IF h = n + 1 THEN NoGoal ELSE h - 1
          /\ goal'[h].kids = <<>> /\ goal'[h].status = "open"

LEMMA DecomposeGrows ==
    ASSUME GInv, NEW p \in Port, DecomposeGoal(p)
    PROVE  \E n, s \in Nat :
              /\ Grows(n, s, work[p].at) /\ n = Len(goal)
              /\ goal' \in Seq(GoalRec(n + s)) /\ Len(goal') = n + s /\ n + s <= MaxGoals
<1>. DEFINE f == work[p].at
<1>1. TypeOK /\ f \in Goals
  BY DEF GInv, Referenced, DecomposeGoal
<1>2. PICK split \in Splits : Len(goal) + Len(split) <= MaxGoals /\ goal' = WithChildren(f, split)
  BY DEF DecomposeGoal
<1>3. PICK n, s : n = Len(goal) /\ s = Len(split)
  OBVIOUS
<1>. HIDE DEF f
<1>4. Shaped(n, s, f, goal')
  BY <1>1, <1>2, <1>3, DecomposeDoes
<1>5. Goals' = 1 .. (n + s)
  BY <1>4 DEF Goals, Shaped
<1>6. Grows(n, s, f)
  BY <1>1, <1>4, <1>5 DEF Grows, Shaped
<1>. QED
  BY <1>2, <1>3, <1>4, <1>6 DEF f, Shaped

LEMMA GrowsShape ==
    ASSUME TypeOK, KidsLater, ParentsEarlier, JournalDoneHasEntry, NEW n, NEW s, NEW f, Grows(n, s, f)
    PROVE  KidsLater' /\ ParentsEarlier' /\ JournalDoneHasEntry'
<1>1. /\ n \in Nat /\ s \in Nat /\ s >= 2 /\ f \in Goals /\ Goals = 1 .. n /\ Goals' = 1 .. (n + s)
      /\ \A h \in Goals : h # f => goal'[h] = goal[h]
      /\ goal'[f].parent = Parent(f) /\ goal'[f].prev = goal[f].prev /\ goal'[f].status = goal[f].status
      /\ goal'[f].kids = [i \in 1 .. s |-> n + i]
  BY DEF Grows
<1>2. \A h \in (n + 1) .. (n + s) :
         /\ goal'[h].parent = f /\ goal'[h].prev = IF h = n + 1 THEN NoGoal ELSE h - 1
         /\ goal'[h].kids = <<>> /\ goal'[h].status = "open"
  BY DEF Grows
<1>3. \A h \in Goals' : h \in Goals \/ h \in (n + 1) .. (n + s)
  BY <1>1
<1>4. \A h \in Goals : goal'[h].parent = Parent(h) /\ goal'[h].prev = goal[h].prev
  BY <1>1 DEF Parent
<1>5. KidsLater'
  <2>. SUFFICES ASSUME NEW h \in Goals', NEW i \in 1 .. Len(goal'[h].kids)
                PROVE  /\ goal'[h].kids[i] > h /\ goal'[goal'[h].kids[i]].parent = h
                       /\ goal'[goal'[h].kids[i]].prev = IF i = 1 THEN NoGoal ELSE goal'[h].kids[i - 1]
    BY DEF KidsLater, Kids, Parent
  <2>1. CASE h \in (n + 1) .. (n + s)
    <3>1. Len(goal'[h].kids) = 0
      BY <1>2, <2>1
    <3>. QED
      BY <3>1
  <2>2. CASE h = f
    <3>1. Len(goal'[f].kids) = s
      BY <1>1
    <3>2. i \in 1 .. s /\ goal'[f].kids[i] = n + i
      BY <1>1, <2>2, <3>1
    <3>3. n + i \in (n + 1) .. (n + s) /\ n + i > f /\ (n + i = n + 1 <=> i = 1)
      BY <1>1, <3>2
    <3>4. goal'[n + i].parent = f /\ goal'[n + i].prev = IF i = 1 THEN NoGoal ELSE n + i - 1
      <4>1. PICK k \in (n + 1) .. (n + s) : k = n + i
        BY <3>3
      <4>2. goal'[k].parent = f /\ goal'[k].prev = IF k = n + 1 THEN NoGoal ELSE k - 1
        BY <1>2
      <4>3. k = n + 1 <=> i = 1
        BY <3>3, <4>1
      <4>4. goal'[k].prev = IF i = 1 THEN NoGoal ELSE k - 1
        BY <4>2, <4>3
      <4>. QED
        BY <1>1, <3>2, <4>1, <4>2, <4>4
    <3>5. i # 1 => i - 1 \in 1 .. s /\ n + (i - 1) = n + i - 1
      BY <1>1, <3>2
    <3>6. i # 1 => goal'[f].kids[i - 1] = n + i - 1
      BY <1>1, <3>5
    <3>. QED
      BY <2>2, <3>2, <3>3, <3>4, <3>6
  <2>3. CASE h \in Goals /\ h # f
    <3>1. goal'[h] = goal[h]
      BY <1>1, <2>3
    <3>2. i \in 1 .. Len(Kids(h))
      BY <3>1 DEF Kids
    <3>3. /\ Kids(h)[i] \in Goals /\ Kids(h)[i] > h /\ Parent(Kids(h)[i]) = h
          /\ goal[Kids(h)[i]].prev = IF i = 1 THEN NoGoal ELSE Kids(h)[i - 1]
      BY <2>3, <3>2, KidsTyped
    <3>4. goal'[Kids(h)[i]].parent = h /\ goal'[Kids(h)[i]].prev = goal[Kids(h)[i]].prev
      BY <1>4, <3>3
    <3>. QED
      BY <3>1, <3>3, <3>4 DEF Kids
  <2>. QED
    BY <1>3, <2>1, <2>2, <2>3
<1>6. ParentsEarlier'
  <2>. SUFFICES ASSUME NEW h \in Goals'
                PROVE  /\ goal'[h].parent < h /\ goal'[h].prev < h
                       /\ goal'[h].prev # NoGoal =>
                             goal'[h].parent # NoGoal /\ goal'[goal'[h].prev].parent = goal'[h].parent
    BY DEF ParentsEarlier, Parent
  <2>1. CASE h \in (n + 1) .. (n + s)
    <3>1. goal'[h].parent = f /\ goal'[h].prev = IF h = n + 1 THEN NoGoal ELSE h - 1
      BY <1>2, <2>1
    <3>2. f < h /\ f # NoGoal /\ (h # n + 1 => h - 1 \in (n + 1) .. (n + s)) /\ NoGoal < h
      BY <1>1, <2>1 DEF NoGoal
    <3>3. h # n + 1 => goal'[h - 1].parent = f
      BY <1>2, <3>2
    <3>. QED
      BY <2>1, <3>1, <3>2, <3>3
  <2>2. CASE h \in Goals
    <3>1. /\ Parent(h) < h /\ goal[h].prev < h
          /\ goal[h].prev # NoGoal => Parent(h) # NoGoal /\ Parent(goal[h].prev) = Parent(h)
      BY <2>2 DEF ParentsEarlier
    <3>2. goal[h].prev # NoGoal => goal[h].prev \in Goals
      BY <2>2, FieldsTyped
    <3>3. goal[h].prev # NoGoal => goal'[goal[h].prev].parent = Parent(goal[h].prev)
      BY <1>4, <3>2
    <3>4. goal'[h].parent = Parent(h) /\ goal'[h].prev = goal[h].prev
      BY <1>4, <2>2
    <3>. QED
      BY <3>1, <3>3, <3>4
  <2>. QED
    BY <1>3, <2>1, <2>2
<1>7. JournalDoneHasEntry'
  <2>. SUFFICES ASSUME NEW h \in Goals', goal'[h].kids = <<>>, goal'[h].journal,
                       goal'[h].status = "done", ~goal'[h].dropped
                PROVE  goal'[h].attached
    BY DEF JournalDoneHasEntry, IsLeaf, Kids, Done
  <2>1. h # f
    <3>1. goal'[f].kids[1] = n + 1 /\ 1 \in DOMAIN goal'[f].kids
      BY <1>1
    <3>2. goal'[f].kids # <<>>
      BY <3>1
    <3>. QED
      BY <3>2
  <2>2. h \in Goals /\ goal'[h] = goal[h]
    BY <1>1, <1>2, <1>3, <2>1
  <2>. QED
    BY <2>2 DEF JournalDoneHasEntry, IsLeaf, Kids, Done
<1>. QED
  BY <1>5, <1>6, <1>7

LEMMA GDecompose == ASSUME GInv, NEW p \in Port, DecomposeGoal(p) PROVE GInv'
<1>. DEFINE w == work[p]
            f == w.at
<1>1. /\ TypeOK /\ KidsLater /\ ParentsEarlier /\ Referenced /\ JournalDoneHasEntry /\ up \in BOOLEAN
      /\ w.op \in {"create", "start", "session"} /\ w.thinking /\ UNCHANGED <<up, sent>>
  BY DEF GInv, TypeOK, Referenced, DecomposeGoal
<1>2. PICK n, s \in Nat :
         /\ Grows(n, s, f) /\ n = Len(goal)
         /\ goal' \in Seq(GoalRec(n + s)) /\ Len(goal') = n + s /\ n + s <= MaxGoals
  BY DecomposeGrows
<1>3. KidsLater' /\ ParentsEarlier' /\ JournalDoneHasEntry'
  <2>. HIDE DEF f, w
  <2>. QED
    BY <1>1, <1>2, GrowsShape
<1>4. /\ n + s \in Nat /\ n <= n + s /\ s >= 2 /\ f \in 1 .. n /\ f \in 1 .. (n + s)
      /\ n + 1 \in 1 .. (n + s) /\ n + 1 \in 0 .. (n + s)
  <2>. HIDE DEF f
  <2>1. n \in Nat /\ s \in Nat /\ s >= 2 /\ f \in 1 .. n
    BY <1>2 DEF Grows
  <2>. QED
    BY <2>1
<1>. DEFINE z == n + s
            d == n + 1
            idle == FALSE
            none == 0
            more == w.todo \cup {f}
            v1 == [w EXCEPT !.thinking = idle, !.cap = none, !.todo = more]
            v2 == [w EXCEPT !.thinking = idle, !.cap = none, !.at = d]
<1>5. Han(w, z)
  <2>1. Han(w, n)
    BY <1>1, <1>2, RefHan
  <2>. HIDE DEF w
  <2>. QED
    BY <1>2, <1>4, <2>1, RefHanGrow
<1>6. z \in Nat /\ d \in 1 .. z /\ d \in 0 .. z /\ f \in 1 .. z
  BY <1>4
<1>7. idle \in BOOLEAN /\ none \in Nat /\ idle = FALSE
  OBVIOUS
<1>8. Work(p, NoWork) \/ Work(p, v1) \/ Work(p, v2)
  BY <1>2 DEF DecomposeGoal
<1>. HIDE DEF w, z, d, idle, none
<1>9. /\ w = [op |-> w.op, who |-> w.who, at |-> w.at, todo |-> w.todo,
              thinking |-> w.thinking, cap |-> w.cap]
      /\ w.who \in Client \cup {NoClient} /\ w.at \in 0 .. z /\ w.todo \in SUBSET (1 .. z)
      /\ (w.op \in {"create", "reshape"} => w.at \in 1 .. z)
  BY <1>5, <1>6, HanFields
<1>10. Han(v1, z)
  <2>1. more \in SUBSET (1 .. z)
    BY <1>6, <1>9
  <2>2. v1 = [op |-> w.op, who |-> w.who, at |-> w.at, todo |-> more, thinking |-> idle, cap |-> none]
    <3>. HIDE DEF more, f
    <3>1. PICK v : v = [w EXCEPT !.thinking = idle, !.cap = none, !.todo = more]
      OBVIOUS
    <3>2. v = [op |-> w.op, who |-> w.who, at |-> w.at, todo |-> more, thinking |-> idle, cap |-> none]
      BY <1>9, <3>1
    <3>. QED
      BY <3>1, <3>2
  <2>. HIDE DEF more, f, v1
  <2>3. Han([op |-> w.op, who |-> w.who, at |-> w.at, todo |-> more, thinking |-> idle, cap |-> none], z)
    BY <1>1, <1>6, <1>7, <1>9, <2>1, HanMade
  <2>. QED
    BY <2>2, <2>3
<1>11. Han(v2, z)
  <2>2. v2 = [op |-> w.op, who |-> w.who, at |-> d, todo |-> w.todo, thinking |-> idle, cap |-> none]
    <3>1. PICK v : v = [w EXCEPT !.thinking = idle, !.cap = none, !.at = d]
      OBVIOUS
    <3>2. v = [op |-> w.op, who |-> w.who, at |-> d, todo |-> w.todo, thinking |-> idle, cap |-> none]
      BY <1>9, <3>1
    <3>. QED
      BY <3>1, <3>2
  <2>. HIDE DEF v2, f
  <2>3. Han([op |-> w.op, who |-> w.who, at |-> d, todo |-> w.todo, thinking |-> idle, cap |-> none], z)
    BY <1>1, <1>6, <1>7, <1>9, HanMade
  <2>. QED
    BY <2>2, <2>3
<1>12. Han(NoWork, z)
  BY <1>6, IdleHan
<1>. HIDE DEF v1, v2, f
<1>13. \E q \in Port, v \in {v \in Handlers(z) : Han(v, z)} : work' = [work EXCEPT ![q] = v]
  BY <1>6, <1>8, <1>10, <1>11, <1>12, Worked
<1>14. TypeOK' /\ Referenced'
  <2>1. Len(goal') = z /\ goal' \in Seq(GoalRec(Len(goal'))) /\ Len(goal) <= Len(goal') /\ Len(goal') <= MaxGoals
    BY <1>2, <1>4 DEF z
  <2>2. \E q \in Port, v \in {v \in Handlers(Len(goal')) : Han(v, Len(goal'))} : work' = [work EXCEPT ![q] = v]
    BY <1>13, <2>1
  <2>3. up' \in BOOLEAN /\ sent' = sent
    BY <1>1
  <2>. QED
    BY <1>1, <2>1, <2>2, <2>3, Moves
<1>. QED
  BY <1>3, <1>14 DEF GInv

----------------------------------------------------------------------------
\* The tree, for any number of devices and ports

LEMMA GInvHolds == Spec => []GInv
<1>1. Init => GInv
  <2>. SUFFICES ASSUME Init PROVE GInv
    OBVIOUS
  <2>1. up = TRUE /\ goal = <<>> /\ Len(goal) = 0 /\ Goals = {} /\ 0 \in Nat /\ Len(goal) <= MaxGoals
    BY GoalBounds DEF Init, Goals
  <2>2. goal \in Seq(GoalRec(Len(goal)))
    BY <2>1
  <2>3. Ref(NoRequest, 0) /\ Han(NoWork, 0)
    BY NoneRef, IdleHan
  <2>4. sent \in [Client -> Requests(0)] /\ work \in [Port -> Handlers(0)]
    BY <2>3 DEF Init, Ref, Han
  <2>5. TypeOK
    BY <2>1, <2>2, <2>4 DEF TypeOK
  <2>6. Referenced
    <3>1. NoRequest.op = "none" /\ NoWork.op = "none" /\ ~NoWork.thinking
      BY DEF NoRequest, NoWork
    <3>2. \A c \in Client : sent[c] = NoRequest
      BY DEF Init
    <3>3. \A p \in Port : work[p] = NoWork
      BY DEF Init
    <3>. QED
      BY <3>1, <3>2, <3>3 DEF Referenced
  <2>7. KidsLater /\ ParentsEarlier /\ JournalDoneHasEntry
    BY <2>1 DEF KidsLater, ParentsEarlier, JournalDoneHasEntry
  <2>. QED
    BY <2>5, <2>6, <2>7 DEF GInv
<1>2. GInv /\ [Next]_vars => GInv'
  <2>. SUFFICES ASSUME GInv, [Next]_vars PROVE GInv'
    OBVIOUS
  <2>1. CASE UNCHANGED vars
    <3>1. up \in BOOLEAN
      BY DEF GInv, TypeOK
    <3>2. up' = up /\ goal' = goal /\ sent' = sent /\ work' = work
      BY <2>1 DEF vars
    <3>. QED
      BY <3>1, <3>2, GInvSameTree
  <2>2. ASSUME NEW c \in Client,
               \/ Ask(c)
               \/ handle_post_goal_create(c) \/ handle_post_goal_start(c) \/ handle_post_goal_end(c)
               \/ handle_post_goal_extend(c) \/ handle_post_goal_reshape(c)
               \/ handle_post_goal_cancel(c) \/ handle_post_goal_drop(c)
        PROVE  GInv'
    BY <2>2, GAsk, GCreate, GStart, GEnd, GExtend, GReshapeAsked, GCancel, GDrop
  <2>3. ASSUME NEW p \in Port,
               \/ handle_get_session_goals(p) \/ first_unstarted_leaf(p) \/ StartGoalDeepFromGoal(p)
               \/ ComputePartialDecomposition(p) \/ DecomposeGoal(p) \/ reshape_goal_leaf(p)
        PROVE  GInv'
    BY <2>3, GSession, GSearch, GStarted, GPartial, GDecompose, GReshaped
  <2>. QED
    BY <2>1, <2>2, <2>3 DEF Next
<1>. QED
  BY <1>1, <1>2, PTL DEF Spec

\* No journal step is ended without the entry it produced, whatever the
\* devices ask for at the same time, over decompositions, cancels, drafts and
\* steps that start afresh (goal-handlers.c:436): only a drop ends one so.
THEOREM JournalEntriesThere == Spec => []JournalDoneHasEntry
<1>1. GInv => JournalDoneHasEntry
  BY DEF GInv
<1>. QED
  BY <1>1, GInvHolds, PTL

\* A goal is made after its parent, children in the order of the split, each
\* after its previous sibling (goal.c:1855, :1877): so the walks of the
\* timeline, which follow parents, children and siblings, end.
THEOREM TreeSound == Spec => [](TypeOK /\ KidsLater /\ ParentsEarlier)
<1>1. GInv => TypeOK /\ KidsLater /\ ParentsEarlier
  BY DEF GInv
<1>. QED
  BY <1>1, GInvHolds, PTL

----------------------------------------------------------------------------
\* Steps: what the walks find

\* A step that keeps or extends the tree: only f gets children.
Extends(f) ==
    /\ Goals \subseteq Goals'
    /\ \A h \in Goals :
          /\ goal'[h].parent = Parent(h) /\ goal'[h].prev = goal[h].prev
          /\ h # f => goal'[h].kids = Kids(h)

LEMMA ExtendsWhen ==
    ASSUME TypeOK
    PROVE  /\ Kept /\ Goals' = Goals => Extends(NoGoal)
           /\ \A n : Planted(n) => Extends(NoGoal)
           /\ \A n, s, f : Grows(n, s, f) => Extends(f)
<1>1. ASSUME Kept, Goals' = Goals PROVE Extends(NoGoal)
  BY <1>1 DEF Kept, Extends, Parent, Kids
<1>2. ASSUME NEW n, Planted(n) PROVE Extends(NoGoal)
  <2>1. n \in Nat /\ Goals = 1 .. n /\ Goals' = 1 .. (n + 1) /\ \A h \in Goals : goal'[h] = goal[h]
    BY <1>2 DEF Planted
  <2>2. Goals \subseteq Goals'
    BY <2>1
  <2>. QED
    BY <2>1, <2>2 DEF Extends, Parent, Kids
<1>3. ASSUME NEW n, NEW s, NEW f, Grows(n, s, f) PROVE Extends(f)
  <2>1. /\ n \in Nat /\ s \in Nat /\ Goals = 1 .. n /\ Goals' = 1 .. (n + s)
        /\ goal'[f].parent = Parent(f) /\ goal'[f].prev = goal[f].prev
        /\ \A h \in Goals : h # f => goal'[h] = goal[h]
    BY <1>3 DEF Grows
  <2>2. Goals \subseteq Goals'
    BY <2>1
  <2>. QED
    BY <2>1, <2>2 DEF Extends, Parent, Kids
<1>. QED
  BY <1>1, <1>2, <1>3

\* The two walks, as the step from a goal to the next one.
WalksTurn ==
    \A g \in Goals :
        /\ Lasts[g] \in Goals
        /\ Lasts[g] = IF goal[g].kids = <<>> THEN g ELSE Lasts[Last(goal[g].kids)]
        /\ Befores[g] \in Goals \cup {NoGoal}
        /\ Befores[g] = IF goal[g].prev # NoGoal THEN Lasts[goal[g].prev]
                        ELSE IF goal[g].parent = NoGoal THEN NoGoal ELSE Befores[goal[g].parent]

LEMMA Walks ==
    TypeOK /\ KidsLater /\ ParentsEarlier => WalksTurn
<1>. SUFFICES ASSUME TypeOK, KidsLater, ParentsEarlier, NEW g \in Goals
              PROVE  /\ Lasts[g] \in Goals
                     /\ Lasts[g] = IF goal[g].kids = <<>> THEN g ELSE Lasts[Last(goal[g].kids)]
                     /\ Befores[g] \in Goals \cup {NoGoal}
                     /\ Befores[g] = IF goal[g].prev # NoGoal THEN Lasts[goal[g].prev]
                                     ELSE IF goal[g].parent = NoGoal THEN NoGoal
                                     ELSE Befores[goal[g].parent]
  BY DEF WalksTurn
<1>1. \A h \in Goals : Lasts[h] = last_leaf(h) /\ Befores[h] = previous_timeline_leaf(h)
  BY DEF Lasts, Befores
<1>2. Lasts[g] \in Goals
  BY <1>1, LastLeafTurns
<1>3. Lasts[g] = IF goal[g].kids = <<>> THEN g ELSE Lasts[Last(goal[g].kids)]
  <2>1. CASE IsLeaf(g)
    BY <1>1, <2>1, LastLeafTurns DEF IsLeaf, Kids
  <2>2. CASE ~IsLeaf(g)
    <3>1. Last(Kids(g)) \in Goals
      BY <2>2, LastKid
    <3>2. last_leaf(g) = last_leaf(Last(Kids(g)))
      BY <2>2, LastLeafTurns
    <3>3. Lasts[g] = Lasts[Last(Kids(g))]
      BY <1>1, <3>1, <3>2
    <3>. QED
      BY <2>2, <3>3 DEF IsLeaf, Kids
  <2>. QED
    BY <2>1, <2>2
<1>4. Befores[g] \in Goals \cup {NoGoal}
  BY <1>1, PreviousInTree
<1>5. Befores[g] = IF goal[g].prev # NoGoal THEN Lasts[goal[g].prev]
                   ELSE IF goal[g].parent = NoGoal THEN NoGoal ELSE Befores[goal[g].parent]
  <2>1. /\ goal[g].prev # NoGoal => goal[g].prev \in Goals
        /\ Parent(g) # NoGoal => Parent(g) \in Goals
    BY FieldsTyped
  <2>2. previous_timeline_leaf(g) =
            IF goal[g].prev # NoGoal THEN last_leaf(goal[g].prev)
            ELSE IF Parent(g) = NoGoal THEN NoGoal ELSE previous_timeline_leaf(Parent(g))
    BY PreviousTurns
  <2>3. CASE goal[g].prev # NoGoal
    BY <1>1, <2>1, <2>2, <2>3
  <2>4. CASE goal[g].prev = NoGoal /\ Parent(g) = NoGoal
    BY <1>1, <2>2, <2>4 DEF Parent
  <2>5. CASE goal[g].prev = NoGoal /\ Parent(g) # NoGoal
    BY <1>1, <2>1, <2>2, <2>5 DEF Parent
  <2>. QED
    BY <2>3, <2>4, <2>5
<1>. QED
  BY <1>2, <1>3, <1>4, <1>5

LEMMA WalksAfter == (TypeOK /\ KidsLater /\ ParentsEarlier)' => WalksTurn'
  BY Walks, PTL

\* A leaf before a goal stays the leaf before it, unless it gets children.
LEMMA WalksKept ==
    ASSUME TypeOK, KidsLater, ParentsEarlier, (TypeOK /\ KidsLater /\ ParentsEarlier)',
           NEW f, Extends(f), f = NoGoal \/ (f \in Goals /\ IsLeaf(f))
    PROVE  /\ \A h \in Goals : Lasts[h] # f => Lasts'[h] = Lasts[h]
           /\ \A h \in Goals : f = NoGoal \/ Befores[h] # f => Befores'[h] = Befores[h]
<1>. DEFINE n == Len(goal)
<1>1. n \in Nat /\ Goals = 1 .. n
  BY GoalsTyped
<1>. HIDE DEF n
<1>2. \A h \in Goals :
         /\ h \in Goals' /\ goal'[h].parent = Parent(h) /\ goal'[h].prev = goal[h].prev
         /\ h # f => goal'[h].kids = Kids(h)
  BY DEF Extends
<1>3. \A h \in Goals : Lasts[h] # f => Lasts'[h] = Lasts[h]
  <2>. DEFINE T == {h \in Goals : Lasts[h] # f => Lasts'[h] = Lasts[h]}
  <2>1. ASSUME NEW h \in Goals, \A k \in Goals : k > h => k \in T PROVE h \in T
    <3>. SUFFICES ASSUME Lasts[h] # f PROVE Lasts'[h] = Lasts[h]
      OBVIOUS
    <3>1. Lasts[h] = IF Kids(h) = <<>> THEN h ELSE Lasts[Last(Kids(h))]
      BY Walks DEF WalksTurn, Kids
    <3>2. h # f
      <4>1. f = NoGoal => h # f
        BY FieldsTyped
      <4>2. f \in Goals /\ h = f => FALSE
        BY <3>1, FieldsTyped DEF IsLeaf
      <4>. QED
        BY <4>1, <4>2
    <3>3. Lasts'[h] = IF Kids(h) = <<>> THEN h ELSE Lasts'[Last(Kids(h))]
      BY <1>2, <3>2, WalksAfter DEF WalksTurn
    <3>4. CASE Kids(h) = <<>>
      BY <3>1, <3>3, <3>4
    <3>5. CASE Kids(h) # <<>>
      <4>1. Last(Kids(h)) \in Goals /\ Last(Kids(h)) > h
        BY <3>5, LastKid DEF IsLeaf
      <4>2. Last(Kids(h)) \in T
        BY <2>1, <4>1
      <4>. QED
        BY <3>1, <3>3, <3>5, <4>2
    <3>. QED
      BY <3>4, <3>5
  <2>. HIDE DEF T
  <2>2. T = 1 .. n
    <3>1. T \in SUBSET (1 .. n)
      BY <1>1 DEF T
    <3>2. \A h \in 1 .. n : (\A k \in 1 .. n : k > h => k \in T) => h \in T
      BY <1>1, <2>1
    <3>. QED
      BY <1>1, <3>1, <3>2, Upwards
  <2>. QED
    BY <1>1, <2>2 DEF T
<1>4. \A h \in Goals : f = NoGoal \/ Befores[h] # f => Befores'[h] = Befores[h]
  <2>. DEFINE T == {h \in Goals : f = NoGoal \/ Befores[h] # f => Befores'[h] = Befores[h]}
  <2>1. ASSUME NEW h \in Goals, \A k \in Goals : k < h => k \in T PROVE h \in T
    <3>. SUFFICES ASSUME f = NoGoal \/ Befores[h] # f PROVE Befores'[h] = Befores[h]
      OBVIOUS
    <3>1. Befores[h] = IF goal[h].prev # NoGoal THEN Lasts[goal[h].prev]
                       ELSE IF Parent(h) = NoGoal THEN NoGoal ELSE Befores[Parent(h)]
      BY Walks DEF WalksTurn, Parent
    <3>2. Befores'[h] = IF goal[h].prev # NoGoal THEN Lasts'[goal[h].prev]
                        ELSE IF Parent(h) = NoGoal THEN NoGoal ELSE Befores'[Parent(h)]
      BY <1>2, WalksAfter DEF WalksTurn
    <3>3. CASE goal[h].prev # NoGoal
      <4>1. goal[h].prev \in Goals
        BY <3>3, FieldsTyped
      <4>2. Lasts[goal[h].prev] \in Goals
        BY <4>1, Walks DEF WalksTurn
      <4>3. Lasts[goal[h].prev] # NoGoal
        BY <4>2, FieldsTyped
      <4>. QED
        BY <1>3, <3>1, <3>2, <3>3, <4>1, <4>3
    <3>4. CASE goal[h].prev = NoGoal /\ Parent(h) # NoGoal
      <4>1. Parent(h) \in Goals /\ Parent(h) < h
        BY <3>4, FieldsTyped DEF ParentsEarlier
      <4>2. Parent(h) \in T
        BY <2>1, <4>1
      <4>. QED
        BY <3>1, <3>2, <3>4, <4>2
    <3>5. CASE goal[h].prev = NoGoal /\ Parent(h) = NoGoal
      BY <3>1, <3>2, <3>5
    <3>. QED
      BY <3>3, <3>4, <3>5
  <2>. HIDE DEF T
  <2>2. T = 1 .. n
    <3>1. T \in SUBSET (1 .. n)
      BY <1>1 DEF T
    <3>2. \A h \in 1 .. n : (\A k \in 1 .. n : k < h => k \in T) => h \in T
      BY <1>1, <2>1
    <3>. QED
      BY <1>1, <3>1, <3>2, Downwards
  <2>. QED
    BY <1>1, <2>2 DEF T
<1>. QED
  BY <1>3, <1>4

----------------------------------------------------------------------------
\* One handler at a time: every goal has its place

SinglePort == \A p, q \in Port : p = q

\* A handler that was just given, or found idle.
Idle == \A p \in Port : work[p] = NoWork

LEMMA IdleThen ==
    ASSUME TypeOK, SinglePort, NEW c \in Client, NEW op, Take(c, op)
    PROVE  Idle
  BY ClientsAssumption DEF SinglePort, Idle, Take

LEMMA OnlyWork ==
    ASSUME TypeOK, SinglePort, NEW p \in Port, NEW w, Work(p, w)
    PROVE  \A q \in Port : work'[q] = w
  BY DEF SinglePort, Work, TypeOK

Knows(w, goals) ==
    /\ w.op = "create" \/ w.thinking => goals[w.at].kids = <<>>
    /\ w.op = "reshape" => w.thinking

LEMMA HandlersKnowWhen ==
    /\ (\A p \in Port : Knows(work[p], goal)) <=> HandlersKnow
    /\ (\A p \in Port : Knows(work'[p], goal')) <=> HandlersKnow'
<1>1. (\A p \in Port : Knows(work[p], goal)) <=> HandlersKnow
  BY DEF Knows, HandlersKnow, IsLeaf, Kids
<1>2. (\A p \in Port : Knows(work'[p], goal')) <=> HandlersKnow'
  BY DEF Knows, HandlersKnow, IsLeaf, Kids
<1>. QED
  BY <1>1, <1>2

LEMMA IdleKnows == ASSUME NEW goals PROVE Knows(NoWork, goals)
  BY DEF Knows, NoWork

\* What a handler does after the steps that give it something to do.
LEMMA CreateGives ==
    ASSUME NEW c \in Client, handle_post_goal_create(c)
    PROVE  \E w : /\ Work(PortOf[c], w) /\ w.op = "create" /\ w.who = c
                  /\ w.at = Len(goal) + 1 /\ ~w.thinking
<1>. DEFINE m == Len(goal) + 1
<1>1. PICK w : w = [NoWork EXCEPT !.op = "create", !.who = c, !.at = m]
  OBVIOUS
<1>2. Work(PortOf[c], w)
  BY <1>1 DEF handle_post_goal_create
<1>. HIDE DEF m
<1>3. w.op = "create" /\ w.who = c /\ w.at = m /\ ~w.thinking
  BY <1>1 DEF NoWork
<1>. QED
  BY <1>2, <1>3 DEF m

LEMMA StartGives ==
    ASSUME NEW c \in Client, handle_post_goal_start(c)
    PROVE  \E w : Work(PortOf[c], w) /\ w.op = "start" /\ w.who = c /\ ~w.thinking
<1>1. PICK w : w = [NoWork EXCEPT !.op = "start", !.who = c, !.todo = {sent[c].goal}]
  OBVIOUS
<1>2. Work(PortOf[c], w)
  BY <1>1 DEF handle_post_goal_start
<1>3. w.op = "start" /\ w.who = c /\ ~w.thinking
  BY <1>1 DEF NoWork
<1>. QED
  BY <1>2, <1>3

LEMMA ReshapeGives ==
    ASSUME NEW c \in Client, handle_post_goal_reshape(c)
    PROVE  \/ UNCHANGED work
           \/ /\ IsLeaf(sent[c].goal)
              /\ \E w : /\ Work(PortOf[c], w) /\ w.op = "reshape" /\ w.who = c
                        /\ w.at = sent[c].goal /\ w.thinking
<1>. DEFINE g == sent[c].goal
<1>1. PICK w : w = [NoWork EXCEPT !.op = "reshape", !.who = c, !.at = g, !.thinking = TRUE]
  OBVIOUS
<1>2. UNCHANGED work \/ (IsLeaf(g) /\ Work(PortOf[c], w))
  BY <1>1 DEF handle_post_goal_reshape, IsLeaf
<1>. HIDE DEF g
<1>3. w.op = "reshape" /\ w.who = c /\ w.at = g /\ w.thinking
  BY <1>1 DEF NoWork
<1>. QED
  BY <1>2, <1>3 DEF g

LEMMA SessionGives ==
    ASSUME NEW p \in Port, handle_get_session_goals(p)
    PROVE  \E w : Work(p, w) /\ w.op = "session" /\ ~w.thinking
<1>1. PICK w : w = [NoWork EXCEPT !.op = "session", !.todo = Roots]
  OBVIOUS
<1>2. Work(p, w)
  BY <1>1 DEF handle_get_session_goals
<1>3. w.op = "session" /\ ~w.thinking
  BY <1>1 DEF NoWork
<1>. QED
  BY <1>2, <1>3

\* And after those that leave it with less, or something else.
LEMMA GoesOn ==
    ASSUME GInv, NEW p \in Port
    PROVE  /\ first_unstarted_leaf(p) =>
                 \E f \in Goals : \E w : /\ Work(p, w) /\ w.op = work[p].op /\ w.who = work[p].who
                                     /\ w.at = f /\ w.thinking = TRUE /\ IsLeaf(f) /\ Open(f)
                                     /\ w.op \in {"start", "session"}
           /\ ComputePartialDecomposition(p) =>
                 /\ work[p].op = "create"
                 /\ \/ Work(p, NoWork) \/ ~IsLeaf(work[p].at)
                    \/ \E w : /\ Work(p, w) /\ w.op = "create" /\ w.who = work[p].who
                              /\ w.at = work[p].at /\ w.thinking = TRUE
           /\ DecomposeGoal(p) =>
                 \/ Work(p, NoWork)
                 \/ \E w : /\ Work(p, w) /\ w.op = work[p].op /\ w.who = work[p].who
                           /\ w.thinking = FALSE
                           /\ IF w.op = "create" THEN w.at = Len(goal) + 1
                              ELSE w.op \in {"start", "session"}
<1>. DEFINE v == work[p]
<1>0. /\ TypeOK /\ KidsLater
      /\ v = [op |-> v.op, who |-> v.who, at |-> v.at, todo |-> v.todo,
              thinking |-> v.thinking, cap |-> v.cap]
      /\ v.todo \in SUBSET Goals /\ v.op \in {"none", "create", "start", "session", "reshape"}
      /\ v.thinking => v.op # "none"
  <2>1. TypeOK /\ KidsLater /\ Han(v, Len(goal)) /\ Len(goal) \in Nat /\ Goals = 1 .. Len(goal)
    BY GoalsTyped, RefHan DEF GInv
  <2>. HIDE DEF v
  <2>. QED
    BY <2>1, HanFields
<1>1. ASSUME first_unstarted_leaf(p)
      PROVE  \E f \in Goals : \E w : /\ Work(p, w) /\ w.op = v.op /\ w.who = v.who
                                 /\ w.at = f /\ w.thinking = TRUE /\ IsLeaf(f) /\ Open(f)
                                 /\ w.op \in {"start", "session"}
  <2>1. PICK g \in v.todo : /\ TooBig(FirstOpen(g)) /\ v.op \in {"start", "session"}
                            /\ Work(p, Thinking([v EXCEPT !.todo = @ \ {g}], FirstOpen(g)))
    BY <1>1 DEF first_unstarted_leaf
  <2>. DEFINE f == FirstOpen(g)
              d == v.todo \ {g}
              c == HardCap(goal[f].minutes)
  <2>2. f \in Goals /\ IsLeaf(f) /\ Open(f)
    BY <1>0, <2>1, FirstOpenLeaf DEF TooBig
  <2>3. Work(p, [[v EXCEPT !.todo = d] EXCEPT !.thinking = TRUE, !.at = f, !.cap = c])
    BY <2>1 DEF Thinking
  <2>. HIDE DEF f, d, c, v
  <2>4. PICK w : w = [[v EXCEPT !.todo = d] EXCEPT !.thinking = TRUE, !.at = f, !.cap = c]
    OBVIOUS
  <2>5. w.op = v.op /\ w.who = v.who /\ w.at = f /\ w.thinking = TRUE
    BY <1>0, <2>4
  <2>. QED
    BY <2>1, <2>2, <2>3, <2>4, <2>5
<1>2. ASSUME ComputePartialDecomposition(p)
      PROVE  /\ v.op = "create"
             /\ \/ Work(p, NoWork) \/ ~IsLeaf(v.at)
                \/ \E w : /\ Work(p, w) /\ w.op = "create" /\ w.who = v.who
                          /\ w.at = v.at /\ w.thinking = TRUE
  <2>. DEFINE c == HardCap(goal[v.at].minutes)
  <2>1. v.op = "create" /\ (Work(p, NoWork) \/ ~IsLeaf(v.at) \/ Work(p, Thinking(v, v.at)))
    BY <1>2 DEF ComputePartialDecomposition, IsLeaf
  <2>2. Thinking(v, v.at) = [v EXCEPT !.thinking = TRUE, !.at = v.at, !.cap = c]
    BY DEF Thinking
  <2>. HIDE DEF c, v
  <2>3. PICK w : w = [v EXCEPT !.thinking = TRUE, !.at = v.at, !.cap = c]
    OBVIOUS
  <2>4. w.op = v.op /\ w.who = v.who /\ w.at = v.at /\ w.thinking = TRUE
    BY <1>0, <2>3
  <2>. QED
    BY <2>1, <2>2, <2>3, <2>4
<1>3. ASSUME DecomposeGoal(p)
      PROVE  \/ Work(p, NoWork)
             \/ \E w : /\ Work(p, w) /\ w.op = v.op /\ w.who = v.who /\ w.thinking = FALSE
                       /\ IF w.op = "create" THEN w.at = Len(goal) + 1
                          ELSE w.op \in {"start", "session"}
  <2>. DEFINE d == v.todo \cup {v.at}
              m == Len(goal) + 1
  <2>1. \/ Work(p, NoWork)
        \/ v.op # "create" /\ Work(p, [v EXCEPT !.thinking = FALSE, !.cap = 0, !.todo = d])
        \/ v.op = "create" /\ Work(p, [v EXCEPT !.thinking = FALSE, !.cap = 0, !.at = m])
    BY <1>3 DEF DecomposeGoal
  <2>2. v.thinking /\ v.op # "reshape"
    BY <1>3 DEF DecomposeGoal
  <2>. HIDE DEF v, d, m
  <2>3. PICK w : w = [v EXCEPT !.thinking = FALSE, !.cap = 0, !.todo = d]
    OBVIOUS
  <2>4. PICK u : u = [v EXCEPT !.thinking = FALSE, !.cap = 0, !.at = m]
    OBVIOUS
  <2>5. w.op = v.op /\ w.who = v.who /\ w.thinking = FALSE
    BY <1>0, <2>3
  <2>6. u.op = v.op /\ u.who = v.who /\ u.thinking = FALSE /\ u.at = m
    BY <1>0, <2>4
  <2>7. v.op # "create" => v.op \in {"start", "session"}
    BY <1>0, <2>2
  <2>8. CASE Work(p, NoWork)
    BY <2>8
  <2>9. CASE v.op # "create" /\ Work(p, w)
    BY <2>5, <2>7, <2>9
  <2>10. CASE v.op = "create" /\ Work(p, u)
    BY <2>6, <2>10 DEF m
  <2>. QED
    BY <2>1, <2>3, <2>4, <2>8, <2>9, <2>10
<1>. QED
  BY <1>1, <1>2, <1>3

LEMMA PlaceAfter ==
    ASSUME TypeOK, KidsLater, EveryGoalHasItsPlace
    PROVE  /\ UNCHANGED goal => EveryGoalHasItsPlace'
           /\ Kept /\ Goals' = Goals => EveryGoalHasItsPlace'
           /\ \A n : Planted(n) => EveryGoalHasItsPlace'
           /\ \A n, s, f : Grows(n, s, f) /\ IsLeaf(f) => EveryGoalHasItsPlace'
<1>. DEFINE In(g, goals) == \E i \in DOMAIN goals[goals[g].parent].kids : goals[goals[g].parent].kids[i] = g
<1>0. \A g \in Goals : Parent(g) # NoGoal => Parent(g) \in Goals /\ In(g, goal)
  BY FieldsTyped DEF EveryGoalHasItsPlace, ToSet, Parent, Kids
<1>1. (\A g \in Goals' : goal'[g].parent # NoGoal => In(g, goal')) => EveryGoalHasItsPlace'
  BY DEF EveryGoalHasItsPlace, ToSet, Parent, Kids
<1>2. ASSUME UNCHANGED goal PROVE EveryGoalHasItsPlace'
  BY <1>2 DEF EveryGoalHasItsPlace, Goals, Parent, Kids
<1>3. ASSUME Kept, Goals' = Goals PROVE EveryGoalHasItsPlace'
  <2>1. \A h \in Goals : goal'[h].parent = Parent(h) /\ goal'[h].kids = Kids(h)
    BY <1>3 DEF Kept, Parent, Kids
  <2>. QED
    BY <1>0, <1>1, <1>3, <2>1 DEF Parent, Kids
<1>4. ASSUME NEW n, Planted(n) PROVE EveryGoalHasItsPlace'
  <2>1. /\ n \in Nat /\ Goals = 1 .. n /\ Goals' = 1 .. (n + 1) /\ \A h \in Goals : goal'[h] = goal[h]
        /\ goal'[n + 1].parent = NoGoal
    BY <1>4 DEF Planted
  <2>2. \A h \in Goals' : h \in Goals \/ h = n + 1
    BY <2>1
  <2>. QED
    BY <1>0, <1>1, <2>1, <2>2 DEF Parent, Kids
<1>5. ASSUME NEW n, NEW s, NEW f, Grows(n, s, f), IsLeaf(f) PROVE EveryGoalHasItsPlace'
  <2>1. /\ n \in Nat /\ s \in Nat /\ f \in Goals /\ Goals = 1 .. n /\ Goals' = 1 .. (n + s)
        /\ \A h \in Goals : h # f => goal'[h] = goal[h]
        /\ goal'[f].parent = Parent(f)
        /\ goal'[f].kids = [i \in 1 .. s |-> n + i]
        /\ \A h \in (n + 1) .. (n + s) : goal'[h].parent = f
    BY <1>5 DEF Grows
  <2>2. ASSUME NEW g \in Goals, goal'[g].parent # NoGoal PROVE In(g, goal')
    <3>1. goal'[g].parent = Parent(g)
      BY <2>1 DEF Parent
    <3>2. Parent(g) \in Goals /\ In(g, goal)
      BY <1>0, <2>2, <3>1
    <3>3. Parent(g) # f
      <4>. SUFFICES ASSUME Parent(g) = f PROVE FALSE
        OBVIOUS
      <4>1. Kids(f) = <<>>
        BY <1>5 DEF IsLeaf
      <4>2. \E i \in DOMAIN Kids(f) : TRUE
        BY <3>2 DEF Parent, Kids
      <4>. QED
        BY <4>1, <4>2
    <3>4. goal'[Parent(g)] = goal[Parent(g)]
      BY <2>1, <3>2, <3>3
    <3>. QED
      BY <3>1, <3>2, <3>4 DEF Parent
  <2>3. ASSUME NEW g \in (n + 1) .. (n + s) PROVE In(g, goal')
    <3>1. g - n \in 1 .. s /\ n + (g - n) = g
      BY <2>1
    <3>2. goal'[f].kids[g - n] = g /\ g - n \in DOMAIN goal'[f].kids
      BY <2>1, <3>1
    <3>. QED
      BY <2>1, <3>2
  <2>4. \A g \in Goals' : g \in Goals \/ g \in (n + 1) .. (n + s)
    BY <2>1
  <2>. HIDE DEF In
  <2>. QED
    BY <1>1, <2>2, <2>3, <2>4
<1>. QED
  BY <1>2, <1>3, <1>4, <1>5

\* What a step of a handler that was given to, or goes on, leaves known.
LEMMA KnownAfter ==
    ASSUME TypeOK, SinglePort
    PROVE  /\ \A p \in Port : Work(p, NoWork) => HandlersKnow'
           /\ Idle /\ UNCHANGED work => HandlersKnow'
           /\ \A p \in Port : \A w : Work(p, w) /\ Knows(w, goal') => HandlersKnow'
<1>1. ASSUME NEW p \in Port, NEW w, Work(p, w), Knows(w, goal') PROVE HandlersKnow'
  <2>1. \A q \in Port : work'[q] = w
    BY <1>1, OnlyWork
  <2>. QED
    BY <1>1, <2>1, HandlersKnowWhen
<1>2. ASSUME NEW p \in Port, Work(p, NoWork) PROVE HandlersKnow'
  BY <1>1, <1>2, IdleKnows
<1>3. ASSUME Idle, UNCHANGED work PROVE HandlersKnow'
  BY <1>3, IdleKnows, HandlersKnowWhen DEF Idle
<1>. QED
  BY <1>1, <1>2, <1>3

LEMMA PClient ==
    ASSUME GInv, PInv, SinglePort, NEW c \in Client,
           \/ Ask(c)
           \/ handle_post_goal_create(c) \/ handle_post_goal_start(c) \/ handle_post_goal_end(c)
           \/ handle_post_goal_extend(c) \/ handle_post_goal_reshape(c)
           \/ handle_post_goal_cancel(c) \/ handle_post_goal_drop(c)
    PROVE  PInv'
<1>1. /\ TypeOK /\ KidsLater /\ HandlersKnow /\ EveryGoalHasItsPlace /\ PortOf[c] \in Port
      /\ Goals = 1 .. Len(goal)
  BY GoalsTyped, ClientsAssumption DEF GInv, PInv
<1>2. CASE Ask(c)
  <2>1. UNCHANGED goal /\ UNCHANGED work
    BY <1>2 DEF Ask
  <2>2. HandlersKnow'
    BY <1>1, <2>1 DEF HandlersKnow, IsLeaf, Kids
  <2>. QED
    BY <1>1, <2>1, <2>2, PlaceAfter DEF PInv
<1>3. CASE handle_post_goal_create(c)
  <2>1. Planted(Len(goal))
    BY <1>3, GCreate
  <2>2. PICK w : /\ Work(PortOf[c], w) /\ w.op = "create" /\ w.at = Len(goal) + 1 /\ ~w.thinking
    BY <1>3, CreateGives
  <2>3. Knows(w, goal')
    BY <2>1, <2>2 DEF Knows, Planted
  <2>. QED
    BY <1>1, <2>1, <2>2, <2>3, KnownAfter, PlaceAfter DEF PInv
<1>4. CASE handle_post_goal_start(c)
  <2>1. UNCHANGED goal
    BY <1>4 DEF handle_post_goal_start
  <2>2. PICK w : Work(PortOf[c], w) /\ w.op = "start" /\ ~w.thinking
    BY <1>4, StartGives
  <2>3. Knows(w, goal')
    BY <2>2 DEF Knows
  <2>. QED
    BY <1>1, <2>1, <2>2, <2>3, KnownAfter, PlaceAfter DEF PInv
<1>5. CASE handle_post_goal_reshape(c)
  <2>1. UNCHANGED goal /\ Idle
    BY <1>1, <1>5, IdleThen DEF handle_post_goal_reshape
  <2>2. HandlersKnow'
    <3>1. CASE UNCHANGED work
      BY <1>1, <2>1, <3>1, KnownAfter
    <3>2. CASE IsLeaf(sent[c].goal) /\ \E w : /\ Work(PortOf[c], w) /\ w.op = "reshape"
                                              /\ w.at = sent[c].goal /\ w.thinking
      <4>1. PICK w : /\ Work(PortOf[c], w) /\ w.op = "reshape"
                     /\ w.at = sent[c].goal /\ w.thinking
        BY <3>2
      <4>2. Knows(w, goal')
        BY <2>1, <3>2, <4>1 DEF Knows, IsLeaf, Kids
      <4>. QED
        BY <1>1, <4>1, <4>2, KnownAfter
    <3>. QED
      BY <1>5, <3>1, <3>2, ReshapeGives
  <2>. QED
    BY <1>1, <2>1, <2>2, PlaceAfter DEF PInv
<1>6. CASE handle_post_goal_end(c)
  <2>1. Idle /\ UNCHANGED work
    BY <1>1, <1>6, IdleThen DEF handle_post_goal_end
  <2>2. UNCHANGED goal \/ (Kept /\ Goals' = Goals)
    <3>. DEFINE g == sent[c].goal
    <3>1. UNCHANGED goal \/ goal' = EndGoal(g)
      BY <1>6 DEF handle_post_goal_end
    <3>2. g \in Goals
      BY <1>6 DEF handle_post_goal_end, Take, GInv, Referenced
    <3>. HIDE DEF g
    <3>. QED
      BY <1>1, <3>1, <3>2, EndGoalDoes
  <2>. QED
    BY <1>1, <2>1, <2>2, KnownAfter, PlaceAfter DEF PInv
<1>7. CASE handle_post_goal_extend(c)
  <2>1. Idle /\ UNCHANGED work
    BY <1>1, <1>7, IdleThen DEF handle_post_goal_extend
  <2>2. UNCHANGED goal \/ (Kept /\ Goals' = Goals)
    BY <1>7, GExtend DEF SetTo
  <2>. QED
    BY <1>1, <2>1, <2>2, KnownAfter, PlaceAfter DEF PInv
<1>8. CASE handle_post_goal_cancel(c)
  <2>1. Idle /\ UNCHANGED work
    BY <1>1, <1>8, IdleThen DEF handle_post_goal_cancel
  <2>2. Kept /\ Goals' = Goals
    BY <1>8, GCancel DEF SetTo
  <2>. QED
    BY <1>1, <2>1, <2>2, KnownAfter, PlaceAfter DEF PInv
<1>9. CASE handle_post_goal_drop(c)
  <2>1. Idle /\ UNCHANGED work
    BY <1>1, <1>9, IdleThen DEF handle_post_goal_drop
  <2>2. Kept /\ Goals' = Goals
    BY <1>9, GDrop
  <2>. QED
    BY <1>1, <2>1, <2>2, KnownAfter, PlaceAfter DEF PInv
<1>. QED
  BY <1>2, <1>3, <1>4, <1>5, <1>6, <1>7, <1>8, <1>9

LEMMA PPort ==
    ASSUME GInv, PInv, SinglePort, NEW p \in Port,
           \/ handle_get_session_goals(p) \/ first_unstarted_leaf(p) \/ StartGoalDeepFromGoal(p)
           \/ ComputePartialDecomposition(p) \/ DecomposeGoal(p) \/ reshape_goal_leaf(p)
    PROVE  PInv'
<1>1. /\ TypeOK /\ KidsLater /\ HandlersKnow /\ EveryGoalHasItsPlace
      /\ Goals = 1 .. Len(goal)
  BY GoalsTyped DEF GInv, PInv
<1>2. CASE handle_get_session_goals(p)
  <2>1. UNCHANGED goal
    BY <1>2 DEF handle_get_session_goals
  <2>2. PICK w : Work(p, w) /\ w.op = "session" /\ ~w.thinking
    BY <1>2, SessionGives
  <2>3. Knows(w, goal')
    BY <2>2 DEF Knows
  <2>. QED
    BY <1>1, <2>1, <2>2, <2>3, KnownAfter, PlaceAfter DEF PInv
<1>3. CASE first_unstarted_leaf(p)
  <2>1. UNCHANGED goal
    BY <1>3 DEF first_unstarted_leaf
  <2>2. PICK w : \E f \in Goals : /\ Work(p, w) /\ w.at = f /\ w.thinking = TRUE /\ IsLeaf(f)
                                  /\ w.op \in {"start", "session"}
    BY <1>3, GoesOn
  <2>3. Knows(w, goal')
    BY <2>1, <2>2 DEF Knows, IsLeaf, Kids
  <2>. QED
    BY <1>1, <2>1, <2>2, <2>3, KnownAfter, PlaceAfter DEF PInv
<1>4. CASE StartGoalDeepFromGoal(p)
  <2>1. Work(p, NoWork)
    BY <1>4 DEF StartGoalDeepFromGoal
  <2>2. UNCHANGED goal \/ (Kept /\ Goals' = Goals)
    BY <1>4, GStarted DEF SetTo
  <2>. QED
    BY <1>1, <2>1, <2>2, KnownAfter, PlaceAfter DEF PInv
<1>5. CASE ComputePartialDecomposition(p)
  <2>1. UNCHANGED goal
    BY <1>5 DEF ComputePartialDecomposition
  <2>2. /\ work[p].op = "create"
        /\ \/ Work(p, NoWork) \/ ~IsLeaf(work[p].at)
           \/ \E w : /\ Work(p, w) /\ w.op = "create"
                     /\ w.at = work[p].at /\ w.thinking = TRUE
    BY <1>5, GoesOn
  <2>3. IsLeaf(work[p].at)
    BY <1>1, <2>2 DEF HandlersKnow
  <2>4. HandlersKnow'
    <3>1. CASE Work(p, NoWork)
      BY <1>1, <3>1, KnownAfter
    <3>2. ASSUME NEW w, Work(p, w), w.op = "create", w.at = work[p].at, w.thinking = TRUE
          PROVE  HandlersKnow'
      <4>1. Knows(w, goal')
        BY <2>1, <2>3, <3>2 DEF Knows, IsLeaf, Kids
      <4>. QED
        BY <1>1, <3>2, <4>1, KnownAfter
    <3>. QED
      BY <2>2, <2>3, <3>1, <3>2
  <2>. QED
    BY <1>1, <2>1, <2>4, PlaceAfter DEF PInv
<1>6. CASE DecomposeGoal(p)
  <2>. DEFINE f == work[p].at
  <2>1. PICK n, s \in Nat : Grows(n, s, f) /\ n = Len(goal)
    BY <1>6, DecomposeGrows
  <2>2. IsLeaf(f)
    BY <1>1, <1>6 DEF HandlersKnow, DecomposeGoal
  <2>. HIDE DEF f
  <2>3. EveryGoalHasItsPlace'
    BY <1>1, <2>1, <2>2, PlaceAfter
  <2>4. HandlersKnow'
    <3>1. CASE Work(p, NoWork)
      BY <1>1, <3>1, KnownAfter
    <3>2. ASSUME NEW w, Work(p, w), w.thinking = FALSE,
                 IF w.op = "create" THEN w.at = Len(goal) + 1 ELSE w.op \in {"start", "session"}
          PROVE  HandlersKnow'
      <4>1. goal'[n + 1].kids = <<>>
        <5>1. n \in Nat /\ s \in Nat /\ s >= 2 /\ \A h \in (n + 1) .. (n + s) : goal'[h].kids = <<>>
          BY <2>1 DEF Grows
        <5>2. n + 1 \in (n + 1) .. (n + s)
          BY <5>1
        <5>. QED
          BY <5>1, <5>2
      <4>2. Knows(w, goal')
        BY <2>1, <3>2, <4>1 DEF Knows
      <4>. QED
        BY <1>1, <3>2, <4>2, KnownAfter
    <3>. QED
      BY <1>6, <3>1, <3>2, GoesOn
  <2>. QED
    BY <2>3, <2>4 DEF PInv
<1>7. CASE reshape_goal_leaf(p)
  <2>1. Work(p, NoWork)
    BY <1>7 DEF reshape_goal_leaf
  <2>2. Kept /\ Goals' = Goals
    BY <1>7, GReshaped DEF SetTo
  <2>. QED
    BY <1>1, <2>1, <2>2, KnownAfter, PlaceAfter DEF PInv
<1>. QED
  BY <1>2, <1>3, <1>4, <1>5, <1>6, <1>7

LEMMA PInvHolds == ASSUME SinglePort PROVE Spec => [](GInv /\ PInv)
<1>1. Init => PInv
  <2>. SUFFICES ASSUME Init PROVE PInv
    OBVIOUS
  <2>1. goal = <<>> /\ \A p \in Port : work[p] = NoWork
    BY DEF Init
  <2>2. EveryGoalHasItsPlace
    BY <2>1 DEF EveryGoalHasItsPlace, Goals
  <2>3. HandlersKnow
    BY <2>1, IdleKnows, HandlersKnowWhen
  <2>. QED
    BY <2>2, <2>3 DEF PInv
<1>2. GInv /\ PInv /\ [Next]_vars => PInv'
  <2>. SUFFICES ASSUME GInv, PInv, [Next]_vars PROVE PInv'
    OBVIOUS
  <2>1. CASE UNCHANGED vars
    <3>1. goal' = goal /\ work' = work /\ Goals' = Goals
      BY <2>1 DEF vars, Goals
    <3>2. HandlersKnow'
      BY <3>1 DEF PInv, HandlersKnow, IsLeaf, Kids
    <3>. QED
      BY <3>1, <3>2, PlaceAfter DEF GInv, PInv
  <2>2. CASE Next
    BY <2>2, PClient, PPort DEF Next
  <2>. QED
    BY <2>1, <2>2
<1>. QED
  BY <1>1, <1>2, GInvHolds, PTL DEF Spec

\* As long as requests come in by one port, every goal is a child of the goal
\* it was made for: handlers of that port take turns (central-server.c:37), and
\* a leaf somebody waits for an answer about does not get children meanwhile.
THEOREM EveryGoalInItsPlace == ASSUME SinglePort PROVE Spec => []EveryGoalHasItsPlace
<1>1. PInv => EveryGoalHasItsPlace
  BY DEF PInv
<1>. QED
  BY <1>1, PInvHolds, PTL

----------------------------------------------------------------------------
\* One device: the plan over a step

Plan == RunningIsLeaf /\ LocallyInOrder /\ ParentsFollowChildren
Finished == \A h \in Goals : Done(h) => goal'[h].status = "done"

LEMMA BeforesAre ==
    TypeOK /\ KidsLater /\ ParentsEarlier => \A g \in Goals :
        /\ Befores[g] = previous_timeline_leaf(g)
        /\ Befores[g] # NoGoal => Befores[g] \in Goals /\ IsLeaf(Befores[g])
  BY PreviousInTree DEF Befores

\* What is in order leaf by leaf is in order along the whole timeline.
LEMMA InOrder == TypeOK /\ KidsLater /\ ParentsEarlier /\ LocallyInOrder => InSequence
<1>. SUFFICES ASSUME TypeOK, KidsLater, ParentsEarlier, LocallyInOrder,
                     NEW g \in Goals, IsLeaf(g), ~Open(g), NEW l \in Earlier(g)
              PROVE  Done(l)
  BY DEF InSequence
<1>. DEFINE T == {h \in Goals : IsLeaf(h) /\ Done(h)}
<1>1. ASSUME NEW h \in Goals, IsLeaf(h), ~Open(h) PROVE previous_timeline_leaf(h) \in T \cup {NoGoal}
  BY <1>1, BeforesAre DEF LocallyInOrder
<1>2. \A h \in T : previous_timeline_leaf(h) \in T \cup {NoGoal}
  BY <1>1 DEF Done, Open
<1>3. T \in SUBSET Goals /\ previous_timeline_leaf(g) \in T \cup {NoGoal}
  BY <1>1
<1>. HIDE DEF T
<1>4. Earlier(g) \subseteq T
  BY <1>2, <1>3, EarlierWalk
<1>. QED
  BY <1>4 DEF T

\* A step that leaves what is finished so, and starts or ends a leaf only when
\* the one before it is finished.
Orderly(f) ==
    /\ Extends(f) /\ (f = NoGoal \/ (f \in Goals /\ IsLeaf(f) /\ ~Done(f))) /\ Finished
    /\ \A h \in Goals' : goal'[h].kids = <<>> /\ goal'[h].status # "open" =>
          /\ h \in Goals
          /\ \/ IsLeaf(h) /\ ~Open(h)
             \/ f = NoGoal /\ (Befores[h] = NoGoal \/ goal'[Befores[h]].status = "done")

LEMMA OrderAfter == ASSUME GInv, GInv', LocallyInOrder, NEW f, Orderly(f) PROVE LocallyInOrder'
<1>1. TypeOK /\ KidsLater /\ ParentsEarlier /\ (TypeOK /\ KidsLater /\ ParentsEarlier)'
  BY DEF GInv
<1>2. Extends(f) /\ (f = NoGoal \/ (f \in Goals /\ IsLeaf(f) /\ ~Done(f))) /\ Finished
  BY DEF Orderly
<1>3. \A h \in Goals : f = NoGoal \/ Befores[h] # f => Befores'[h] = Befores[h]
  BY <1>1, <1>2, WalksKept
<1>. SUFFICES ASSUME NEW h \in Goals', goal'[h].kids = <<>>, goal'[h].status # "open",
                     Befores'[h] # NoGoal
              PROVE  goal'[Befores'[h]].status = "done"
  BY DEF LocallyInOrder, IsLeaf, Kids, Open, Done
<1>4. /\ h \in Goals
      /\ \/ IsLeaf(h) /\ ~Open(h)
         \/ f = NoGoal /\ (Befores[h] = NoGoal \/ goal'[Befores[h]].status = "done")
  BY DEF Orderly
<1>5. CASE IsLeaf(h) /\ ~Open(h)
  <2>1. Befores[h] # NoGoal => Befores[h] \in Goals /\ Done(Befores[h])
    BY <1>1, <1>4, <1>5, BeforesAre DEF LocallyInOrder
  <2>2. f = NoGoal \/ Befores[h] # f
    BY <1>1, <1>2, <2>1, FieldsTyped
  <2>3. Befores'[h] = Befores[h]
    BY <1>3, <1>4, <2>2
  <2>. QED
    BY <1>2, <2>1, <2>3 DEF Finished
<1>6. CASE f = NoGoal /\ (Befores[h] = NoGoal \/ goal'[Befores[h]].status = "done")
  BY <1>3, <1>4, <1>6
<1>. QED
  BY <1>4, <1>5, <1>6

\* The parents of a tree that keeps its shape.
LEMMA ParentsKept ==
    ASSUME Kept, Goals' = Goals,
           \A h \in Goals : ~IsLeaf(h) =>
               (goal'[h].status = "done" <=> \A k \in ToSet(Kids(h)) : goal'[k].status = "done")
    PROVE  ParentsFollowChildren'
<1>1. \A h \in Goals : goal'[h].kids = Kids(h)
  BY DEF Kept, Kids
<1>. SUFFICES ASSUME NEW h \in Goals, goal'[h].kids # <<>>
              PROVE  goal'[h].status = "done" <=> \A k \in ToSet(goal'[h].kids) : goal'[k].status = "done"
  BY DEF ParentsFollowChildren, IsLeaf, Kids, Done
<1>. QED
  BY <1>1 DEF IsLeaf

LEMMA PlanSame ==
    ASSUME Plan, UNCHANGED goal
    PROVE  Plan' /\ Finished
<1>1. Goals' = Goals /\ Befores' = Befores
  BY DEF Goals, Befores, previous_timeline_leaf, last_leaf, Kids, Parent
<1>2. RunningIsLeaf'
  BY <1>1 DEF Plan, RunningIsLeaf, IsLeaf, Kids
<1>3. LocallyInOrder'
  BY <1>1 DEF Plan, LocallyInOrder, IsLeaf, Kids, Open, Done
<1>4. ParentsFollowChildren'
  BY <1>1 DEF Plan, ParentsFollowChildren, IsLeaf, Kids, Done
<1>. QED
  BY <1>2, <1>3, <1>4 DEF Plan, Finished, Done

\* One leaf is started, or stopped before it is finished, or extended.
LEMMA PlanSet ==
    ASSUME GInv, GInv', Plan, NEW l, NEW st, SetTo(l, st),
           \/ st = "open" /\ ~Done(l)
           \/ st = "running" /\ can_start_leaf(l)
           \/ st = goal[l].status
    PROVE  Plan' /\ Finished
<1>1. /\ Kept /\ Goals' = Goals /\ l \in Goals
      /\ goal'[l].status = st /\ \A h \in Goals : h # l => goal'[h].status = goal[h].status
  BY DEF SetTo
<1>2. TypeOK /\ KidsLater /\ ParentsEarlier /\ RunningIsLeaf /\ LocallyInOrder /\ ParentsFollowChildren
  BY DEF GInv, Plan
<1>3. \A h \in Goals : goal'[h].kids = Kids(h)
  BY <1>1 DEF Kept, Kids
<1>4. \A h \in Goals : goal'[h].status = "done" <=> Done(h)
  BY <1>1 DEF Done, Open, can_start_leaf
<1>5. Finished
  BY <1>4 DEF Finished
<1>6. RunningIsLeaf'
  <2>. SUFFICES ASSUME NEW h \in Goals, goal'[h].status = "running" PROVE goal'[h].kids = <<>>
    BY <1>1 DEF RunningIsLeaf, IsLeaf, Kids
  <2>1. goal[h].status = "running" => Kids(h) = <<>>
    BY <1>2 DEF RunningIsLeaf, IsLeaf
  <2>2. h = l /\ st = "running" /\ can_start_leaf(l) => Kids(h) = <<>>
    BY DEF can_start_leaf
  <2>. QED
    BY <1>1, <1>3, <2>1, <2>2
<1>7. ParentsFollowChildren'
  <2>1. \A h \in Goals : ~IsLeaf(h) => (Done(h) <=> \A k \in ToSet(Kids(h)) : Done(k))
    BY <1>2 DEF ParentsFollowChildren
  <2>2. \A h \in Goals : \A k \in ToSet(Kids(h)) : k \in Goals
    BY <1>2, KidsTyped DEF ToSet
  <2>3. \A h \in Goals : ~IsLeaf(h) =>
           (goal'[h].status = "done" <=> \A k \in ToSet(Kids(h)) : goal'[k].status = "done")
    BY <1>4, <2>1, <2>2
  <2>. QED
    BY <1>1, <2>3, ParentsKept
<1>8. Orderly(NoGoal)
  <2>1. Extends(NoGoal)
    BY <1>1, <1>2, ExtendsWhen
  <2>2. ASSUME NEW h \in Goals', goal'[h].kids = <<>>, goal'[h].status # "open"
        PROVE  /\ h \in Goals
               /\ \/ IsLeaf(h) /\ ~Open(h)
                  \/ Befores[h] = NoGoal \/ goal'[Befores[h]].status = "done"
    <3>1. h \in Goals /\ IsLeaf(h)
      BY <1>1, <1>3, <2>2 DEF IsLeaf
    <3>2. CASE goal'[h].status = goal[h].status
      BY <2>2, <3>1, <3>2 DEF Open
    <3>3. CASE goal'[h].status # goal[h].status
      <4>1. h = l /\ can_start_leaf(l)
        BY <1>1, <2>2, <3>1, <3>3
      <4>2. Befores[l] # NoGoal => Befores[l] \in Goals /\ Befores[l] \in Earlier(l)
        BY <1>1, <1>2, BeforesAre, EarlierWalk
      <4>3. Befores[l] # NoGoal => Done(Befores[l])
        BY <4>1, <4>2 DEF can_start_leaf
      <4>. QED
        BY <1>4, <3>1, <4>1, <4>2, <4>3
    <3>. QED
      BY <3>2, <3>3
  <2>. QED
    BY <1>5, <2>1, <2>2 DEF Orderly
<1>9. LocallyInOrder'
  BY <1>2, <1>8, OrderAfter
<1>. QED
  BY <1>5, <1>6, <1>7, <1>9 DEF Plan

\* A leaf that was worked on is ended, with the parents it was the last open
\* leaf of.
LEMMA PlanEnd ==
    ASSUME GInv, GInv', Plan, NEW g \in Goals, goal[g].status = "running", goal' = EndGoal(g)
    PROVE  Plan' /\ Finished
<1>. DEFINE E == EndedWith(g)
            D == {h \in Goals : Done(h)} \cup {g}
<1>1. TypeOK /\ KidsLater /\ ParentsEarlier /\ RunningIsLeaf /\ LocallyInOrder /\ ParentsFollowChildren
  BY DEF GInv, Plan
<1>2. /\ Kept /\ Goals' = Goals
      /\ \A h \in Goals : goal'[h].status = "done" <=> h \in E
      /\ \A h \in Goals : h \notin E => goal'[h].status = goal[h].status
  BY <1>1, EndGoalDoes DEF Done
<1>3. /\ E \in SUBSET Goals
      /\ \A h \in Goals : h \in E <=>
            \/ h \in D
            \/ h \in Line(g) /\ ~IsLeaf(h) /\ \A k \in ToSet(Kids(h)) : k \in E
  <2>1. D \in SUBSET Goals /\ E = refresh_goal_completion_from_children_upwards(D, g)
    BY DEF EndedWith
  <2>. HIDE DEF D, E
  <2>. QED
    BY <1>1, <2>1, Refreshed
<1>. HIDE DEF E
<1>4. \A h \in Goals : goal'[h].kids = Kids(h)
  BY <1>2 DEF Kept, Kids
<1>5. IsLeaf(g) /\ \A h \in Goals : h \in D <=> Done(h) \/ h = g
  BY <1>1 DEF RunningIsLeaf
<1>. HIDE DEF D
<1>6. Finished
  BY <1>2, <1>3, <1>5 DEF Finished
<1>7. RunningIsLeaf'
  <2>. SUFFICES ASSUME NEW h \in Goals, goal'[h].status = "running" PROVE goal'[h].kids = <<>>
    BY <1>2 DEF RunningIsLeaf, IsLeaf, Kids
  <2>1. goal[h].status = "running"
    BY <1>2
  <2>. QED
    BY <1>1, <1>4, <2>1 DEF RunningIsLeaf, IsLeaf
<1>8. ParentsFollowChildren'
  <2>1. ASSUME NEW h \in Goals, ~IsLeaf(h) PROVE h \in E <=> \A k \in ToSet(Kids(h)) : k \in E
    <3>1. /\ Done(h) <=> \A k \in ToSet(Kids(h)) : Done(k)
          /\ \A k \in ToSet(Kids(h)) : k \in Goals /\ Parent(k) = h
      BY <1>1, <2>1, KidsTyped DEF ParentsFollowChildren, ToSet
    <3>2. ASSUME h \in E, NEW k \in ToSet(Kids(h)) PROVE k \in E
      BY <1>3, <1>5, <2>1, <3>1, <3>2
    <3>3. ASSUME \A k \in ToSet(Kids(h)) : k \in E PROVE h \in E
      <4>1. CASE \A k \in ToSet(Kids(h)) : Done(k)
        BY <1>3, <1>5, <3>1, <4>1
      <4>2. ASSUME NEW k \in ToSet(Kids(h)), ~Done(k) PROVE h \in E
        <5>1. k \in Goals /\ Parent(k) = h /\ k \in E
          BY <3>1, <3>3
        <5>2. k \in Line(g)
          BY <1>1, <1>3, <1>5, <4>2, <5>1, LineClimbs
        <5>3. Parent(k) # NoGoal
          BY <1>1, <5>1, FieldsTyped
        <5>4. h \in Line(g)
          BY <1>1, <5>1, <5>2, <5>3, LineClimbs
        <5>. QED
          BY <1>3, <2>1, <3>3, <5>4
      <4>. QED
        BY <4>1, <4>2
    <3>. QED
      BY <3>2, <3>3
  <2>2. \A h \in Goals : \A k \in ToSet(Kids(h)) : k \in Goals
    BY <1>1, KidsTyped DEF ToSet
  <2>3. \A h \in Goals : ~IsLeaf(h) =>
           (goal'[h].status = "done" <=> \A k \in ToSet(Kids(h)) : goal'[k].status = "done")
    BY <1>2, <2>1, <2>2
  <2>. QED
    BY <1>2, <2>3, ParentsKept
<1>9. Orderly(NoGoal)
  <2>1. Extends(NoGoal)
    BY <1>1, <1>2, ExtendsWhen
  <2>2. ASSUME NEW h \in Goals', goal'[h].kids = <<>>, goal'[h].status # "open"
        PROVE  h \in Goals /\ IsLeaf(h) /\ ~Open(h)
    <3>1. h \in Goals /\ IsLeaf(h)
      BY <1>2, <1>4, <2>2 DEF IsLeaf
    <3>2. CASE h \in E
      <4>1. Done(h) \/ h = g
        BY <1>3, <1>5, <3>1, <3>2
      <4>. QED
        BY <3>1, <4>1 DEF Done, Open
    <3>3. CASE h \notin E
      BY <1>2, <2>2, <3>1, <3>3 DEF Open
    <3>. QED
      BY <3>1, <3>2, <3>3
  <2>. QED
    BY <1>6, <2>1, <2>2 DEF Orderly
<1>10. LocallyInOrder'
  BY <1>1, <1>9, OrderAfter
<1>. QED
  BY <1>6, <1>7, <1>8, <1>10 DEF Plan

\* A tree is dropped.
LEMMA PlanDrop ==
    ASSUME GInv, GInv', Plan, NEW r, Kept, Goals' = Goals,
           \A h \in Goals : goal'[h].status = IF CalcGoalRoot(h) = r THEN "done" ELSE goal[h].status
    PROVE  Plan' /\ Finished
<1>1. TypeOK /\ KidsLater /\ ParentsEarlier /\ RunningIsLeaf /\ LocallyInOrder /\ ParentsFollowChildren
  BY DEF GInv, Plan
<1>2. \A h \in Goals : goal'[h].kids = Kids(h)
  BY DEF Kept, Kids
<1>3. Finished
  BY DEF Finished, Done
<1>4. RunningIsLeaf'
  <2>. SUFFICES ASSUME NEW h \in Goals, goal'[h].status = "running" PROVE goal'[h].kids = <<>>
    BY DEF RunningIsLeaf, IsLeaf, Kids
  <2>1. goal[h].status = "running"
    OBVIOUS
  <2>. QED
    BY <1>1, <1>2, <2>1 DEF RunningIsLeaf, IsLeaf
<1>5. ParentsFollowChildren'
  <2>1. ASSUME NEW h \in Goals, ~IsLeaf(h)
        PROVE  goal'[h].status = "done" <=> \A k \in ToSet(Kids(h)) : goal'[k].status = "done"
    <3>1. /\ Done(h) <=> \A k \in ToSet(Kids(h)) : Done(k)
          /\ \A k \in ToSet(Kids(h)) : k \in Goals /\ Parent(k) = h
      BY <1>1, <2>1, KidsTyped DEF ParentsFollowChildren, ToSet
    <3>2. \A k \in ToSet(Kids(h)) : CalcGoalRoot(k) = CalcGoalRoot(h)
      BY <1>1, <3>1, RootTurns, FieldsTyped
    <3>3. CASE CalcGoalRoot(h) = r
      BY <3>1, <3>2, <3>3
    <3>4. CASE CalcGoalRoot(h) # r
      BY <3>1, <3>2, <3>4 DEF Done
    <3>. QED
      BY <3>3, <3>4
  <2>. QED
    BY <2>1, ParentsKept
<1>6. Orderly(NoGoal)
  <2>1. Extends(NoGoal)
    BY <1>1, ExtendsWhen
  <2>2. ASSUME NEW h \in Goals', goal'[h].kids = <<>>, goal'[h].status # "open"
        PROVE  /\ h \in Goals
               /\ \/ IsLeaf(h) /\ ~Open(h)
                  \/ Befores[h] = NoGoal \/ goal'[Befores[h]].status = "done"
    <3>1. h \in Goals /\ IsLeaf(h)
      BY <1>2, <2>2 DEF IsLeaf
    <3>2. CASE CalcGoalRoot(h) = r
      <4>1. Befores[h] # NoGoal => Befores[h] \in Goals /\ CalcGoalRoot(Befores[h]) = r
        BY <1>1, <3>1, <3>2, BeforesAre, PreviousInTree
      <4>. QED
        BY <3>1, <4>1
    <3>3. CASE CalcGoalRoot(h) # r
      BY <2>2, <3>1, <3>3 DEF Open
    <3>. QED
      BY <3>2, <3>3
  <2>. QED
    BY <1>3, <2>1, <2>2 DEF Orderly
<1>7. LocallyInOrder'
  BY <1>1, <1>6, OrderAfter
<1>. QED
  BY <1>3, <1>4, <1>5, <1>7 DEF Plan

\* A tree of one open goal is planted.
LEMMA PlanPlanted ==
    ASSUME GInv, GInv', Plan, NEW n, Planted(n)
    PROVE  Plan' /\ Finished
<1>1. TypeOK /\ KidsLater /\ ParentsEarlier /\ RunningIsLeaf /\ LocallyInOrder /\ ParentsFollowChildren
  BY DEF GInv, Plan
<1>2. /\ n \in Nat /\ Goals = 1 .. n /\ Goals' = 1 .. (n + 1)
      /\ \A h \in Goals : goal'[h] = goal[h]
      /\ goal'[n + 1].kids = <<>> /\ goal'[n + 1].status = "open"
  BY DEF Planted
<1>3. \A h \in Goals' : h \in Goals \/ h = n + 1
  BY <1>2
<1>4. Finished
  BY <1>2 DEF Finished, Done
<1>5. RunningIsLeaf'
  <2>. SUFFICES ASSUME NEW h \in Goals', goal'[h].status = "running" PROVE goal'[h].kids = <<>>
    BY DEF RunningIsLeaf, IsLeaf, Kids
  <2>1. CASE h \in Goals
    BY <1>1, <1>2, <2>1 DEF RunningIsLeaf, IsLeaf, Kids
  <2>. QED
    BY <1>2, <1>3, <2>1
<1>6. ParentsFollowChildren'
  <2>. SUFFICES ASSUME NEW h \in Goals', goal'[h].kids # <<>>
                PROVE  goal'[h].status = "done" <=> \A k \in ToSet(goal'[h].kids) : goal'[k].status = "done"
    BY DEF ParentsFollowChildren, IsLeaf, Kids, Done
  <2>1. h \in Goals /\ goal'[h] = goal[h]
    BY <1>2, <1>3
  <2>2. \A k \in ToSet(Kids(h)) : k \in Goals
    BY <1>1, <2>1, KidsTyped DEF ToSet
  <2>3. Done(h) <=> \A k \in ToSet(Kids(h)) : Done(k)
    BY <1>1, <2>1 DEF ParentsFollowChildren, IsLeaf, Kids
  <2>. QED
    BY <1>2, <2>1, <2>2, <2>3 DEF Done, Kids
<1>7. Orderly(NoGoal)
  <2>1. Extends(NoGoal)
    BY <1>1, ExtendsWhen
  <2>2. ASSUME NEW h \in Goals', goal'[h].kids = <<>>, goal'[h].status # "open"
        PROVE  h \in Goals /\ IsLeaf(h) /\ ~Open(h)
    BY <1>2, <1>3, <2>2 DEF IsLeaf, Kids, Open
  <2>. QED
    BY <1>4, <2>1, <2>2 DEF Orderly
<1>8. LocallyInOrder'
  BY <1>1, <1>7, OrderAfter
<1>. QED
  BY <1>4, <1>5, <1>6, <1>8 DEF Plan

\* A leaf that is open gets children.
LEMMA PlanGrows ==
    ASSUME GInv, GInv', Plan, NEW n, NEW s, NEW f, Grows(n, s, f), IsLeaf(f), Open(f)
    PROVE  Plan' /\ Finished
<1>1. TypeOK /\ KidsLater /\ ParentsEarlier /\ RunningIsLeaf /\ LocallyInOrder /\ ParentsFollowChildren
  BY DEF GInv, Plan
<1>2. /\ n \in Nat /\ s \in Nat /\ s >= 2 /\ f \in Goals /\ Goals = 1 .. n /\ Goals' = 1 .. (n + s)
      /\ \A h \in Goals : h # f => goal'[h] = goal[h]
      /\ goal'[f].status = goal[f].status
      /\ goal'[f].kids = [i \in 1 .. s |-> n + i]
      /\ \A h \in (n + 1) .. (n + s) : goal'[h].kids = <<>> /\ goal'[h].status = "open"
  BY DEF Grows
<1>3. \A h \in Goals' : h \in Goals \/ h \in (n + 1) .. (n + s)
  BY <1>2
<1>4. \A h \in Goals : goal'[h].status = goal[h].status
  BY <1>2
<1>5. Finished
  BY <1>4 DEF Finished, Done
<1>6. n + 1 \in (n + 1) .. (n + s) /\ n + 1 \in ToSet(goal'[f].kids)
  <2>1. 1 \in 1 .. s /\ n + 1 \in (n + 1) .. (n + s)
    BY <1>2
  <2>2. goal'[f].kids[1] = n + 1 /\ 1 \in DOMAIN goal'[f].kids
    BY <1>2, <2>1
  <2>. QED
    BY <2>1, <2>2 DEF ToSet
<1>7. goal'[f].kids # <<>>
  <2>1. 1 \in DOMAIN goal'[f].kids
    BY <1>2
  <2>. QED
    BY <2>1
<1>8. RunningIsLeaf'
  <2>. SUFFICES ASSUME NEW h \in Goals', goal'[h].status = "running" PROVE goal'[h].kids = <<>>
    BY DEF RunningIsLeaf, IsLeaf, Kids
  <2>1. CASE h \in Goals
    <3>1. h # f
      BY <1>4, <2>1 DEF Open
    <3>. QED
      BY <1>1, <1>2, <2>1, <3>1 DEF RunningIsLeaf, IsLeaf, Kids
  <2>. QED
    BY <1>2, <1>3, <2>1
<1>9. ParentsFollowChildren'
  <2>. SUFFICES ASSUME NEW h \in Goals', goal'[h].kids # <<>>
                PROVE  goal'[h].status = "done" <=> \A k \in ToSet(goal'[h].kids) : goal'[k].status = "done"
    BY DEF ParentsFollowChildren, IsLeaf, Kids, Done
  <2>1. h \in Goals
    BY <1>2, <1>3
  <2>2. CASE h = f
    <3>1. goal'[f].status # "done" /\ goal'[n + 1].status # "done"
      BY <1>2, <1>6 DEF Open
    <3>. QED
      BY <1>6, <2>2, <3>1
  <2>3. CASE h # f
    <3>1. goal'[h] = goal[h]
      BY <1>2, <2>1, <2>3
    <3>2. \A k \in ToSet(Kids(h)) : k \in Goals
      BY <1>1, <2>1, KidsTyped DEF ToSet
    <3>3. Done(h) <=> \A k \in ToSet(Kids(h)) : Done(k)
      BY <1>1, <2>1, <3>1 DEF ParentsFollowChildren, IsLeaf, Kids
    <3>. QED
      BY <1>4, <2>1, <3>1, <3>2, <3>3 DEF Done, Kids
  <2>. QED
    BY <2>2, <2>3
<1>10. Orderly(f)
  <2>1. Extends(f)
    BY <1>1, ExtendsWhen
  <2>2. ~Done(f)
    BY DEF Open, Done
  <2>3. ASSUME NEW h \in Goals', goal'[h].kids = <<>>, goal'[h].status # "open"
        PROVE  h \in Goals /\ IsLeaf(h) /\ ~Open(h)
    <3>1. h \in Goals /\ h # f
      BY <1>2, <1>3, <1>7, <2>3
    <3>. QED
      BY <1>2, <2>3, <3>1 DEF IsLeaf, Kids, Open
  <2>. QED
    BY <1>2, <1>5, <2>1, <2>2, <2>3 DEF Orderly
<1>11. LocallyInOrder'
  BY <1>1, <1>10, OrderAfter
<1>. QED
  BY <1>5, <1>8, <1>9, <1>11 DEF Plan

----------------------------------------------------------------------------
\* One device: requests and answers

\* One device, whose background requests come in by the same port, and nobody
\* opens a finished journal step again.
SingleDevice == SinglePort /\ (\A c, d \in Client : c = d) /\ ~MayReopen

Keeps(w, goals, sents) ==
    /\ w.op = "reshape" => goals[w.at].status = "running"
    /\ w.op = "create" \/ (w.thinking /\ w.op # "reshape") => goals[w.at].status = "open"
    /\ w.op \in {"create", "start", "reshape"} =>
          w.who \in Client /\ \A c \in Client : sents[c] = NoRequest

LEMMA LeavesKeptWhen ==
    /\ (\A p \in Port : Keeps(work[p], goal, sent)) <=> LeavesKept
    /\ (\A p \in Port : Keeps(work'[p], goal', sent')) <=> LeavesKept'
<1>1. (\A p \in Port : Keeps(work[p], goal, sent)) <=> LeavesKept
  BY DEF Keeps, LeavesKept, Open
<1>2. (\A p \in Port : Keeps(work'[p], goal', sent')) <=> LeavesKept'
  BY DEF Keeps, LeavesKept, Open
<1>. QED
  BY <1>1, <1>2

LEMMA IdleKeeps == ASSUME NEW goals, NEW sents PROVE Keeps(NoWork, goals, sents)
  BY DEF Keeps, NoWork

LEMMA LeavesKeptAfter ==
    ASSUME TypeOK, SinglePort
    PROVE  /\ \A p \in Port : Work(p, NoWork) => LeavesKept'
           /\ Idle /\ UNCHANGED work => LeavesKept'
           /\ \A p \in Port : \A w : Work(p, w) /\ Keeps(w, goal', sent') => LeavesKept'
<1>1. ASSUME NEW p \in Port, NEW w, Work(p, w), Keeps(w, goal', sent') PROVE LeavesKept'
  <2>1. \A q \in Port : work'[q] = w
    BY <1>1, OnlyWork
  <2>. QED
    BY <1>1, <2>1, LeavesKeptWhen
<1>2. ASSUME NEW p \in Port, Work(p, NoWork) PROVE LeavesKept'
  BY <1>1, <1>2, IdleKeeps
<1>3. ASSUME Idle, UNCHANGED work PROVE LeavesKept'
  BY <1>3, IdleKeeps, LeavesKeptWhen DEF Idle
<1>. QED
  BY <1>1, <1>2, <1>3

\* A device that is served waits for nothing else.
LEMMA Served ==
    ASSUME TypeOK, SingleDevice, NEW c \in Client, NEW op, Take(c, op)
    PROVE  Idle /\ (\A d \in Client : sent'[d] = NoRequest) /\ ScreensTrue'
<1>1. Idle
  BY IdleThen DEF SingleDevice
<1>2. \A d \in Client : sent'[d] = NoRequest
  BY DEF SingleDevice, Take, TypeOK
<1>3. ScreensTrue'
  BY <1>2 DEF ScreensTrue, NoRequest
<1>. QED
  BY <1>1, <1>2, <1>3

LEMMA ScreensKept ==
    ASSUME Referenced, ScreensTrue, UNCHANGED sent,
           \/ \A h \in Goals : goal'[h].status = goal[h].status
           \/ \A c \in Client : sent[c] = NoRequest
    PROVE  ScreensTrue'
<1>1. CASE \A c \in Client : sent[c] = NoRequest
  BY <1>1 DEF ScreensTrue, NoRequest
<1>2. CASE \A h \in Goals : goal'[h].status = goal[h].status
  <2>. SUFFICES ASSUME NEW c \in Client
                PROVE  /\ sent[c].op \in {"end", "extend", "reshape"} => goal'[sent[c].goal].status = "running"
                       /\ sent[c].op = "cancel" => goal'[sent[c].goal].status # "done"
    BY DEF ScreensTrue, Done
  <2>1. sent[c].op \in {"end", "extend", "reshape", "cancel"} => sent[c].goal \in Goals
    BY DEF Referenced
  <2>. QED
    BY <1>2, <2>1 DEF ScreensTrue, Done
<1>. QED
  BY <1>1, <1>2

LEMMA DAsk == ASSUME GInv, DInv, SingleDevice, NEW c \in Client, Ask(c) PROVE DInv' /\ Finished
<1>1. /\ TypeOK /\ Referenced /\ Plan /\ LeavesKept /\ ScreensTrue /\ AssertionsHold
      /\ UNCHANGED <<up, goal, work>> /\ ~Waiting(c)
  BY DEF GInv, DInv, Plan, Ask
<1>2. Plan' /\ Finished
  BY <1>1, PlanSame
<1>3. LeavesKept'
  <2>. SUFFICES ASSUME NEW p \in Port PROVE Keeps(work[p], goal, sent')
    BY <1>1, LeavesKeptWhen
  <2>1. Keeps(work[p], goal, sent)
    BY <1>1, LeavesKeptWhen
  <2>2. work[p].op \in {"create", "start", "reshape"} => work[p].who = c
    BY <2>1 DEF Keeps, SingleDevice
  <2>3. work[p].who # c
    BY <1>1 DEF Waiting
  <2>. QED
    BY <2>1, <2>2, <2>3 DEF Keeps
<1>4. ScreensTrue'
  <2>0. sent \in [Client -> Requests(Len(goal))] /\ \A d \in Client : d = c
    BY <1>1 DEF TypeOK, SingleDevice
  <2>1. CASE sent' = [sent EXCEPT ![c] = [op |-> "create", goal |-> NoGoal]]
    <3>1. \A d \in Client : sent'[d].op = "create"
      BY <2>0, <2>1
    <3>. QED
      BY <3>1 DEF ScreensTrue
  <2>2. ASSUME NEW g \in Goals, NEW op \in Offered(g), sent' = [sent EXCEPT ![c] = [op |-> op, goal |-> g]]
        PROVE  ScreensTrue'
    <3>1. \A d \in Client : sent'[d].op = op /\ sent'[d].goal = g
      BY <2>0, <2>2
    <3>2. /\ op \in {"end", "extend", "reshape"} => goal[g].status = "running"
          /\ op = "cancel" => goal[g].status = "running" \/ ~Done(g)
      BY DEF Offered, SingleDevice
    <3>3. \A d \in Client :
             /\ sent'[d].op \in {"end", "extend", "reshape"} => goal'[g].status = "running"
             /\ sent'[d].op = "cancel" => goal'[g].status # "done"
      BY <1>1, <3>1, <3>2 DEF Done
    <3>. QED
      BY <3>1, <3>3 DEF ScreensTrue, Done
  <2>. QED
    BY <2>1, <2>2 DEF Ask
<1>. QED
  BY <1>1, <1>2, <1>3, <1>4 DEF DInv, Plan, AssertionsHold

LEMMA DClient ==
    ASSUME GInv, DInv, GInv', SingleDevice, NEW c \in Client,
           \/ handle_post_goal_create(c) \/ handle_post_goal_start(c) \/ handle_post_goal_end(c)
           \/ handle_post_goal_extend(c) \/ handle_post_goal_reshape(c)
           \/ handle_post_goal_cancel(c) \/ handle_post_goal_drop(c)
    PROVE  DInv' /\ Finished
<1>1. /\ TypeOK /\ KidsLater /\ ParentsEarlier /\ Referenced /\ Plan /\ LeavesKept /\ ScreensTrue
      /\ AssertionsHold /\ SinglePort /\ PortOf[c] \in Port
  BY ClientsAssumption DEF GInv, DInv, Plan, SingleDevice
<1>2. ASSUME NEW op, Take(c, op), Plan' /\ Finished, LeavesKept', up' = up PROVE DInv' /\ Finished
  <2>1. ScreensTrue'
    BY <1>1, <1>2, Served
  <2>. QED
    BY <1>1, <1>2, <2>1 DEF DInv, Plan, AssertionsHold
<1>3. CASE handle_post_goal_create(c)
  <2>1. Take(c, "create") /\ up' = up
    BY <1>3 DEF handle_post_goal_create
  <2>2. Planted(Len(goal))
    BY <1>3, GCreate
  <2>3. PICK w : /\ Work(PortOf[c], w) /\ w.op = "create" /\ w.who = c /\ w.at = Len(goal) + 1 /\ ~w.thinking
    BY <1>3, CreateGives
  <2>4. Keeps(w, goal', sent')
    BY <1>1, <2>1, <2>2, <2>3, Served DEF Keeps, Planted
  <2>5. LeavesKept'
    BY <1>1, <2>3, <2>4, LeavesKeptAfter
  <2>6. Plan' /\ Finished
    BY <1>1, <2>2, PlanPlanted
  <2>. QED
    BY <1>2, <2>1, <2>5, <2>6
<1>4. CASE handle_post_goal_start(c)
  <2>1. Take(c, "start") /\ up' = up /\ UNCHANGED goal
    BY <1>4 DEF handle_post_goal_start
  <2>2. PICK w : Work(PortOf[c], w) /\ w.op = "start" /\ w.who = c /\ ~w.thinking
    BY <1>4, StartGives
  <2>3. Keeps(w, goal', sent')
    BY <1>1, <2>1, <2>2, Served DEF Keeps
  <2>4. LeavesKept'
    BY <1>1, <2>2, <2>3, LeavesKeptAfter
  <2>5. Plan' /\ Finished
    BY <1>1, <2>1, PlanSame
  <2>. QED
    BY <1>2, <2>1, <2>4, <2>5
<1>5. CASE handle_post_goal_reshape(c)
  <2>1. Take(c, "reshape") /\ up' = up /\ UNCHANGED goal
    BY <1>5 DEF handle_post_goal_reshape
  <2>2. goal[sent[c].goal].status = "running"
    BY <1>1, <2>1 DEF ScreensTrue, Take
  <2>3. LeavesKept'
    <3>1. CASE UNCHANGED work
      BY <1>1, <2>1, <3>1, Served, LeavesKeptAfter
    <3>2. ASSUME NEW w, Work(PortOf[c], w), w.op = "reshape", w.who = c, w.at = sent[c].goal
          PROVE  LeavesKept'
      <4>1. Keeps(w, goal', sent')
        BY <1>1, <2>1, <2>2, <3>2, Served DEF Keeps
      <4>. QED
        BY <1>1, <3>2, <4>1, LeavesKeptAfter
    <3>. QED
      BY <1>5, <3>1, <3>2, ReshapeGives
  <2>4. Plan' /\ Finished
    BY <1>1, <2>1, PlanSame
  <2>. QED
    BY <1>2, <2>1, <2>3, <2>4
<1>6. CASE handle_post_goal_end(c)
  <2>. DEFINE g == sent[c].goal
  <2>1. /\ Take(c, "end") /\ UNCHANGED work
        /\ \/ UNCHANGED <<up, goal>>
           \/ goal[g].status = "running" /\ goal' = EndGoal(g) /\ UNCHANGED up
           \/ goal[g].status = "running" /\ ~Endable(g)
    BY <1>6 DEF handle_post_goal_end
  <2>2. g \in Goals
    BY <1>1, <2>1 DEF Take, Referenced
  <2>3. LeavesKept'
    BY <1>1, <2>1, Served, LeavesKeptAfter
  <2>. HIDE DEF g
  <2>4. CASE UNCHANGED <<up, goal>>
    <3>1. Plan' /\ Finished
      BY <1>1, <2>4, PlanSame
    <3>. QED
      BY <1>2, <2>1, <2>3, <2>4, <3>1
  <2>5. CASE goal[g].status = "running" /\ goal' = EndGoal(g) /\ UNCHANGED up
    <3>1. Plan' /\ Finished
      BY <1>1, <2>2, <2>5, PlanEnd
    <3>. QED
      BY <1>2, <2>1, <2>3, <2>5, <3>1
  <2>6. CASE goal[g].status = "running" /\ ~Endable(g)
    <3>1. IsLeaf(g) /\ ~Open(g)
      BY <1>1, <2>2, <2>6 DEF Plan, RunningIsLeaf, Open
    <3>2. \A l \in Earlier(g) : Done(l)
      BY <1>1, <2>2, <3>1, InOrder DEF Plan, InSequence
    <3>3. \A k \in ToSet(Kids(g)) : Done(k)
      BY <3>1 DEF IsLeaf, ToSet
    <3>. QED
      BY <2>6, <3>2, <3>3 DEF Endable
  <2>. QED
    BY <2>1, <2>4, <2>5, <2>6
<1>7. CASE handle_post_goal_extend(c)
  <2>1. Take(c, "extend") /\ up' = up /\ UNCHANGED work
    BY <1>7 DEF handle_post_goal_extend
  <2>2. LeavesKept'
    BY <1>1, <2>1, Served, LeavesKeptAfter
  <2>3. Plan' /\ Finished
    BY <1>1, <1>7, GExtend, PlanSame, PlanSet
  <2>. QED
    BY <1>2, <2>1, <2>2, <2>3
<1>8. CASE handle_post_goal_cancel(c)
  <2>1. Take(c, "cancel") /\ up' = up /\ UNCHANGED work
    BY <1>8 DEF handle_post_goal_cancel
  <2>2. LeavesKept'
    BY <1>1, <2>1, Served, LeavesKeptAfter
  <2>3. ~Done(sent[c].goal)
    BY <1>1, <2>1 DEF ScreensTrue, Take
  <2>4. Plan' /\ Finished
    BY <1>1, <1>8, <2>3, GCancel, PlanSet
  <2>. QED
    BY <1>2, <2>1, <2>2, <2>4
<1>9. CASE handle_post_goal_drop(c)
  <2>1. Take(c, "drop") /\ up' = up /\ UNCHANGED work
    BY <1>9 DEF handle_post_goal_drop
  <2>2. LeavesKept'
    BY <1>1, <2>1, Served, LeavesKeptAfter
  <2>3. Plan' /\ Finished
    BY <1>1, <1>9, GDrop, PlanDrop
  <2>. QED
    BY <1>2, <2>1, <2>2, <2>3
<1>. QED
  BY <1>3, <1>4, <1>5, <1>6, <1>7, <1>8, <1>9

LEMMA DPort ==
    ASSUME GInv, PInv, DInv, GInv', SingleDevice, NEW p \in Port,
           \/ handle_get_session_goals(p) \/ first_unstarted_leaf(p) \/ StartGoalDeepFromGoal(p)
           \/ ComputePartialDecomposition(p) \/ DecomposeGoal(p) \/ reshape_goal_leaf(p)
    PROVE  DInv' /\ Finished
<1>1. /\ TypeOK /\ KidsLater /\ ParentsEarlier /\ Referenced /\ Plan /\ LeavesKept /\ ScreensTrue
      /\ AssertionsHold /\ SinglePort /\ HandlersKnow
  BY DEF GInv, PInv, DInv, Plan, SingleDevice
<1>2. UNCHANGED <<up, sent>>
  BY DEF handle_get_session_goals, first_unstarted_leaf, StartGoalDeepFromGoal,
         ComputePartialDecomposition, DecomposeGoal, reshape_goal_leaf
<1>3. ASSUME Plan' /\ Finished, LeavesKept', ScreensTrue' PROVE DInv' /\ Finished
  BY <1>1, <1>2, <1>3 DEF DInv, Plan, AssertionsHold
<1>4. Keeps(work[p], goal, sent)
  BY <1>1, LeavesKeptWhen
<1>5. ASSUME UNCHANGED goal PROVE Plan' /\ Finished /\ ScreensTrue'
  BY <1>1, <1>2, <1>5, PlanSame, ScreensKept
<1>6. CASE handle_get_session_goals(p)
  <2>1. UNCHANGED goal
    BY <1>6 DEF handle_get_session_goals
  <2>2. PICK w : Work(p, w) /\ w.op = "session" /\ ~w.thinking
    BY <1>6, SessionGives
  <2>3. Keeps(w, goal', sent')
    BY <2>2 DEF Keeps
  <2>. QED
    BY <1>1, <1>3, <1>5, <2>1, <2>2, <2>3, LeavesKeptAfter
<1>7. CASE first_unstarted_leaf(p)
  <2>1. UNCHANGED goal
    BY <1>7 DEF first_unstarted_leaf
  <2>2. PICK w : \E f \in Goals :
                    /\ Work(p, w) /\ w.op = work[p].op /\ w.who = work[p].who
                    /\ w.at = f /\ Open(f) /\ w.op \in {"start", "session"}
    BY <1>7, GoesOn
  <2>3. Keeps(w, goal', sent')
    BY <1>2, <1>4, <2>1, <2>2 DEF Keeps, Open
  <2>. QED
    BY <1>1, <1>3, <1>5, <2>1, <2>2, <2>3, LeavesKeptAfter
<1>8. CASE StartGoalDeepFromGoal(p)
  <2>1. Work(p, NoWork)
    BY <1>8 DEF StartGoalDeepFromGoal
  <2>2. LeavesKept'
    BY <1>1, <2>1, LeavesKeptAfter
  <2>3. CASE UNCHANGED goal
    BY <1>3, <1>5, <2>2, <2>3
  <2>4. ASSUME work[p].op = "start", NEW l \in Goals, can_start_leaf(l), SetTo(l, "running")
        PROVE  DInv' /\ Finished
    <3>1. \A c \in Client : sent[c] = NoRequest
      BY <1>4, <2>4 DEF Keeps
    <3>2. ScreensTrue'
      BY <1>1, <1>2, <3>1, ScreensKept
    <3>3. Plan' /\ Finished
      BY <1>1, <2>4, PlanSet
    <3>. QED
      BY <1>3, <2>2, <3>2, <3>3
  <2>. QED
    BY <1>8, <2>3, <2>4, GStarted
<1>9. CASE ComputePartialDecomposition(p)
  <2>1. UNCHANGED goal
    BY <1>9 DEF ComputePartialDecomposition
  <2>2. /\ work[p].op = "create"
        /\ \/ Work(p, NoWork) \/ ~IsLeaf(work[p].at)
           \/ \E w : /\ Work(p, w) /\ w.op = "create" /\ w.who = work[p].who
                     /\ w.at = work[p].at /\ w.thinking = TRUE
    BY <1>9, GoesOn
  <2>3. IsLeaf(work[p].at)
    BY <1>1, <2>2 DEF HandlersKnow
  <2>4. LeavesKept'
    <3>1. CASE Work(p, NoWork)
      BY <1>1, <3>1, LeavesKeptAfter
    <3>2. ASSUME NEW w, Work(p, w), w.op = "create", w.who = work[p].who, w.at = work[p].at
          PROVE  LeavesKept'
      <4>1. Keeps(w, goal', sent')
        BY <1>2, <1>4, <2>1, <2>2, <3>2 DEF Keeps
      <4>. QED
        BY <1>1, <3>2, <4>1, LeavesKeptAfter
    <3>. QED
      BY <2>2, <2>3, <3>1, <3>2
  <2>. QED
    BY <1>3, <1>5, <2>1, <2>4
<1>10. CASE DecomposeGoal(p)
  <2>. DEFINE f == work[p].at
  <2>1. PICK n, s \in Nat : Grows(n, s, f) /\ n = Len(goal)
    BY <1>10, DecomposeGrows
  <2>2. IsLeaf(f) /\ Open(f)
    BY <1>1, <1>4, <1>10 DEF HandlersKnow, DecomposeGoal, Keeps, Open
  <2>. HIDE DEF f
  <2>3. Plan' /\ Finished
    BY <1>1, <2>1, <2>2, PlanGrows
  <2>4. /\ \A h \in Goals : goal'[h].status = goal[h].status
        /\ goal'[n + 1].status = "open"
    <3>1. /\ n \in Nat /\ s \in Nat /\ s >= 2 /\ \A h \in (n + 1) .. (n + s) : goal'[h].status = "open"
          /\ \A h \in Goals : h # f => goal'[h] = goal[h]
          /\ goal'[f].status = goal[f].status
      BY <2>1 DEF Grows
    <3>2. n + 1 \in (n + 1) .. (n + s)
      BY <3>1
    <3>. QED
      BY <3>1, <3>2
  <2>5. ScreensTrue'
    BY <1>1, <1>2, <2>4, ScreensKept
  <2>6. LeavesKept'
    <3>1. CASE Work(p, NoWork)
      BY <1>1, <3>1, LeavesKeptAfter
    <3>2. ASSUME NEW w, Work(p, w), w.op = work[p].op, w.who = work[p].who, w.thinking = FALSE,
                 IF w.op = "create" THEN w.at = Len(goal) + 1 ELSE w.op \in {"start", "session"}
          PROVE  LeavesKept'
      <4>1. Keeps(w, goal', sent')
        BY <1>2, <1>4, <2>1, <2>4, <3>2 DEF Keeps
      <4>. QED
        BY <1>1, <3>2, <4>1, LeavesKeptAfter
    <3>. QED
      BY <1>10, <3>1, <3>2, GoesOn
  <2>. QED
    BY <1>3, <2>3, <2>5, <2>6
<1>11. CASE reshape_goal_leaf(p)
  <2>1. Work(p, NoWork) /\ work[p].op = "reshape"
    BY <1>11 DEF reshape_goal_leaf
  <2>2. LeavesKept'
    BY <1>1, <2>1, LeavesKeptAfter
  <2>3. (\A c \in Client : sent[c] = NoRequest) /\ ~Done(work[p].at)
    BY <1>4, <2>1 DEF Keeps, Done
  <2>4. ScreensTrue'
    BY <1>1, <1>2, <2>3, ScreensKept
  <2>5. Plan' /\ Finished
    BY <1>1, <1>11, <2>3, GReshaped, PlanSet
  <2>. QED
    BY <1>3, <2>2, <2>4, <2>5
<1>. QED
  BY <1>6, <1>7, <1>8, <1>9, <1>10, <1>11

LEMMA DInvStep == ASSUME SingleDevice, GInv, PInv, DInv, GInv', [Next]_vars PROVE DInv' /\ Finished
<1>1. CASE UNCHANGED vars
  <2>1. up' = up /\ goal' = goal /\ sent' = sent /\ work' = work
    BY <1>1 DEF vars
  <2>2. Plan /\ Referenced /\ LeavesKept /\ ScreensTrue /\ AssertionsHold
    BY DEF GInv, DInv, Plan
  <2>3. Plan' /\ Finished
    BY <2>1, <2>2, PlanSame
  <2>4. LeavesKept'
    BY <2>1, <2>2, LeavesKeptWhen
  <2>5. ScreensTrue'
    BY <2>1, <2>2, ScreensKept
  <2>. QED
    BY <2>1, <2>2, <2>3, <2>4, <2>5 DEF DInv, Plan, AssertionsHold
<1>2. CASE Next
  BY <1>2, DAsk, DClient, DPort DEF Next
<1>. QED
  BY <1>1, <1>2

LEMMA DInvHolds == ASSUME SingleDevice PROVE Spec => [](GInv /\ PInv /\ DInv)
<1>0. SinglePort
  BY DEF SingleDevice
<1>1. Init => DInv
  <2>. SUFFICES ASSUME Init PROVE DInv
    OBVIOUS
  <2>1. goal = <<>> /\ Goals = {} /\ up = TRUE /\ \A p \in Port : work[p] = NoWork
    BY DEF Init, Goals
  <2>2. \A c \in Client : sent[c] = NoRequest
    BY DEF Init
  <2>3. LeavesKept
    BY <2>1, IdleKeeps, LeavesKeptWhen
  <2>4. ScreensTrue
    BY <2>2 DEF ScreensTrue, NoRequest
  <2>. QED
    BY <2>1, <2>3, <2>4 DEF DInv, RunningIsLeaf, LocallyInOrder, ParentsFollowChildren, AssertionsHold
<1>2. GInv /\ PInv /\ DInv /\ GInv' /\ [Next]_vars => DInv'
  BY DInvStep
<1>3. Spec => [](GInv /\ PInv)
  BY <1>0, PInvHolds
<1>. QED
  BY <1>1, <1>2, <1>3, PTL DEF Spec

\* For one device the tree of goals holds together, whatever it asks for while
\* AI calls are under way (goal.c:380, :1881): every goal is a child of its
\* parent, and a goal with children is ended exactly when all of them are, over
\* ends that finish parents, drops, decompositions of an open leaf and leaves
\* that start afresh.
THEOREM PlansHold == ASSUME SingleDevice PROVE Spec => []PlanHolds
<1>1. GInv /\ PInv /\ DInv => PlanHolds
  BY DEF GInv, PInv, DInv, PlanHolds
<1>. QED
  BY <1>1, DInvHolds, PTL

\* For one device the timeline is worked in order: whatever has been started or
\* ended, all leaves before it are ended (goal.c:1998), so that no request to
\* end a goal reaches an assertion that ends the process (goal.c:2120).
THEOREM TimelineInOrder == ASSUME SingleDevice PROVE Spec => []WorkedInOrder
<1>1. GInv /\ DInv => WorkedInOrder
  BY InOrder DEF GInv, DInv, WorkedInOrder
<1>. QED
  BY <1>1, DInvHolds, PTL

\* For one device what is finished stays finished: a cancel or a reshape reopens
\* only a leaf that is not (goal-handlers.c:755, goal.c:87).
THEOREM FinishedForGood == ASSUME SingleDevice PROVE Spec => FinishedStaysFinished
<1>1. GInv /\ PInv /\ DInv /\ GInv' /\ [Next]_vars =>
         [\A g \in Goals : Done(g) => goal'[g].status = "done"]_vars
  BY DInvStep DEF Finished
<1>. QED
  BY <1>1, DInvHolds, PTL DEF Spec, FinishedStaysFinished

----------------------------------------------------------------------------
\* Always something next

\* The last leaf of what is finished is.
LEMMA LastDone ==
    TypeOK /\ KidsLater /\ ParentsFollowChildren => \A g \in Goals : Done(g) => Done(last_leaf(g))
<1>. SUFFICES ASSUME TypeOK, KidsLater, ParentsFollowChildren
              PROVE  \A g \in Goals : Done(g) => Done(last_leaf(g))
  OBVIOUS
<1>. DEFINE T == {h \in Goals : Done(h) => Done(last_leaf(h))}
            n == Len(goal)
<1>1. n \in Nat /\ Goals = 1 .. n
  BY GoalsTyped
<1>. HIDE DEF n
<1>2. ASSUME NEW h \in Goals, \A k \in Goals : k > h => k \in T PROVE h \in T
  <2>. SUFFICES ASSUME Done(h) PROVE Done(last_leaf(h))
    OBVIOUS
  <2>1. CASE IsLeaf(h)
    BY <2>1, LastLeafTurns
  <2>2. CASE ~IsLeaf(h)
    <3>. DEFINE k == Last(Kids(h))
    <3>1. k \in Goals /\ k > h /\ k = Kids(h)[Len(Kids(h))] /\ Len(Kids(h)) \in DOMAIN Kids(h)
      BY <2>2, LastKid, KidsTyped
    <3>2. Done(k)
      BY <2>2, <3>1 DEF ParentsFollowChildren, ToSet
    <3>3. Done(last_leaf(k))
      BY <1>2, <3>1, <3>2
    <3>. QED
      BY <2>2, <3>3, LastLeafTurns
  <2>. QED
    BY <2>1, <2>2
<1>. HIDE DEF T
<1>3. T = 1 .. n
  <2>1. T \in SUBSET (1 .. n)
    BY <1>1 DEF T
  <2>2. \A h \in 1 .. n : (\A k \in 1 .. n : k > h => k \in T) => h \in T
    BY <1>1, <1>2
  <2>. QED
    BY <1>1, <2>1, <2>2, Upwards
<1>. QED
  BY <1>1, <1>3 DEF T

\* In a tree in which nothing is being worked on, the search finds a leaf below
\* every goal that is not finished.
LEMMA SearchFinds ==
    TypeOK /\ KidsLater /\ ParentsEarlier /\ ParentsFollowChildren =>
        \A r : (\A l \in Goals : CalcGoalRoot(l) = r => goal[l].status # "running") =>
            \A g \in Goals : CalcGoalRoot(g) = r /\ ~Done(g) => FirstOpen(g) # NoGoal
<1>. SUFFICES ASSUME TypeOK, KidsLater, ParentsEarlier, ParentsFollowChildren, NEW r,
                     \A l \in Goals : CalcGoalRoot(l) = r => goal[l].status # "running"
              PROVE  \A g \in Goals : CalcGoalRoot(g) = r /\ ~Done(g) => FirstOpen(g) # NoGoal
  OBVIOUS
<1>. DEFINE T == {h \in Goals : CalcGoalRoot(h) = r /\ ~Done(h) => FirstOpen(h) # NoGoal}
            n == Len(goal)
<1>1. n \in Nat /\ Goals = 1 .. n /\ \A h \in Goals : goal[h] \in GoalRec(n)
  BY GoalsTyped
<1>. HIDE DEF n
<1>2. ASSUME NEW h \in Goals, \A k \in Goals : k > h => k \in T PROVE h \in T
  <2>. SUFFICES ASSUME CalcGoalRoot(h) = r, ~Done(h), FirstOpen(h) = NoGoal PROVE FALSE
    OBVIOUS
  <2>1. /\ ~(IsLeaf(h) /\ Open(h))
        /\ \A i \in 1 .. Len(Kids(h)) : FirstOpen(Kids(h)[i]) = NoGoal
    BY FirstOpenTurns, FieldsTyped
  <2>2. CASE IsLeaf(h)
    <3>1. goal[h].status \in {"open", "running", "done"}
      BY <1>1, Unwritten
    <3>. QED
      BY <2>1, <2>2, <3>1 DEF Open, Done
  <2>3. CASE ~IsLeaf(h)
    <3>1. PICK i \in 1 .. Len(Kids(h)) : ~Done(Kids(h)[i])
      BY <2>3, KidsTyped DEF ParentsFollowChildren, ToSet
    <3>2. Kids(h)[i] \in Goals /\ Kids(h)[i] > h /\ Parent(Kids(h)[i]) = h
      BY KidsTyped
    <3>3. CalcGoalRoot(Kids(h)[i]) = r
      BY <3>2, RootTurns, FieldsTyped
    <3>4. Kids(h)[i] \in T
      BY <1>2, <3>2
    <3>. QED
      BY <2>1, <3>1, <3>3, <3>4
  <2>. QED
    BY <2>2, <2>3
<1>. HIDE DEF T
<1>3. T = 1 .. n
  <2>1. T \in SUBSET (1 .. n)
    BY <1>1 DEF T
  <2>2. \A h \in 1 .. n : (\A k \in 1 .. n : k > h => k \in T) => h \in T
    BY <1>1, <1>2
  <2>. QED
    BY <1>1, <2>1, <2>2, Upwards
<1>. QED
  BY <1>1, <1>3 DEF T

\* What it finds comes right after what is finished below the goal, or right
\* after what comes before the goal.
LEMMA SearchInOrder ==
    TypeOK /\ KidsLater /\ ParentsEarlier /\ ParentsFollowChildren =>
        \A r : (\A l \in Goals : CalcGoalRoot(l) = r => goal[l].status # "running") =>
            \A g \in Goals : CalcGoalRoot(g) = r /\ FirstOpen(g) # NoGoal =>
                LET l == FirstOpen(g)
                IN  Befores[l] = Befores[g] \/ Done(Befores[l])
<1>. DEFINE Good(g) == LET l == FirstOpen(g)
                       IN  Befores[l] = Befores[g] \/ Done(Befores[l])
<1>. SUFFICES ASSUME TypeOK, KidsLater, ParentsEarlier, ParentsFollowChildren, NEW r,
                     \A l \in Goals : CalcGoalRoot(l) = r => goal[l].status # "running"
              PROVE  \A g \in Goals : CalcGoalRoot(g) = r /\ FirstOpen(g) # NoGoal => Good(g)
  OBVIOUS
<1>. DEFINE T == {h \in Goals : CalcGoalRoot(h) = r /\ FirstOpen(h) # NoGoal => Good(h)}
            n == Len(goal)
<1>1. n \in Nat /\ Goals = 1 .. n
  BY GoalsTyped
<1>. HIDE DEF n
<1>2. ASSUME NEW h \in Goals, \A k \in Goals : k > h => k \in T PROVE h \in T
  <2>. SUFFICES ASSUME CalcGoalRoot(h) = r, FirstOpen(h) # NoGoal PROVE Good(h)
    OBVIOUS
  <2>1. CASE FirstOpen(h) = h
    BY <2>1
  <2>2. ASSUME NEW i \in 1 .. Len(Kids(h)), FirstOpen(h) = FirstOpen(Kids(h)[i]),
               \A j \in 1 .. Len(Kids(h)) : j < i => FirstOpen(Kids(h)[j]) = NoGoal
        PROVE  Good(h)
    <3>. DEFINE k == Kids(h)[i]
    <3>1. /\ k \in Goals /\ k > h /\ Parent(k) = h /\ h # NoGoal
          /\ goal[k].prev = IF i = 1 THEN NoGoal ELSE Kids(h)[i - 1]
      BY KidsTyped, FieldsTyped
    <3>2. CalcGoalRoot(k) = r
      BY <3>1, RootTurns
    <3>3. Good(k)
      BY <1>2, <2>2, <3>1, <3>2
    <3>4. Befores[k] = Befores[h] \/ Done(Befores[k])
      <4>1. CASE i = 1
        <5>1. Befores[k] = Befores[h]
          BY <3>1, <4>1, Walks DEF WalksTurn, Parent
        <5>. QED
          BY <5>1
      <4>2. CASE i # 1
        <5>. DEFINE j == Kids(h)[i - 1]
        <5>1. Len(Kids(h)) \in Nat
          BY KidsTyped
        <5>2. i - 1 \in 1 .. Len(Kids(h)) /\ i - 1 < i
          BY <4>2, <5>1
        <5>3. j \in Goals /\ Parent(j) = h /\ FirstOpen(j) = NoGoal
          BY <2>2, <5>2, KidsTyped
        <5>4. CalcGoalRoot(j) = r
          BY <3>1, <5>3, RootTurns
        <5>5. Done(j)
          BY <5>3, <5>4, SearchFinds
        <5>6. Done(last_leaf(j)) /\ Lasts[j] = last_leaf(j)
          BY <5>3, <5>5, LastDone DEF Lasts
        <5>7. goal[k].prev = j /\ j # NoGoal
          BY <3>1, <4>2, <5>3, FieldsTyped
        <5>8. Befores[k] = Lasts[j]
          BY <3>1, <5>7, Walks DEF WalksTurn
        <5>. QED
          BY <5>6, <5>8
      <4>. QED
        BY <4>1, <4>2
    <3>. HIDE DEF k
    <3>5. FirstOpen(h) = FirstOpen(k)
      BY <2>2 DEF k
    <3>. QED
      BY <3>3, <3>4, <3>5
  <2>. HIDE DEF Good
  <2>. QED
    BY <2>1, <2>2, FirstOpenTurns
<1>. HIDE DEF T
<1>3. T = 1 .. n
  <2>1. T \in SUBSET (1 .. n)
    BY <1>1 DEF T
  <2>2. \A h \in 1 .. n : (\A k \in 1 .. n : k > h => k \in T) => h \in T
    BY <1>1, <1>2
  <2>. QED
    BY <1>1, <2>1, <2>2, Upwards
<1>. QED
  BY <1>1, <1>3 DEF T

LEMMA SomethingNext ==
    TypeOK /\ KidsLater /\ ParentsEarlier /\ ParentsFollowChildren /\ LocallyInOrder => AlwaysSomethingNext
<1>. SUFFICES ASSUME TypeOK, KidsLater, ParentsEarlier, ParentsFollowChildren, LocallyInOrder,
                     NEW r \in Roots, ~Done(r),
                     \A l \in Goals : CalcGoalRoot(l) = r => goal[l].status # "running"
              PROVE  can_start_leaf(FirstOpen(r))
  BY DEF AlwaysSomethingNext
<1>. DEFINE f == FirstOpen(r)
<1>1. r \in Goals /\ Parent(r) = NoGoal /\ goal[r].prev = NoGoal
  BY DEF Roots, ParentsEarlier
<1>2. CalcGoalRoot(r) = r
  BY <1>1, RootTurns
<1>3. f # NoGoal
  BY <1>1, <1>2, SearchFinds
<1>4. f \in Goals /\ IsLeaf(f) /\ Open(f)
  BY <1>1, <1>3, FirstOpenLeaf
<1>5. Befores[r] = NoGoal
  BY <1>1, Walks DEF WalksTurn, Parent
<1>6. Befores[f] = NoGoal \/ Done(Befores[f])
  BY <1>1, <1>2, <1>3, <1>5, SearchInOrder
<1>7. \A l \in Earlier(f) : Done(l)
  <2>. DEFINE T == {h \in Goals : IsLeaf(h) /\ Done(h)}
  <2>. HIDE DEF f
  <2>1. previous_timeline_leaf(f) \in T \cup {NoGoal}
    BY <1>4, <1>6, BeforesAre
  <2>2. \A h \in T : previous_timeline_leaf(h) \in T \cup {NoGoal}
    BY BeforesAre DEF LocallyInOrder, Done, Open
  <2>3. T \in SUBSET Goals
    OBVIOUS
  <2>. HIDE DEF T
  <2>4. Earlier(f) \subseteq T
    BY <1>4, <2>1, <2>2, <2>3, EarlierWalk
  <2>. QED
    BY <2>4 DEF T
<1>. QED
  BY <1>3, <1>4, <1>7 DEF can_start_leaf, IsLeaf

\* For one device there is always something to work on in a tree that is not
\* finished: a leaf that was started, or the one the search finds, which may be
\* started as all before it are ended (goal.c:1975, :1998).
THEOREM NeverStuck == ASSUME SingleDevice PROVE Spec => []AlwaysSomethingNext
<1>1. GInv /\ DInv => AlwaysSomethingNext
  BY SomethingNext DEF GInv, DInv
<1>. QED
  BY <1>1, DInvHolds, PTL

=============================================================================
