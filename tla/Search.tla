------------------------------- MODULE Search -------------------------------
(****************************************************************************)
(* The selections of ne/search/search.c, as functions of the strengths they *)
(* are given: the top per cent of an array by a quickselect in place, and   *)
(* the family of a node by a descent that follows the strongest connections *)
(* of every node. Strengths are numbers; arrays begin at 1.                 *)
(****************************************************************************)
EXTENDS Integers, Sequences, FiniteSets, SequencesExt

swap_double(arr, a, b) == [arr EXCEPT ![a] = arr[b], ![b] = arr[a]]

\* What is stronger than the pivot goes before the place where the pivot ends.
partition_desc(arr, left, right) ==
    LET step(s, i) == IF s.arr[i] > arr[right]
                      THEN [arr |-> swap_double(s.arr, i, s.store), store |-> s.store + 1] ELSE s
        done == FoldLeft(step, [arr |-> arr, store |-> left], [i \in 1..(right - left) |-> left + i - 1])
    IN  [done EXCEPT !.arr = swap_double(@, done.store, right)]

quickselect_desc(arr, k) ==
    LET Span == [arr : Seq(Int), left : Int, right : Int]
        select[s \in Span] ==
            LET p == partition_desc(s.arr, s.left, s.right) IN
            IF s.left > s.right THEN s.arr[k]
            ELSE IF p.store = k THEN p.arr[k]
            ELSE IF k < p.store THEN select[[s EXCEPT !.arr = p.arr, !.right = p.store - 1]]
            ELSE select[[s EXCEPT !.arr = p.arr, !.left = p.store + 1]]
    IN  select[[arr |-> arr, left |-> 1, right |-> Len(arr)]]

top_count_percent(total, percent) == (total * percent + 99) \div 100

clamp_percent(p) == IF p < 0 THEN 0 ELSE IF p > 100 THEN 100 ELSE p

\* The places of what is as strong as the last of the top, nothing when the
\* top is empty.
FilterTopPercent(values, percentage) ==
    LET top == top_count_percent(Len(values), clamp_percent(percentage))
        threshold == quickselect_desc(values, top)
    IN  IF top <= 0 THEN {} ELSE {i \in DOMAIN values : values[i] >= threshold}

\* nbrs[n]: the connections of node n, as the nodes they lead to; act and wgt:
\* their strengths. The root is not entered a second time.
\* (fault: one level too many)
recursive_step_Deep(nbrs, act, wgt, pA, pW, node, depth, root) ==
    LET strong(n) == FilterTopPercent(act[n], pA) \cap FilterTopPercent(wgt[n], pW)
        step[n \in DOMAIN nbrs, d \in Nat] ==
            IF d = 0 THEN {n}
            ELSE IF strong(n) = {} THEN {}
            ELSE {n} \cup UNION {step[nbrs[n][i], d - 1] : i \in strong(n)}
    IN  step[node, depth]
recursive_step(nbrs, act, wgt, pA, pW, node, depth, root) ==
    LET strong(n) == FilterTopPercent(act[n], pA) \cap FilterTopPercent(wgt[n], pW)
        none(n) == \/ top_count_percent(Len(nbrs[n]), clamp_percent(pA)) = 0
                   \/ top_count_percent(Len(nbrs[n]), clamp_percent(pW)) = 0
        step[n \in DOMAIN nbrs, d \in Nat] ==
            IF d = 0 THEN {}
            ELSE IF d = 1 THEN {n}
            ELSE IF none(n) THEN {}
            ELSE {n} \cup UNION {step[nbrs[n][i], d - 1] : i \in {j \in strong(n) : nbrs[n][j] # root}}
    IN  step[node, depth]

\* What ComputeNodeFamily writes down, as the set of the nodes it names.
ComputeNodeFamily(nbrs, act, wgt, pA, pW, node, depth, MAX_FAMILY_DEPTH) ==
    recursive_step(nbrs, act, wgt, pA, pW, node,
                   IF depth > MAX_FAMILY_DEPTH THEN MAX_FAMILY_DEPTH ELSE depth, node)
=============================================================================
