----------------------- MODULE MCIncrementalBalanced -----------------------
(***************************************************************************)
(* The tree on symbolic values: a value is the range of leaves it covers   *)
(* and the set of splits that built it, so two values are equal exactly    *)
(* when they group the same leaves the same way.                           *)
(***************************************************************************)
EXTENDS IncrementalBalanced, FiniteSets

CONSTANT MaxTotal

MCTotals == 1 .. MaxTotal

MCLeaf(i) == [first |-> i, last |-> i, splits |-> {}]

MCCombine(l, r) ==
    [first |-> l.first, last |-> r.last,
     splits |-> l.splits \cup r.splits
                  \cup {<<l.first, l.last, r.first, r.last>>}]

----------------------------------------------------------------------------

(* The ranges of leaves that balancedReduce (src/helpers.go) splits at     *)
(* their middle.                                                           *)
Ranges == {n \in Nat \X Nat : n[1] <= n[2]}

Middle(n) == (n[1] + n[2]) \div 2
LeftHalf(n) == <<n[1], Middle(n)>>
RightHalf(n) == <<Middle(n) + 1, n[2]>>
Halves(n) == IF n[1] = n[2] THEN {} ELSE {LeftHalf(n), RightHalf(n)}

(* reduceRange of balancedReduce.                                          *)
reduceRange[n \in Ranges] ==
    IF n[1] = n[2] THEN Leaf(n[1])
    ELSE Combine(reduceRange[LeftHalf(n)], reduceRange[RightHalf(n)])

(* The nodes of the midpoint tree over so many leaves, level by level.     *)
Nodes(size) ==
    LET level[d \in Nat] ==
            IF d = 0 THEN {<<0, size - 1>>} ELSE UNION {Halves(n) : n \in level[d - 1]}
    IN  UNION {level[d] : d \in 0 .. size - 1}

(* The nodes whose leaves have all arrived and whose parent's have not.    *)
MaximalComplete ==
    LET complete == {n \in Nodes(total) : n[2] < received}
    IN  {n \in complete : \A m \in complete : m[1] <= n[1] /\ n[2] <= m[2] => m = n}

UpTo(n) == {m \in MaximalComplete : m[1] <= n[1]}

TwoTo[e \in Nat] == IF e = 0 THEN 1 ELSE 2 * TwoTo[e - 1]

(* Between two pushes the frontier is exactly the maximal completed        *)
(* subtrees of the batch tree, in order and each grouped as balancedReduce *)
(* groups it: no node is merged early, late, twice or with the wrong       *)
(* sibling, also when the period count is no power of two.  Their number   *)
(* stays below the logarithm of the leaves (at most bits.Len(total)), also *)
(* while a push is still owed its merges.                                  *)
FrontierIsMaximalComplete ==
    /\ TreeTypeOK
    /\ frontier = <<>> \/ TwoTo[Len(frontier) - 1] <= total
    /\ pc = "idle" =>
        /\ Len(frontier) = Cardinality(MaximalComplete)
        /\ \A n \in MaximalComplete : frontier[Cardinality(UpTo(n))] = reduceRange[n]

(* Every tree is completed: the merges a push owes never run out of        *)
(* subtrees, and the last push leaves the whole batch result.              *)
EventuallyTheBatchResult == <>(ResultReady /\ Result = reduceRange[<<0, total - 1>>])
=============================================================================
