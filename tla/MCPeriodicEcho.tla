--------------------------- MODULE MCPeriodicEcho ---------------------------
(***************************************************************************)
(* Instances of PeriodicEcho: up to five periods with all payloads and     *)
(* masks on one logical slot beside a padding slot; more periods with one  *)
(* input, for the costs, where only the number of periods matters.         *)
(***************************************************************************)
EXTENDS PeriodicEcho, FiniteSets

CONSTANTS slot, pad

MCSlots == {slot, pad}
MCLogical == {slot}

Packed(values) == {[s \in MCSlots |-> IF s = slot THEN x ELSE 0] : x \in values}

AllResidues == Packed(0 .. Modulus - 1)
OneInput == Packed({1})

ManyPeriods == {1, 3, 5} \cup 6 .. 9

(* Above five periods every close takes the input of OneInput.             *)
MCNext ==
    \/ total <= 5 /\ Next
    \/ total > 5 /\ \E x \in OneInput : ClosePeriod(x, x)
    \/ total > 5 /\ (TreeWalk \/ TreeMerge \/ TreeArrived \/ CollectTotals)

MCSpec == Init /\ [][MCNext]_vars /\ WF_vars(MCNext)

----------------------------------------------------------------------------

(* tree_depth of src/experiments/scripts/analytical_requirements.py.       *)
LeafDepth == [a |-> 0, b |-> 1, c |-> 0, d |-> 1]

CombineDepths(l, r) ==
    [a |-> Larger(r.a, l.a) + 1,
     b |-> Larger(Larger(r.a, l.b) + 1, r.b),
     c |-> Larger(l.c, Larger(r.c, l.a) + 1),
     d |-> Larger(Larger(l.d, r.d), Larger(r.c, l.b) + 1)]

tree_depth[n \in Nat \ {0}] ==
    IF n = 1 THEN LeafDepth
    ELSE CombineDepths(tree_depth[(n + 1) \div 2], tree_depth[n \div 2])

Smaller(m, n) == IF m <= n THEN m ELSE n

(* The costs the experiment plan is sized with (analytical_requirements.py *)
(* and EXPERIMENTS.md) are those of the program: the echo's multiplication *)
(* depth per mode, the ciphertext multiplications of one component, and    *)
(* the refreshes that TestPeriodStreamingEncryptedEcho counts; and on the  *)
(* way there no ciphertext is deeper than the refresh interval allows.     *)
CostsAsAnalysed ==
    /\ RefreshBoundsDepth
    /\ TotalsReady =>
        /\ Totals.depth =
             CASE mode = "tree" -> tree_depth[total].d
               [] mode = "sequential" /\ refreshMode = "none" -> total
               [] OTHER -> Smaller(total, interval + 1)
        /\ mulCount = IF mode = "tree" THEN 4 * (total - 1) + total ELSE 2 * total - 1
        /\ refreshCount =
             IF interval = 0 THEN 0
             ELSE Cardinality({p \in 1 .. total - 2 : p % interval = 0})
=============================================================================
