---------------------------- MODULE PeriodicEcho ----------------------------
(***************************************************************************)
(* One encrypted periodic echo: periodicEchoState of src/periodic_echo.go, *)
(* as main drives it (src/main.go, period loop and final refresh).         *)
(*                                                                         *)
(* A ciphertext array over all blocks is a record of its plaintext slots   *)
(* and of the number of ciphertext multiplications on the longest path     *)
(* that led to it.  The evaluator's operations act slot by slot modulo the *)
(* plaintext modulus; a collective refresh keeps the plaintext and starts  *)
(* a new depth.  In tree mode ClosePeriod runs as many steps as its Push,  *)
(* those of IncrementalBalanced; the two counters the code keeps (received *)
(* of the echo and of its tree) are equal between calls and are one here.  *)
(***************************************************************************)
EXTENDS Integers, Sequences

CONSTANTS
    Slots, Modulus, PeriodCounts, Payloads, Masks,   \* as in EchoEquation
    Logical,     \* the slots of voter blocks; the others are padding
    Intervals    \* values of -echo-refresh-interval considered

ASSUME ModulusAssumption == Modulus \in Nat /\ Modulus > 1
ASSUME PeriodCountsAssumption == PeriodCounts \subseteq Nat \ {0}
ASSUME LogicalAssumption == Logical \subseteq Slots
ASSUME IntervalsAssumption == Intervals \subseteq Nat \ {0}
(* Payloads and masks are packed into voter blocks: padding stays zero.    *)
ASSUME InputsAssumption ==
    /\ Payloads \cup Masks \subseteq [Slots -> 0 .. Modulus - 1]
    /\ \A x \in Payloads \cup Masks : \A s \in Slots \ Logical : x[s] = 0

Residue == 0 .. Modulus - 1
Vector == [Slots -> Residue]
Zero == [s \in Slots |-> 0]

----------------------------------------------------------------------------
(* Ciphertexts and the evaluator.                                          *)

Ciphertext == [v : Vector, depth : Nat]

Larger(m, n) == IF m >= n THEN m ELSE n

Plus(x, y) == (x + y) % Modulus
Times(x, y) == (x * y) % Modulus

Encrypted(x) == [v |-> x, depth |-> 0]

mul(l, r) == [v |-> [s \in Slots |-> Times(l.v[s], r.v[s])],
              depth |-> 1 + Larger(l.depth, r.depth)]

add(l, r) == [v |-> [s \in Slots |-> Plus(l.v[s], r.v[s])],
              depth |-> Larger(l.depth, r.depth)]

(* MulNew(mask, -1) and AddNew(logicalRanges): plaintext operands, which   *)
(* add no depth.                                                           *)
logicalRange == [s \in Slots |-> IF s \in Logical THEN 1 ELSE 0]

oneMinus(z) == [v |-> [s \in Slots |-> (logicalRange[s] - z.v[s]) % Modulus],
                depth |-> z.depth]

refresh(ct) == [v |-> ct.v, depth |-> 0]

(* echoSegment: u' = a*u + b and total' = total + c*u + d.                 *)
Segment == [a : Ciphertext, b : Ciphertext, c : Ciphertext, d : Ciphertext]

(* A slip: the operands of b's product are exchanged.                      *)
SwappedCombine(l, r) ==
    [a |-> mul(r.a, l.a),
     b |-> add(mul(l.a, r.b), l.b),
     c |-> add(l.c, mul(r.c, l.a)),
     d |-> add(add(l.d, r.d), mul(r.c, l.b))]

CombineSegments(l, r) ==
    [a |-> mul(r.a, l.a),
     b |-> add(mul(r.a, l.b), r.b),
     c |-> add(l.c, mul(r.c, l.a)),
     d |-> add(add(l.d, r.d), mul(r.c, l.b))]

----------------------------------------------------------------------------

VARIABLES
    mode, refreshMode, interval,    \* the flags newEcho closes over
    total, received, frontier, merges, lo, hi, pc,   \* IncrementalBalanced
    current, totals,    \* ciphertexts, in sequential mode; nil is Encrypted(Zero)
    done, result,       \* Totals has been called, and what it returned
    mulCount, refreshCount,    \* the counters of MulRelinNew and of refreshes
    prefix              \* history: prefix[i + 1] is [u, total] after the periods
                        \* that frontier[1], ..., frontier[i] cover

NoLeaf(i) == i

Tree == INSTANCE IncrementalBalanced
            WITH Combine <- CombineSegments, Leaf <- NoLeaf, Totals <- PeriodCounts

config == <<mode, refreshMode, interval>>
treeVars == <<total, received, frontier, merges, lo, hi, pc>>
vars == <<config, treeVars, current, totals, done, result,
          mulCount, refreshCount, prefix>>

EchoState == [u : Vector, total : Vector]

(* The echo segment as a transformation of the running state.              *)
Apply(seg, st) ==
    LET u == [s \in Slots |-> Plus(Times(seg.a.v[s], st.u[s]), seg.b.v[s])]
        t == [s \in Slots |-> Plus(Plus(st.total[s], Times(seg.c.v[s], st.u[s])), seg.d.v[s])]
    IN  [u |-> u, total |-> t]

Latest(states) == states[Len(states)]

TypeOK ==
    /\ mode \in {"tree", "sequential"}
    /\ refreshMode \in {"collective", "none"}
    /\ interval \in Intervals \cup {0}
    /\ Tree!TreeTypeOK
    /\ frontier \in Seq(Segment)
    /\ current \in Ciphertext /\ totals \in Ciphertext
    /\ done \in BOOLEAN /\ result \in Ciphertext
    /\ mulCount \in Nat /\ refreshCount \in Nat
    /\ prefix \in Seq(EchoState)

(* The interval is forced to 0 unless it is used.                          *)
Init ==
    /\ mode \in {"tree", "sequential"}
    /\ refreshMode \in {"collective", "none"}
    /\ interval \in IF mode = "sequential" /\ refreshMode = "collective"
                    THEN Intervals ELSE {0}
    /\ Tree!TreeInit
    /\ current = Encrypted(Zero) /\ totals = Encrypted(Zero)
    /\ done = FALSE /\ result = Encrypted(Zero)
    /\ mulCount = 0 /\ refreshCount = 0
    /\ prefix = <<[u |-> Zero, total |-> Zero]>>

(* A slip: the payload is added without its mask.                          *)
UngatedInput(x, z) == Encrypted(x)

gatedInput(x, z) == mul(Encrypted(x), Encrypted(z))

LeafSegment(x, z) ==
    LET om == oneMinus(Encrypted(z))
        g == gatedInput(x, z)
    IN  [a |-> om, b |-> g, c |-> om, d |-> g]

(* ClosePeriod in tree mode: everything up to the first merge of Push.     *)
CloseTree(x, z) ==
    /\ mode = "tree"
    /\ Tree!Push(LeafSegment(x, z))
    /\ prefix' = Append(prefix, Apply(LeafSegment(x, z), Latest(prefix)))
    /\ mulCount' = mulCount + 1
    /\ UNCHANGED <<config, current, totals, done, result, refreshCount>>

TreeWalk ==
    /\ Tree!Descend \/ Tree!Counted
    /\ UNCHANGED <<config, current, totals, done, result, mulCount, refreshCount, prefix>>

(* One merge: the state between the two merged segments is forgotten.      *)
TreeMerge ==
    /\ Tree!Merge
    /\ prefix' = Append(SubSeq(prefix, 1, Len(prefix) - 2), Latest(prefix))
    /\ mulCount' = mulCount + 4
    /\ UNCHANGED <<config, current, totals, done, result, refreshCount>>

(* Push and, with it, ClosePeriod return.                                  *)
TreeArrived ==
    /\ Tree!Arrived
    /\ UNCHANGED <<config, current, totals, done, result, mulCount, refreshCount, prefix>>

(* ClosePeriod in sequential mode, first period: the gated input is both   *)
(* the current value and the total.                                        *)
CloseFirst(x, z) ==
    /\ mode = "sequential" /\ received = 0
    /\ current' = gatedInput(x, z) /\ totals' = gatedInput(x, z)
    /\ received' = 1
    /\ mulCount' = mulCount + 1
    /\ UNCHANGED <<config, total, frontier, merges, lo, hi, pc, done, result,
                   refreshCount, prefix>>

(* A slip: the last update is refreshed as well.                           *)
RefreshAlsoTheLast(period) ==
    refreshMode = "collective" /\ period > 0 /\ period % interval = 0

(* A slip: one update too many between two refreshes.                      *)
RefreshOneLate(period) ==
    refreshMode = "collective" /\ period > 0 /\ period % (interval + 1) = 0

shouldRefresh(period) ==
    /\ refreshMode = "collective"
    /\ period > 0 /\ period < total - 1 /\ period % interval = 0

Carried(x, z) == add(mul(current, oneMinus(Encrypted(z))), gatedInput(x, z))

(* A slip: the total echoes the value before this period's update.         *)
StaleTotal(x, z) == add(totals, current)

NewTotal(x, z) == add(totals, Carried(x, z))

(* ClosePeriod in sequential mode, later periods: carry, add, echo, and    *)
(* only then refresh the carried value.                                    *)
CloseNext(x, z) ==
    /\ mode = "sequential" /\ received \in 1 .. total - 1
    /\ totals' = NewTotal(x, z)
    /\ IF shouldRefresh(received)
       THEN current' = refresh(Carried(x, z)) /\ refreshCount' = refreshCount + 1
       ELSE current' = Carried(x, z) /\ refreshCount' = refreshCount
    /\ received' = received + 1
    /\ mulCount' = mulCount + 2
    /\ UNCHANGED <<config, total, frontier, merges, lo, hi, pc, done, result, prefix>>

(* Totals; the tree's assertion in Result is the second conjunct.          *)
Totals == IF mode = "sequential" THEN totals ELSE Tree!Result.d
TotalsReady ==
    /\ pc = "idle" /\ received = total
    /\ mode = "tree" => Tree!ResultReady

(* main takes the totals and, in collective mode, refreshes them.          *)
CollectTotals ==
    /\ ~done /\ TotalsReady
    /\ done' = TRUE
    /\ result' = IF refreshMode = "collective" THEN refresh(Totals) ELSE Totals
    /\ UNCHANGED <<config, treeVars, current, totals, mulCount, refreshCount, prefix>>

ClosePeriod(x, z) == CloseTree(x, z) \/ CloseFirst(x, z) \/ CloseNext(x, z)

Next ==
    \/ \E x \in Payloads, z \in Masks : ClosePeriod(x, z)
    \/ TreeWalk
    \/ TreeMerge
    \/ TreeArrived
    \/ CollectTotals

SafeSpec == Init /\ [][Next]_vars

(* The program runs to its end: it is one thread and waits for nobody.     *)
Spec == SafeSpec /\ WF_vars(Next)

----------------------------------------------------------------------------

(* The state of the relation: the last prefix in tree mode, the running    *)
(* ciphertexts in sequential mode.                                         *)
Value ==
    IF mode = "tree" THEN Latest(prefix)
                     ELSE [u |-> current.v, total |-> totals.v]

Equation == INSTANCE EchoEquation
                WITH periods <- total,
                     closed <- IF pc = "idle" THEN received ELSE received + 1,
                     u <- Value.u,
                     total <- Value.total,
                     done <- done,
                     result <- result.v

(* Both modes implement the echo relation, step by step: what Totals       *)
(* returns is the relation's total, however the tree grouped the periods,  *)
(* wherever a refresh fell, and whatever payload lies under a zero mask.   *)
RefinesEquation == Equation!Spec

(* Each close applies the relation to that period's payload and mask.      *)
EachInputIsApplied ==
    [][\A x \in Payloads, z \in Masks : ClosePeriod(x, z) => Equation!Close(x, z)]_vars

(* Every echo is closed and its totals taken: the merges a period owes     *)
(* never run out of segments and the assertion of Result never fails.      *)
EchoCompletes == <>done

(* Between the segments on the frontier lie the states the relation passes *)
(* through: each segment maps one to the next.                             *)
SegmentsConnectPrefixes ==
    /\ Len(prefix) = Len(frontier) + 1
    /\ prefix[1] = [u |-> Zero, total |-> Zero]
    /\ \A i \in DOMAIN frontier : prefix[i + 1] = Apply(frontier[i], prefix[i])

(* With collective refreshes the sequential echo multiplies at most        *)
(* interval + 1 deep between two refreshes, the last stretch included.     *)
RefreshBoundsDepth ==
    mode = "sequential" /\ refreshMode = "collective" =>
        current.depth <= interval + 1 /\ totals.depth <= interval + 1
=============================================================================
