------------------------------ MODULE Election ------------------------------
(***************************************************************************)
(* The inputs of a tally and what the tally has to compute from them: the  *)
(* plaintext references of src/test.go, in natural numbers.  The inputs    *)
(* are the echo totals of every voter, the voting power and the delegation *)
(* matrix of src/helpers.go (one voter per delegate, no two alike).        *)
(***************************************************************************)
EXTENDS Packing, FiniteSetsExt, Functions

CONSTANTS
    Sizes,          \* records of n, b, k, rows and cols
    Periods,        \* T
    TotalsOf(_),    \* echo totals of one voter considered, for a width
    Powers          \* powers considered: q is a prefix of one of them

(* BGV has two rows; randomDelegationMatrix asserts k < n.                 *)
ASSUME SizesAssumption ==
    \A z \in Sizes : /\ {z.n, z.b, z.k, z.cols} \subseteq Nat \ {0} /\ z.rows = 2
                     /\ z.b <= z.cols /\ z.k <= z.cols /\ z.k < z.n
ASSUME PeriodsAssumption == Periods \in Nat \ {0}
(* The totals of one voter share the periods (see EchoReference).          *)
ASSUME TotalsAssumption ==
    \A z \in Sizes : \A w \in {z.b, z.k} :
        /\ TotalsOf(w) \subseteq [0 .. w - 1 -> 0 .. Periods]
        /\ \A t \in TotalsOf(w) : SumFunction(t) <= Periods
ASSUME PowersAssumption ==
    \A p \in Powers, z \in Sizes : \A v \in 0 .. z.n - 1 : p[v] \in Nat \ {0}

VARIABLES
    size,
    D,             \* D[l]: the voter whose row of the matrix has a 1 in column l
    q,             \* voting power
    candidateTotals, delegationTotals    \* echo totals of every voter

inputs == <<size, D, q, candidateTotals, delegationTotals>>

Voters(z) == 0 .. z.n - 1
Delegates(z) == 0 .. z.k - 1
Candidates(z) == 0 .. z.b - 1

ElectionInit ==
    /\ size \in Sizes
    /\ D \in Injection(Delegates(size), Voters(size))
    /\ \E p \in Powers : q = [v \in Voters(size) |-> p[v]]
    /\ candidateTotals \in [Voters(size) -> TotalsOf(size.b)]
    /\ delegationTotals \in [Voters(size) -> TotalsOf(size.k)]

indicatorPlain(count) == IF count > Periods \div 2 THEN 1 ELSE 0

(* The voters whose majority is for a choice.                              *)
Choosing(totals, choice) == {v \in DOMAIN totals : indicatorPlain(totals[v][choice]) = 1}

delegationIndicatorPlain(v) ==
    1 - MapThenSumSet(LAMBDA l : indicatorPlain(delegationTotals[v][l]), Delegates(size))

weightedSelfPowerPlain(v) == delegationIndicatorPlain(v) * q[v]

weightedDelegationIndicatorPlain(v, l) == indicatorPlain(delegationTotals[v][l]) * q[v]

delegateSupportPlain(l) == MapThenSumSet(LAMBDA v : q[v], Choosing(delegationTotals, l))

delegatedPlain(v) == MapThenSumSet(delegateSupportPlain, {l \in Delegates(size) : D[l] = v})

delegatedVoterWeightsPlain(v) == weightedSelfPowerPlain(v) + delegatedPlain(v)

delegatedMaskedTallyPlain(c) ==
    MapThenSumSet(delegatedVoterWeightsPlain, Choosing(candidateTotals, c))

PowerSum == SumFunction(q)
=============================================================================
