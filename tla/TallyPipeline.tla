--------------------------- MODULE TallyPipeline ---------------------------
(***************************************************************************)
(* The encrypted tally of src/main.go, from the prepared weights to the    *)
(* decrypted result, slot by slot: what each phase does to the packed      *)
(* ciphertexts, with the cyclic rotations within a row that the packing    *)
(* has to survive.  Sums and products are modulo the plaintext modulus.    *)
(* Encryption and decryption keep the slots; noise is not modelled.        *)
(***************************************************************************)
EXTENDS Election

CONSTANT Modulus

(* main asserts sum(q) < t, lagrangeIndicatorCoefficients T < t.           *)
ASSUME ModulusAssumption ==
    /\ Modulus \in Nat /\ Periods < Modulus
    /\ \A p \in Powers, z \in Sizes : SumFunctionOnSet(p, Voters(z)) < Modulus

blockSize == IF size.b >= size.k THEN size.b ELSE size.k
layout == computePackingLayout(size.n, blockSize, size.rows, size.cols)

Slots == SlotsOf(layout)
Cts == Ciphertexts(layout)
Start(v) == blockStart(layout, blockSize, v)
Global(ct, local) == ct * layout.votersPerCiphertext + local
VotersIn(ct) == {Global(ct, i) : i \in 0 .. votersInCt(layout, size.n, ct) - 1}

----------------------------------------------------------------------------
(* The evaluator.                                                          *)

Row(s) == s \div size.cols
Col(s) == s % size.cols

Plus(x, y) == [s \in Slots |-> (x[s] + y[s]) % Modulus]

Times(x, y) == [s \in Slots |-> (x[s] * y[s]) % Modulus]
Minus(x, y) == [s \in Slots |-> (x[s] - y[s]) % Modulus]
Total(array, S) ==
    [s \in Slots |-> MapThenSumSet(LAMBDA i : array[i][s], S) % Modulus]

RotateColumns(x, by) ==
    [s \in Slots |-> x[Row(s) * size.cols + ((Col(s) + by) % size.cols)]]
RotateRows(x) == [s \in Slots |-> x[(1 - Row(s)) * size.cols + Col(s)]]
RotateAndAdd(x, batch, times) ==
    Total([j \in 0 .. times - 1 |-> RotateColumns(x, j * batch)], 0 .. times - 1)

(* A vector that is one in a set of slots and zero elsewhere.              *)
Ones(S) == [s \in Slots |-> IF s \in S THEN 1 ELSE 0]

(* The rotations a Galois key is for.                                      *)
Columns(by) == <<"columns", by % size.cols>>
InnerSum(batch, times) == <<"inner sum", batch, times>>
Rows == <<"rows">>

----------------------------------------------------------------------------

VARIABLES
    stage,               \* the next phase
    galEls,              \* the rotations that keys were generated for
    rotations,           \* history: the rotations applied so far
    qExt, qBase,         \* arrays over Cts; <<>> until computed
    vCts, dCts, dWeighted, dTilde, dw, voterWeights,
    support, result      \* single ciphertexts

phases == <<vCts, dCts, dWeighted, support, dTilde, dw, voterWeights, result>>
vars == <<inputs, stage, galEls, rotations, qExt, qBase, phases>>

Stages == {"keys", "weights", "echo", "indicator", "support", "dTilde", "Dw",
           "product", "done"}

Init ==
    /\ ElectionInit
    /\ stage = "keys" /\ galEls = {} /\ rotations = {}
    /\ qExt = <<>> /\ qBase = <<>>
    /\ vCts = <<>> /\ dCts = <<>> /\ dWeighted = <<>> /\ support = <<>>
    /\ dTilde = <<>> /\ dw = <<>> /\ voterWeights = <<>> /\ result = <<>>

(* A slip: the rotations that spread a weight are taken leftwards.         *)
LeftwardShifts == {Columns(shift) : shift \in 1 .. size.b - 1}

ShiftsToSpread == {Columns(-shift) : shift \in 1 .. size.b - 1}

GenerateKeys ==
    /\ stage = "keys" /\ stage' = "weights"
    /\ galEls' =
          {InnerSum(size.b, layout.votersPerRow), InnerSum(blockSize, layout.votersPerRow),
           InnerSum(1, size.k), Rows}
          \cup ShiftsToSpread
          \cup {Columns(l - Start(D[l])) : l \in Delegates(size)}
    /\ UNCHANGED <<inputs, rotations, qExt, qBase, phases>>

(* The base slot of every block a row has room for, voter or not.          *)
baseSlotMask ==
    Ones({row * size.cols + i * blockSize : row \in 0 .. 1, i \in 0 .. layout.votersPerRow - 1})

(* Pack every voter's values into the leading slots of the voter's block.  *)
Packed(values, width) ==
    [ct \in Cts |-> [s \in Slots |->
        LET owner == {v \in VotersIn(ct) : s - Start(v) \in 0 .. width - 1}
        IN  IF owner = {} THEN 0
            ELSE LET v == CHOOSE o \in owner : TRUE IN values[v][s - Start(v)]]]

PrepareWeights ==
    /\ stage = "weights" /\ stage' = "echo"
    /\ qExt' = Packed([v \in Voters(size) |-> [l \in Delegates(size) |-> q[v]]], size.k)
    /\ qBase' = [ct \in Cts |-> Times(qExt'[ct], baseSlotMask)]
    /\ UNCHANGED <<inputs, galEls, rotations, phases>>

(* The period loop (SubmissionEcho), seen from its end.                    *)
EchoTotals ==
    /\ stage = "echo" /\ stage' = "indicator"
    /\ vCts' = Packed(candidateTotals, size.b)
    /\ dCts' = Packed(delegationTotals, size.k)
    /\ UNCHANGED <<inputs, galEls, rotations, qExt, qBase, dWeighted, support, dTilde, dw,
                   voterWeights, result>>

(* The polynomial of lagrangeIndicatorCoefficients on 0 .. T, which is     *)
(* where echo totals lie.                                                  *)
Indicator(x) == [s \in Slots |-> IF x[s] > Periods \div 2 THEN 1 ELSE 0]

ApplyIndicator ==
    /\ stage = "indicator" /\ stage' = "support"
    /\ vCts' = [ct \in Cts |-> Indicator(vCts[ct])]
    /\ dCts' = [ct \in Cts |-> Indicator(dCts[ct])]
    /\ UNCHANGED <<inputs, galEls, rotations, qExt, qBase, dWeighted, support, dTilde, dw,
                   voterWeights, result>>

(* Sum the blocks of a ciphertext, over both rows, into every first block. *)
SumBlocks(x) ==
    LET rows == RotateAndAdd(x, blockSize, layout.votersPerRow)
    IN  Plus(rows, RotateRows(rows))

delegateMask == Ones({row * size.cols + l : row \in 0 .. 1, l \in Delegates(size)})

DelegateSupport ==
    /\ stage = "support" /\ stage' = "dTilde"
    /\ dWeighted' = [ct \in Cts |-> Times(dCts[ct], qExt[ct])]
    /\ support' = Times(Total([ct \in Cts |-> SumBlocks(dWeighted'[ct])], Cts), delegateMask)
    /\ rotations' = rotations \cup {InnerSum(blockSize, layout.votersPerRow), Rows}
    /\ UNCHANGED <<inputs, galEls, qExt, qBase, vCts, dCts, dTilde, dw, voterWeights, result>>

(* A slip: the row sum takes in the next voter's first slot.               *)
OneSlotTooMany(x) == RotateAndAdd(x, 1, size.k + 1)

RowSums(x) == RotateAndAdd(x, 1, size.k)

(* A slip: the sum is not negated.                                         *)
SignLost(x) == Plus(RowSums(x), baseSlotMask)

(* A slip: delegating voters keep their power, the others lose it.         *)
DelegatesOnly(x) == RowSums(x)

(* One minus the row sum in base slots; its other slots hold left-overs of *)
(* the inner sum until the base-slot weights blank them.                   *)
SelfIndicator(x) == Minus(baseSlotMask, RowSums(x))

SelfPower ==
    /\ stage = "dTilde" /\ stage' = "Dw"
    /\ dTilde' = [ct \in Cts |-> Times(SelfIndicator(dCts[ct]), qBase[ct])]
    /\ rotations' = rotations \cup {InnerSum(1, size.k)}
    /\ UNCHANGED <<inputs, galEls, qExt, qBase, vCts, dCts, dWeighted, support, dw,
                   voterWeights, result>>

(* The loops of phase 4.6 count the voters of a ciphertext from zero.      *)
localStart(i) ==
    (i \div layout.votersPerRow) * size.cols + (i % layout.votersPerRow) * blockSize

(* The ones of the matrix D in the rows of a ciphertext's voters.          *)
OnesOfD(ct) ==
    {one \in (0 .. votersInCt(layout, size.n, ct) - 1) \X Delegates(size) :
        D[one[2]] = Global(ct, one[1])}

(* A delegate's support, moved from its slot to the voter's base slot.     *)
Moved(i, l) == Times(RotateColumns(support, l - localStart(i)), Ones({localStart(i)}))

VoterWeights ==
    /\ stage = "Dw" /\ stage' = "product"
    /\ dw' = [ct \in Cts |->
                 Total([one \in OnesOfD(ct) |-> Moved(one[1], one[2])], OnesOfD(ct))]
    /\ voterWeights' = [ct \in Cts |-> Plus(dw'[ct], dTilde[ct])]
    /\ rotations' = rotations \cup
          {Columns(one[2] - localStart(one[1])) : one \in UNION {OnesOfD(ct) : ct \in Cts}}
    /\ UNCHANGED <<inputs, galEls, qExt, qBase, vCts, dCts, dWeighted, support, dTilde, result>>

(* A slip: the first candidate is left out.                                *)
SpreadFromOne(x) ==
    Total([shift \in 1 .. size.b |-> RotateColumns(x, -shift)], 1 .. size.b)

(* Copy the base slots over the candidates of their blocks.                *)
Spread(x) ==
    Total([shift \in 0 .. size.b - 1 |-> RotateColumns(x, -shift)], 0 .. size.b - 1)

Product ==
    /\ stage = "product" /\ stage' = "done"
    /\ result' = SumBlocks(Total([ct \in Cts |-> Times(Spread(voterWeights[ct]), vCts[ct])], Cts))
    /\ rotations' = rotations \cup {Columns(-shift) : shift \in 1 .. size.b - 1}
                        \cup {InnerSum(blockSize, layout.votersPerRow), Rows}
    /\ UNCHANGED <<inputs, galEls, qExt, qBase, vCts, dCts, dWeighted, support, dTilde, dw,
                   voterWeights>>

Next ==
    \/ GenerateKeys \/ PrepareWeights \/ EchoTotals \/ ApplyIndicator
    \/ DelegateSupport \/ SelfPower \/ VoterWeights \/ Product

Spec == Init /\ [][Next]_vars

----------------------------------------------------------------------------

Vector(bound) == [Slots -> 0 .. bound]
Array(bound) == [Cts -> Vector(bound)] \cup {<<>>}

(* Counts stay within the periods and weights, in all slots, within the    *)
(* power of all voters: both are below the modulus, so nothing wraps.      *)
TypeOK ==
    /\ stage \in Stages
    /\ vCts \in Array(Periods) /\ dCts \in Array(Periods)
    /\ {qExt, qBase, dWeighted, dTilde, dw, voterWeights} \subseteq Array(PowerSum)
    /\ {support, result} \subseteq Vector(PowerSum) \cup {<<>>}

(* What is decoded at an offset of a voter's block.                        *)
At(array, v, offset) == array[ctIdx(layout, v)][Start(v) + offset]
Computed(x) == x # <<>>

(* The intermediate checks of main (mp_verify...): after every phase the   *)
(* decoded slots are the plaintext reference of that phase, whatever the   *)
(* phase left in the slots nobody decodes.                                 *)
PhasesMatchPlaintext ==
    \A v \in Voters(size) :
        /\ Computed(qBase) => At(qBase, v, 0) = q[v]
        /\ stage \notin {"keys", "weights", "echo", "indicator"} =>
              /\ \A c \in Candidates(size) :
                    At(vCts, v, c) = indicatorPlain(candidateTotals[v][c])
              /\ \A l \in Delegates(size) :
                    At(dCts, v, l) = indicatorPlain(delegationTotals[v][l])
        /\ Computed(dWeighted) => \A l \in Delegates(size) :
              /\ At(dWeighted, v, l) = weightedDelegationIndicatorPlain(v, l)
              /\ support[l] = delegateSupportPlain(l)
        /\ Computed(dTilde) => At(dTilde, v, 0) = weightedSelfPowerPlain(v)
        /\ Computed(dw) =>
              /\ At(dw, v, 0) = delegatedPlain(v)
              /\ At(voterWeights, v, 0) = delegatedVoterWeightsPlain(v)

(* Every voter's power counts exactly once: kept or delegated, never both. *)
(* The weight slots, all of them and not only those decoded, add up to the *)
(* power of all voters, so that nothing wraps around the modulus and the   *)
(* spreading rotations of the last phase mix in no other value.            *)
PowerIsConserved ==
    Computed(voterWeights) =>
        MapThenSumSet(LAMBDA ct : SumFunction(voterWeights[ct]), Cts) = PowerSum

(* The decrypted tally is the plaintext reference, computed without a      *)
(* modulus, for every candidate, and on the way to it no power is lost,    *)
(* counted twice or wrapped around.                                        *)
TallyIsExact ==
    /\ TypeOK /\ PowerIsConserved
    /\ stage = "done" => \A c \in Candidates(size) : result[c] = delegatedMaskedTallyPlain(c)

(* Setup generated a key for every rotation the tally applies: the shifts  *)
(* are computed once from global voter indices and once from local ones.   *)
EveryRotationHasAKey == rotations \subseteq galEls
=============================================================================
