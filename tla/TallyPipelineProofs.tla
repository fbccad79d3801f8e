------------------------ MODULE TallyPipelineProofs ------------------------
(***************************************************************************)
(* The tally, for every number of voters, candidates, delegates and        *)
(* columns.                                                                *)
(*                                                                         *)
(* First, the keys generated at setup cover the rotations of the tally.    *)
(* Setup numbers voters from the first to the last, phase 4.6 ciphertext   *)
(* by ciphertext: the proof is that both arrive at the same shifts.        *)
(*                                                                         *)
(* Then, what the phases compute.  The invariant TallyInv says of every    *)
(* array that it is Placed: its values are in the blocks of their voters   *)
(* and all other slots are zero.  Sums over rotated ciphertexts are turned *)
(* into sums over voters once, in GatheredValue and GatheredBound, and     *)
(* nothing wraps around because power is kept or given, never both.        *)
(***************************************************************************)
EXTENDS TallyPipeline, ArithmeticLemmas

Shape == size \in Sizes /\ D \in [Delegates(size) -> Voters(size)]

(* What GenerateKeys generates.                                            *)
Keys ==
    {InnerSum(size.b, layout.votersPerRow), InnerSum(blockSize, layout.votersPerRow),
     InnerSum(1, size.k), Rows}
    \cup ShiftsToSpread
    \cup {Columns(l - Start(D[l])) : l \in Delegates(size)}

IInv ==
    /\ Shape
    /\ stage \in Stages
    /\ IF stage = "keys" THEN rotations = {} ELSE galEls = Keys /\ rotations \subseteq Keys

LEMMA LayoutShape ==
    ASSUME size \in Sizes
    PROVE  /\ size.cols \in Nat \ {0} /\ blockSize \in Nat \ {0} /\ blockSize <= size.cols
           /\ layout.colsPerCiphertext = size.cols
           /\ layout.votersPerRow \in Nat \ {0}
           /\ layout.votersPerCiphertext \in Nat \ {0}
<1>1. /\ size.cols \in Nat \ {0} /\ blockSize \in Nat \ {0} /\ blockSize <= size.cols
      /\ size.rows = 2
    BY SizesAssumption DEF blockSize
<1>2. /\ layout.colsPerCiphertext = size.cols
      /\ layout.votersPerRow = size.cols \div blockSize
      /\ layout.votersPerCiphertext = 2 * (size.cols \div blockSize)
    BY <1>1 DEF layout, computePackingLayout
<1>3. size.cols \div blockSize \in Nat \ {0} /\ 2 * (size.cols \div blockSize) \in Nat \ {0}
    BY <1>1, RowShape
<1> QED
    BY <1>1, <1>2, <1>3

(* The i-th voter of a ciphertext has its block where phase 4.6 puts it.   *)
LEMMA LocalBlock ==
    ASSUME size \in Sizes, NEW ct \in Nat, NEW i \in 0 .. layout.votersPerCiphertext - 1
    PROVE  Start(Global(ct, i)) = localStart(i)
<1>1. PICK m \in Nat \ {0} : m = layout.votersPerCiphertext
    BY LayoutShape
<1>2. PICK g \in Nat : g = Global(ct, i) /\ g = ct * m + i
    BY <1>1 DEF Global
<1>3. g \div m \in Nat /\ g % m \in 0 .. m - 1 /\ g = (g \div m) * m + (g % m)
    BY <1>1, <1>2, Division
<1>4. g % m = i
    <2>1. i \in 0 .. m - 1
        BY <1>1
    <2>2. PICK p \in Nat, e \in 0 .. m - 1 : p = g \div m /\ e = g % m
        BY <1>3
    <2>3. p * m + e = ct * m + i
        BY <1>2, <1>3, <2>2
    <2>4. e = i
        BY <2>1, <2>3, DivisionUnique
    <2> QED
        BY <2>2, <2>4
<1> QED
    BY <1>1, <1>2, <1>4, LayoutShape DEF Start, blockStart, localIdx, localStart

(* The shifts of phase 4.6 are among those that setup generated keys for.  *)
LEMMA ShiftsHaveKeys ==
    ASSUME Shape, NEW ct \in Cts, NEW one \in OnesOfD(ct)
    PROVE  Columns(one[2] - localStart(one[1])) \in Keys
<1>1. /\ one[2] \in Delegates(size) /\ D[one[2]] = Global(ct, one[1])
      /\ one[1] \in 0 .. votersInCt(layout, size.n, ct) - 1
    BY DEF OnesOfD
<1>2. ct \in Nat
    BY DEF Cts, Ciphertexts
<1>3. one[1] \in 0 .. layout.votersPerCiphertext - 1
    <2>1. PICK m \in Nat \ {0} : m = layout.votersPerCiphertext
        BY LayoutShape DEF Shape
    <2>2. size.n \in Nat
        BY SizesAssumption DEF Shape
    <2>3. PICK left \in Int : left = size.n - ct * m
        BY <1>2, <2>1, <2>2
    <2>4. votersInCt(layout, size.n, ct) = IF left < m THEN left ELSE m
        BY <2>1, <2>3 DEF votersInCt
    <2> QED
        BY <1>1, <2>1, <2>3, <2>4
<1>4. Start(D[one[2]]) = localStart(one[1])
    BY <1>1, <1>2, <1>3, LocalBlock DEF Shape
<1> QED
    BY <1>1, <1>4 DEF Keys

LEMMA InitInv == Init => IInv
<1> SUFFICES ASSUME Init PROVE IInv
    OBVIOUS
<1>1. Shape
    BY DEF Init, ElectionInit, Shape, Injection
<1> QED
    BY <1>1 DEF Init, IInv, Stages

LEMMA StepInv == IInv /\ [Next]_vars => IInv'
<1> SUFFICES ASSUME IInv, [Next]_vars PROVE IInv'
    OBVIOUS
<1>1. UNCHANGED inputs
    BY DEF Next, vars, GenerateKeys, PrepareWeights, EchoTotals, ApplyIndicator,
           DelegateSupport, SelfPower, VoterWeights, Product
<1>2. Shape' /\ Keys' = Keys
    <2>1. size' = size /\ D' = D
        BY <1>1 DEF inputs
    <2>2. blockSize' = blockSize /\ layout' = layout
        BY <2>1 DEF layout, blockSize
    <2>3. Shape'
        BY <2>1 DEF IInv, Shape
    <2>4. ShiftsToSpread' = ShiftsToSpread
        BY <2>1 DEF ShiftsToSpread, Columns
    <2>5. {Columns(l - Start(D[l])) : l \in Delegates(size)}'
            = {Columns(l - Start(D[l])) : l \in Delegates(size)}
        BY <2>1, <2>2 DEF Columns, Start
    <2> QED
        BY <2>1, <2>2, <2>3, <2>4, <2>5 DEF Keys, InnerSum
<1>3. CASE GenerateKeys
    BY <1>2, <1>3 DEF GenerateKeys, IInv, Keys, Stages
<1>4. CASE PrepareWeights \/ EchoTotals \/ ApplyIndicator
    BY <1>2, <1>4 DEF PrepareWeights, EchoTotals, ApplyIndicator, IInv, Stages
<1>5. CASE DelegateSupport
    <2>1. {InnerSum(blockSize, layout.votersPerRow), Rows} \subseteq Keys
        BY DEF Keys
    <2> QED
        BY <1>2, <1>5, <2>1 DEF DelegateSupport, IInv, Stages
<1>6. CASE SelfPower
    <2>1. InnerSum(1, size.k) \in Keys
        BY DEF Keys
    <2> QED
        BY <1>2, <1>6, <2>1 DEF SelfPower, IInv, Stages
<1>7. CASE VoterWeights
    <2>1. {Columns(one[2] - localStart(one[1])) : one \in UNION {OnesOfD(ct) : ct \in Cts}}
             \subseteq Keys
        BY ShiftsHaveKeys DEF IInv
    <2> QED
        BY <1>2, <1>7, <2>1 DEF VoterWeights, IInv, Stages
<1>8. CASE Product
    <2>1. {InnerSum(blockSize, layout.votersPerRow), Rows} \subseteq Keys
        BY DEF Keys
    <2>2. {Columns(-shift) : shift \in 1 .. size.b - 1} \subseteq Keys
        BY DEF Keys, ShiftsToSpread
    <2> QED
        BY <1>2, <1>8, <2>1, <2>2 DEF Product, IInv, Stages
<1>9. CASE UNCHANGED vars
    BY <1>2, <1>9 DEF vars, IInv
<1> QED
    BY <1>3, <1>4, <1>5, <1>6, <1>7, <1>8, <1>9 DEF Next

(* No rotation of the tally lacks its Galois key, whatever the delegation  *)
(* matrix and however voters fall on rows and ciphertexts.                 *)
THEOREM RotationsHaveKeys == Spec => []EveryRotationHasAKey
<1>1. IInv => EveryRotationHasAKey
    BY DEF IInv, EveryRotationHasAKey
<1> QED
    BY InitInv, StepInv, <1>1, PTL DEF Spec

----------------------------------------------------------------------------
(* Where slots and voters are.                                             *)

RowOf(v) == localIdx(layout, v) \div layout.votersPerRow
BlockOf(v) == localIdx(layout, v) % layout.votersPerRow

(* What computePackingLayout returns for the blocks of a size.             *)
LEMMA Geometry ==
    ASSUME size \in Sizes
    PROVE  /\ size.cols \in Nat \ {0} /\ blockSize \in Nat \ {0} /\ blockSize <= size.cols
           /\ size.n \in Nat \ {0} /\ size.b \in Nat \ {0} /\ size.k \in Nat \ {0}
           /\ size.b <= blockSize /\ size.k <= blockSize
           /\ layout.votersPerRow \in Nat \ {0}
           /\ layout.votersPerRow * blockSize <= size.cols
           /\ layout.votersPerRow = size.cols \div blockSize
           /\ layout.votersPerCiphertext = 2 * layout.votersPerRow
           /\ layout.colsPerCiphertext = size.cols
           /\ layout.ciphertextCount =
                 ceilDiv(ceilDiv(size.n, layout.votersPerRow), 2)
           /\ Slots = 0 .. 2 * size.cols - 1
<1>1. /\ size.cols \in Nat \ {0} /\ blockSize \in Nat \ {0} /\ blockSize <= size.cols
      /\ size.n \in Nat \ {0} /\ size.b \in Nat \ {0} /\ size.k \in Nat \ {0}
      /\ size.b <= blockSize /\ size.k <= blockSize
      /\ size.rows = 2
    BY SizesAssumption DEF blockSize
<1>2. /\ layout.rowsPerCiphertext = 2
      /\ layout.votersPerRow = size.cols \div blockSize
      /\ layout.votersPerCiphertext = 2 * (size.cols \div blockSize)
      /\ layout.colsPerCiphertext = size.cols
      /\ layout.ciphertextCount = ceilDiv(ceilDiv(size.n, size.cols \div blockSize), 2)
    BY <1>1 DEF layout, computePackingLayout
<1>3. /\ size.cols \div blockSize \in Nat \ {0}
      /\ (size.cols \div blockSize) * blockSize <= size.cols
    BY <1>1, RowShape
<1>4. Slots = 0 .. 2 * size.cols - 1
    BY <1>2 DEF Slots, SlotsOf, MaxSlots
<1> QED
    BY <1>1, <1>2, <1>3, <1>4

(* A slot has a row and a column.                                          *)
LEMMA SlotParts ==
    ASSUME size \in Sizes, NEW s \in Slots
    PROVE  /\ Row(s) \in {0, 1} /\ Col(s) \in 0 .. size.cols - 1
           /\ s = Row(s) * size.cols + Col(s)
<1>1. PICK c \in Nat \ {0} : c = size.cols
    BY Geometry
<1>2. s \in 0 .. 2 * c - 1
    BY <1>1, Geometry
<1>3. s \div c \in Nat /\ s % c \in 0 .. c - 1 /\ s = (s \div c) * c + (s % c)
    <2>1. s \in Nat
        BY <1>1, <1>2
    <2> QED
        BY <1>1, <2>1, Division
<1>4. PICK r \in Nat, e \in 0 .. c - 1 : r = s \div c /\ e = s % c /\ s = r * c + e
    BY <1>3
<1>5. r < 2
    <2> SUFFICES ASSUME 2 <= r PROVE FALSE
        OBVIOUS
    <2>1. \A a \in Nat : a <= r => a * c <= r * c /\ a * c \in Nat
        BY <1>1, <1>4, TimesMonotone
    <2>2. 2 * c <= r * c /\ r * c \in Nat
        BY <1>1, <1>4, <2>1
    <2> QED
        BY <1>1, <1>2, <1>4, <2>2
<1>6. Row(s) = r /\ Col(s) = e
    BY <1>1, <1>4 DEF Row, Col
<1>7. r \in {0, 1}
    BY <1>5
<1> QED
    BY <1>1, <1>4, <1>6, <1>7

(* A row and a column make a slot.                                         *)
LEMMA SlotMade ==
    ASSUME size \in Sizes, NEW r \in {0, 1}, NEW c \in 0 .. size.cols - 1
    PROVE  /\ r * size.cols + c \in Slots
           /\ Row(r * size.cols + c) = r /\ Col(r * size.cols + c) = c
<1>1. PICK m \in Nat \ {0} : m = size.cols /\ c \in 0 .. m - 1
    BY Geometry
<1>2. r * m + c \in 0 .. 2 * m - 1
    BY <1>1
<1>3. r * m + c \in Slots
    BY <1>1, <1>2, Geometry
<1>4. /\ Row(r * m + c) \in {0, 1} /\ Col(r * m + c) \in 0 .. m - 1
      /\ r * m + c = Row(r * m + c) * m + Col(r * m + c)
    BY <1>1, <1>3, SlotParts
<1>5. PICK r2 \in Nat, c2 \in 0 .. m - 1 :
          r2 = Row(r * m + c) /\ c2 = Col(r * m + c) /\ r * m + c = r2 * m + c2
    BY <1>4
<1>6. r2 = r /\ c2 = c
    <2>1. PICK r1 \in Nat, c1 \in 0 .. m - 1 : r1 = r /\ c1 = c
        BY <1>1
    <2>2. r1 * m + c1 = r2 * m + c2
        BY <1>5, <2>1
    <2>3. r1 = r2 /\ c1 = c2
        BY <2>2, DivisionUnique
    <2> QED
        BY <2>1, <2>3
<1> QED
    BY <1>1, <1>3, <1>5, <1>6

(* Every voter has a ciphertext, a row and a whole block of that row.      *)
LEMMA VoterPlace ==
    ASSUME size \in Sizes, NEW v \in Voters(size)
    PROVE  /\ ctIdx(layout, v) \in Cts
           /\ RowOf(v) \in {0, 1} /\ BlockOf(v) \in 0 .. layout.votersPerRow - 1
           /\ BlockOf(v) * blockSize \in Nat
           /\ BlockOf(v) * blockSize + blockSize <= size.cols
           /\ Start(v) = RowOf(v) * size.cols + BlockOf(v) * blockSize
<1>1. PICK m \in Nat \ {0}, w \in Nat \ {0}, per \in Nat \ {0}, n \in Nat \ {0} :
          m = size.cols /\ w = blockSize /\ per = layout.votersPerRow /\ n = size.n
    BY Geometry
<1>2. /\ w <= m /\ per = m \div w /\ layout.votersPerCiphertext = 2 * per
      /\ layout.ciphertextCount = ceilDiv(ceilDiv(n, per), 2)
      /\ layout.colsPerCiphertext = m
    BY <1>1, Geometry
<1>3. v \in 0 .. n - 1 /\ v \in Nat
    BY <1>1 DEF Voters
<1>4. /\ RowOf(v) = (v % (2 * per)) \div per /\ BlockOf(v) = (v % (2 * per)) % per
      /\ ctIdx(layout, v) = v \div (2 * per)
    BY <1>1, <1>2 DEF RowOf, BlockOf, localIdx, ctIdx
<1>5. /\ RowOf(v) \in 0 .. 2 - 1 /\ BlockOf(v) \in 0 .. per - 1
      /\ BlockOf(v) * w \in Nat /\ BlockOf(v) * w + w <= m
    <2>1. PICK rows \in Nat \ {0}, x \in Nat : rows = 2 /\ x = v
        BY <1>3
    <2> DEFINE p == m \div w
               r == (x % (rows * p)) \div p
               i == (x % (rows * p)) % p
    <2>2. w <= m /\ per = m \div w
        BY <1>2
    <2>3. /\ r \in 0 .. rows - 1 /\ i \in 0 .. p - 1
          /\ i * w \in Nat /\ i * w + w <= m
        BY <2>2, Place
    <2>4. RowOf(v) = r /\ BlockOf(v) = i /\ p = per
        BY <1>4, <2>1, <2>2
    <2> HIDE DEF r, i, p
    <2> QED
        BY <2>1, <2>3, <2>4
<1>6. ctIdx(layout, v) \in Cts
    <2> DEFINE total == 1 + (n - 1) \div per
               count == 1 + (total - 1) \div 2
    <2>1. /\ total \in Nat \ {0} /\ count \in Nat \ {0}
          /\ v \div (2 * per) \in 0 .. count - 1
        <3>1. PICK rows \in Nat \ {0} : rows = 2
            OBVIOUS
        <3>2. PICK t, k : t = total /\ k = count /\ k = 1 + (t - 1) \div rows
            BY <3>1
        <3>3. t = 1 + (n - 1) \div per
            BY <3>2
        <3>4. v \in 0 .. n - 1
            BY <1>3
        <3> HIDE DEF count, total
        <3>5. /\ t \in Nat \ {0} /\ k \in Nat \ {0}
              /\ v \div (rows * per) \in 0 .. k - 1
            BY <3>2, <3>3, <3>4, CiphertextExists
        <3> QED
            BY <3>1, <3>2, <3>5
    <2>2. layout.ciphertextCount = count
        BY <1>2, <2>1 DEF ceilDiv
    <2> HIDE DEF total, count
    <2> QED
        BY <1>4, <2>1, <2>2 DEF Cts, Ciphertexts
<1>7. Start(v) = RowOf(v) * m + BlockOf(v) * w
    BY <1>1, <1>2 DEF Start, blockStart, RowOf, BlockOf
<1> QED
    BY <1>1, <1>5, <1>6, <1>7

(* Ciphertext, row and block determine the voter.                          *)
LEMMA VoterThere ==
    ASSUME size \in Sizes, NEW u \in Voters(size), NEW v \in Voters(size),
           ctIdx(layout, u) = ctIdx(layout, v), RowOf(u) = RowOf(v), BlockOf(u) = BlockOf(v)
    PROVE  u = v
<1>1. PICK m \in Nat \ {0}, per \in Nat \ {0} :
          m = layout.votersPerCiphertext /\ per = layout.votersPerRow /\ m = 2 * per
    <2>1. /\ layout.votersPerRow \in Nat \ {0}
          /\ layout.votersPerCiphertext = 2 * layout.votersPerRow
        BY Geometry, Zenon
    <2>2. layout.votersPerCiphertext \in Nat \ {0}
        BY <2>1
    <2> QED
        BY <2>1, <2>2, Zenon
<1>2. u \in Nat /\ v \in Nat
    BY DEF Voters
<1>3. \A x \in Nat, d \in Nat \ {0} :
          x \div d \in Nat /\ x % d \in 0 .. d - 1 /\ x = (x \div d) * d + (x % d)
    BY Division
<1>4. u % m = v % m
    <2>1. PICK a \in Nat, b \in Nat : a = u % m /\ b = v % m
        <3>1. u % m \in 0 .. m - 1 /\ v % m \in 0 .. m - 1
            BY <1>1, <1>2, <1>3
        <3> QED
            BY <3>1
    <2>2. a \div per = b \div per /\ a % per = b % per
        BY <1>1, <2>1 DEF RowOf, BlockOf, localIdx
    <2>3. a = (a \div per) * per + (a % per) /\ b = (b \div per) * per + (b % per)
        BY <1>1, <1>3
    <2> QED
        BY <2>1, <2>2, <2>3
<1>5. u \div m = v \div m
    BY <1>1 DEF ctIdx
<1>6. u = (u \div m) * m + (u % m) /\ v = (v \div m) * m + (v % m)
    BY <1>1, <1>2, <1>3
<1> QED
    BY <1>4, <1>5, <1>6

(* The slots of a voter's block.                                           *)
LEMMA Address ==
    ASSUME size \in Sizes, NEW v \in Voters(size), NEW o \in 0 .. blockSize - 1
    PROVE  /\ Start(v) \in Nat /\ Start(v) + o \in Slots
           /\ BlockOf(v) * blockSize + o \in 0 .. size.cols - 1
           /\ Row(Start(v) + o) = RowOf(v)
           /\ Col(Start(v) + o) = BlockOf(v) * blockSize + o
<1>1. PICK m \in Nat \ {0}, w \in Nat \ {0}, a \in Nat, r \in {0, 1} :
          /\ m = size.cols /\ w = blockSize /\ a = BlockOf(v) * blockSize /\ r = RowOf(v)
          /\ a + w <= m /\ Start(v) = r * m + a /\ o \in 0 .. w - 1
    BY Geometry, VoterPlace
<1>2. a + o \in 0 .. m - 1
    <2>1. PICK z \in Nat : z = o /\ z < w
        BY <1>1
    <2> QED
        BY <1>1, <2>1
<1>3. r * m + (a + o) \in Slots /\ Row(r * m + (a + o)) = r /\ Col(r * m + (a + o)) = a + o
    BY <1>1, <1>2, SlotMade
<1>4. Start(v) \in Nat /\ Start(v) + o = r * m + (a + o)
    BY <1>1
<1> QED
    BY <1>1, <1>2, <1>3, <1>4

(* A slot of a block determines the voter and the offset.                  *)
LEMMA SlotOwner ==
    ASSUME size \in Sizes, NEW u \in Voters(size), NEW v \in Voters(size),
           ctIdx(layout, u) = ctIdx(layout, v),
           NEW o \in 0 .. blockSize - 1, NEW p \in 0 .. blockSize - 1,
           Start(u) + o = Start(v) + p
    PROVE  u = v /\ o = p
<1>1. PICK w \in Nat \ {0}, i \in Nat, j \in Nat :
          w = blockSize /\ i = BlockOf(u) /\ j = BlockOf(v)
    BY Geometry, VoterPlace
<1>2. RowOf(u) = RowOf(v) /\ i * w + o = j * w + p
    BY <1>1, Address
<1>3. i = j /\ o = p
    BY <1>1, <1>2, DivisionUnique
<1> QED
    BY <1>1, <1>2, <1>3, VoterThere

----------------------------------------------------------------------------
(* Arrays of ciphertexts.                                                  *)

Off(width) == 0 .. width - 1

(* val[v][o] is at offset o of voter v's block; all else is zero.          *)
Placed(A, width, val) ==
    /\ A \in [Cts -> [Slots -> Nat]]
    /\ \A v \in Voters(size), o \in Off(width) : At(A, v, o) = val[v][o]
    /\ \A ct \in Cts, s \in Slots : A[ct][s] # 0 =>
          \E v \in Voters(size), o \in Off(width) : ct = ctIdx(layout, v) /\ s = Start(v) + o

(* What sums are taken over is finite.                                     *)
LEMMA FiniteParts ==
    ASSUME size \in Sizes
    PROVE  /\ IsFiniteSet(Cts) /\ IsFiniteSet(Slots) /\ IsFiniteSet(Voters(size))
           /\ IsFiniteSet(Delegates(size)) /\ IsFiniteSet(Candidates(size))
           /\ Voters(size) # {} /\ Cts \subseteq Nat /\ 0 \in Voters(size)
<1>1. PICK n \in Nat \ {0}, k \in Nat \ {0}, b \in Nat \ {0}, c \in Nat \ {0}, per \in Nat \ {0} :
          /\ n = size.n /\ k = size.k /\ b = size.b /\ c = size.cols /\ per = layout.votersPerRow
          /\ Slots = 0 .. 2 * c - 1
    BY Geometry
<1>2. \A m \in Int : IsFiniteSet(0 .. m - 1)
    BY FS_Interval
<1>3. layout.ciphertextCount \in Nat
    <2>1. layout.ciphertextCount = ceilDiv(ceilDiv(n, per), 2)
        BY <1>1, Geometry
    <2> DEFINE total == 1 + (n - 1) \div per
    <2>2. n - 1 \in Nat
        OBVIOUS
    <2>3. total \in Nat \ {0} /\ ceilDiv(n, per) = total
        BY <2>2, Division DEF ceilDiv
    <2> HIDE DEF total
    <2> QED
        BY <2>1, <2>3 DEF ceilDiv
<1>4. Voters(size) = 0 .. n - 1 /\ Delegates(size) = 0 .. k - 1 /\ Candidates(size) = 0 .. b - 1
    BY <1>1 DEF Voters, Delegates, Candidates
<1>5. 0 \in Voters(size) /\ 2 * c \in Int
    BY <1>4
<1>6. Cts \subseteq Nat
    BY DEF Cts, Ciphertexts
<1>7. IsFiniteSet(Voters(size)) /\ IsFiniteSet(Delegates(size)) /\ IsFiniteSet(Candidates(size))
    BY <1>2, <1>4
<1>8. IsFiniteSet(Slots)
    BY <1>1, <1>2, <1>5
<1>9. IsFiniteSet(Cts)
    <2>1. layout.ciphertextCount \in Int
        BY <1>3
    <2> QED
        BY <1>2, <2>1 DEF Cts, Ciphertexts
<1> QED
    BY <1>5, <1>6, <1>7, <1>8, <1>9

(* A bound on the values is one on all slots: the others are zero.         *)
LEMMA PlacedBounded ==
    ASSUME NEW A, NEW width, NEW val, NEW bound \in Nat, Placed(A, width, val),
           \A v \in Voters(size), o \in Off(width) : val[v][o] \in 0 .. bound
    PROVE  A \in [Cts -> [Slots -> 0 .. bound]]
<1>1. ASSUME NEW ct \in Cts, NEW s \in Slots
      PROVE  A[ct][s] \in 0 .. bound
    <2>1. CASE A[ct][s] = 0
        BY <2>1
    <2>2. CASE A[ct][s] # 0
        <3>1. PICK v \in Voters(size), o \in Off(width) : ct = ctIdx(layout, v) /\ s = Start(v) + o
            BY <2>2 DEF Placed
        <3>2. A[ct][s] = val[v][o]
            BY <3>1 DEF Placed, At
        <3> QED
            BY <3>2
    <2> QED
        BY <2>1, <2>2
<1>2. A \in [Cts -> [Slots -> Nat]]
    BY DEF Placed
<1> QED
    BY <1>1, <1>2

(* Offsets that hold nothing need not be counted.                          *)
LEMMA PlacedNarrow ==
    ASSUME NEW A, NEW width \in Nat, NEW narrow \in 0 .. width, NEW val, Placed(A, width, val),
           \A v \in Voters(size), o \in narrow .. width - 1 : val[v][o] = 0
    PROVE  Placed(A, narrow, val)
<1>1. Off(narrow) \subseteq Off(width) /\ \A o \in Off(width) \ Off(narrow) : o \in narrow .. width - 1
    BY DEF Off
<1>2. ASSUME NEW ct \in Cts, NEW s \in Slots, A[ct][s] # 0
      PROVE  \E v \in Voters(size), o \in Off(narrow) : ct = ctIdx(layout, v) /\ s = Start(v) + o
    <2>1. PICK v \in Voters(size), o \in Off(width) : ct = ctIdx(layout, v) /\ s = Start(v) + o
        BY <1>2 DEF Placed
    <2>2. A[ct][s] = val[v][o]
        BY <2>1 DEF Placed, At
    <2>3. o \in Off(narrow)
        BY <1>1, <1>2, <2>2
    <2> QED
        BY <2>1, <2>3
<1> QED
    BY <1>1, <1>2 DEF Placed

(* Placed looks at values only.                                            *)
LEMMA PlacedSame ==
    ASSUME NEW A, NEW width, NEW val, NEW new, Placed(A, width, val),
           \A v \in Voters(size), o \in Off(width) : new[v][o] = val[v][o]
    PROVE  Placed(A, width, new)
BY DEF Placed

(* A product with an array of blocks.                                      *)
Multiplies(A, val, width, new) ==
    \A v \in Voters(size), o \in Off(width) : (At(A, v, o) * val[v][o]) % Modulus = new[v][o]

(* A product is where its second factor is, whatever else the first holds. *)
LEMMA TimesPlaced ==
    ASSUME size \in Sizes, Modulus \in Nat \ {0},
           NEW A, NEW B, NEW C, NEW width \in Nat, width <= blockSize, NEW val, NEW new,
           A \in [Cts -> [Slots -> Int]], Placed(B, width, val),
           C = [ct \in Cts |-> Times(A[ct], B[ct])],
           Multiplies(A, val, width, new)
    PROVE  Placed(C, width, new)
<1> USE DEF Multiplies
<1>1. \A ct \in Cts, s \in Slots : C[ct][s] = (A[ct][s] * B[ct][s]) % Modulus
    BY DEF Times
<1>2. \A ct \in Cts, s \in Slots : A[ct][s] \in Int /\ B[ct][s] \in Nat
    BY DEF Placed
<1>3. \A ct \in Cts, s \in Slots : C[ct][s] \in Nat /\ (B[ct][s] = 0 => C[ct][s] = 0)
    <2> SUFFICES ASSUME NEW ct \in Cts, NEW s \in Slots
                 PROVE  C[ct][s] \in Nat /\ (B[ct][s] = 0 => C[ct][s] = 0)
        OBVIOUS
    <2>1. PICK a \in Int, b \in Nat : a = A[ct][s] /\ b = B[ct][s]
        BY <1>2
    <2>2. a * b \in Int /\ (b = 0 => a * b = 0)
        OBVIOUS
    <2>3. (a * b) % Modulus \in Nat /\ (b = 0 => (a * b) % Modulus = 0)
        BY <2>2
    <2> QED
        BY <1>1, <2>1, <2>3
<1>4. C \in [Cts -> [Slots -> Nat]]
    BY <1>3 DEF Times
<1>5. ASSUME NEW v \in Voters(size), NEW o \in Off(width)
      PROVE  At(C, v, o) = new[v][o]
    <2>1. ctIdx(layout, v) \in Cts /\ Start(v) + o \in Slots
        <3>1. o \in 0 .. blockSize - 1
            BY Geometry DEF Off
        <3> QED
            BY <3>1, VoterPlace, Address
    <2>2. At(B, v, o) = val[v][o]
        BY DEF Placed
    <2> QED
        BY <1>1, <2>1, <2>2 DEF At
<1>6. ASSUME NEW ct \in Cts, NEW s \in Slots, C[ct][s] # 0
      PROVE  \E v \in Voters(size), o \in Off(width) : ct = ctIdx(layout, v) /\ s = Start(v) + o
    BY <1>3, <1>6 DEF Placed
<1> QED
    BY <1>4, <1>5, <1>6 DEF Placed

(* The voters main counts in a ciphertext are those packed into it.        *)
LEMMA VotersOf ==
    ASSUME size \in Sizes, NEW ct \in Cts
    PROVE  VotersIn(ct) = {v \in Voters(size) : ctIdx(layout, v) = ct}
<1>1. PICK m \in Nat \ {0}, n \in Nat \ {0} : m = layout.votersPerCiphertext /\ n = size.n
    <2>1. /\ size.n \in Nat \ {0} /\ layout.votersPerRow \in Nat \ {0}
          /\ layout.votersPerCiphertext = 2 * layout.votersPerRow
        BY Geometry, Zenon
    <2>2. layout.votersPerCiphertext \in Nat \ {0}
        BY <2>1
    <2> QED
        BY <2>1, <2>2, Zenon
<1>2. ct \in Nat
    BY FiniteParts
<1>3. PICK left \in Int : left = n - ct * m
    BY <1>2
<1>4. votersInCt(layout, size.n, ct) = IF left < m THEN left ELSE m
    BY <1>1, <1>3 DEF votersInCt
<1>5. ASSUME NEW v \in VotersIn(ct)
      PROVE  v \in Voters(size) /\ ctIdx(layout, v) = ct
    <2>1. PICK i \in 0 .. votersInCt(layout, size.n, ct) - 1 : v = Global(ct, i)
        BY DEF VotersIn
    <2>2. PICK j \in 0 .. m - 1 : j = i /\ j < left
        BY <1>3, <1>4
    <2>3. v = ct * m + j /\ v \in 0 .. n - 1
        <3>1. PICK z \in Nat : z = ct * m
            BY <1>2
        <3>2. v = z + j
            BY <1>1, <2>1, <2>2, <3>1 DEF Global
        <3> QED
            BY <1>3, <2>2, <3>1, <3>2
    <2>4. v \div m \in Nat /\ v % m \in 0 .. m - 1 /\ v = (v \div m) * m + (v % m)
        <3>1. v \in Nat
            BY <2>3
        <3> QED
            BY <3>1, Division
    <2>5. PICK p \in Nat, e \in 0 .. m - 1 : p = v \div m /\ p * m + e = ct * m + j
        BY <2>3, <2>4
    <2>6. p = ct
        BY <1>2, <2>5, DivisionUnique
    <2> QED
        BY <1>1, <2>3, <2>5, <2>6 DEF Voters, ctIdx
<1>6. ASSUME NEW v \in Voters(size), ctIdx(layout, v) = ct
      PROVE  v \in VotersIn(ct)
    <2>1. v \in 0 .. n - 1 /\ v \in Nat
        BY <1>1 DEF Voters
    <2>2. v \div m = ct
        BY <1>1, <1>6 DEF ctIdx
    <2>3. v % m \in 0 .. m - 1 /\ v = (v \div m) * m + (v % m)
        BY <2>1, Division
    <2>4. PICK e \in 0 .. m - 1 : e = v % m
        BY <2>3
    <2>5. v = ct * m + e
        BY <2>2, <2>3, <2>4
    <2>6. e < left
        <3>1. PICK z \in Nat : z = ct * m
            BY <1>2
        <3> QED
            BY <1>3, <2>1, <2>5, <3>1
    <2>7. e \in 0 .. votersInCt(layout, size.n, ct) - 1
        BY <1>4, <2>6
    <2>8. v = Global(ct, e)
        BY <1>1, <2>5 DEF Global
    <2> QED
        BY <2>7, <2>8 DEF VotersIn
<1> QED
    BY <1>5, <1>6

(* Packing puts every value where decoding looks for it, and nothing else. *)
LEMMA PackedIsPlaced ==
    ASSUME size \in Sizes, NEW width \in Nat, width <= blockSize, NEW values,
           \A v \in Voters(size), o \in Off(width) : values[v][o] \in Nat
    PROVE  Placed(Packed(values, width), width, values)
<1> DEFINE A == Packed(values, width)
           owner(ct, s) == {v \in VotersIn(ct) : s - Start(v) \in 0 .. width - 1}
           held(ct, s) == CHOOSE o \in owner(ct, s) : TRUE
<1>1. \A o \in Off(width) : o \in 0 .. blockSize - 1
    BY Geometry DEF Off
<1>2. ASSUME NEW ct \in Cts, NEW s \in Slots
      PROVE  A[ct][s] = IF owner(ct, s) = {} THEN 0
                        ELSE values[held(ct, s)][s - Start(held(ct, s))]
    BY DEF Packed
<1>3. ASSUME NEW ct \in Cts, NEW s \in Slots, NEW v \in owner(ct, s)
      PROVE  /\ v \in Voters(size) /\ ctIdx(layout, v) = ct
             /\ s - Start(v) \in Off(width) /\ s = Start(v) + (s - Start(v))
    <2>1. v \in Voters(size) /\ ctIdx(layout, v) = ct
        BY VotersOf
    <2>2. Start(v) \in Nat /\ s \in Nat
        <3>1. 0 \in 0 .. blockSize - 1
            BY Geometry
        <3> QED
            BY <2>1, <3>1, Address, Geometry
    <2> QED
        BY <2>1, <2>2 DEF Off
<1>4. ASSUME NEW v \in Voters(size), NEW o \in Off(width)
      PROVE  /\ ctIdx(layout, v) \in Cts /\ Start(v) + o \in Slots
             /\ owner(ctIdx(layout, v), Start(v) + o) = {v}
             /\ (Start(v) + o) - Start(v) = o
    <2>1. ctIdx(layout, v) \in Cts /\ Start(v) \in Nat /\ Start(v) + o \in Slots
        BY <1>1, VoterPlace, Address
    <2>2. (Start(v) + o) - Start(v) = o
        BY <2>1 DEF Off
    <2>3. v \in owner(ctIdx(layout, v), Start(v) + o)
        BY <2>1, <2>2, VotersOf DEF Off
    <2>4. ASSUME NEW u \in owner(ctIdx(layout, v), Start(v) + o)
          PROVE  u = v
        <3> DEFINE p == (Start(v) + o) - Start(u)
        <3>1. u \in Voters(size) /\ ctIdx(layout, u) = ctIdx(layout, v) /\ p \in Off(width)
              /\ Start(v) + o = Start(u) + p
            BY <1>3, <2>1
        <3> HIDE DEF p
        <3> QED
            BY <1>1, <3>1, SlotOwner
    <2> QED
        BY <2>1, <2>2, <2>3, <2>4
<1>5. ASSUME NEW ct \in Cts, NEW s \in Slots
      PROVE  /\ A[ct][s] \in Nat
             /\ A[ct][s] # 0 =>
                   \E v \in Voters(size), o \in Off(width) : ct = ctIdx(layout, v) /\ s = Start(v) + o
    <2>1. CASE owner(ct, s) = {}
        BY <1>2, <2>1
    <2>2. CASE owner(ct, s) # {}
        <3>1. held(ct, s) \in owner(ct, s)
            BY <2>2
        <3> DEFINE u == held(ct, s)
        <3> HIDE DEF held, owner, A
        <3>2. /\ u \in Voters(size) /\ ctIdx(layout, u) = ct
              /\ s - Start(u) \in Off(width) /\ s = Start(u) + (s - Start(u))
            BY <1>3, <3>1
        <3>3. A[ct][s] = values[u][s - Start(u)]
            BY <1>2, <2>2
        <3> QED
            BY <3>2, <3>3
    <2> QED
        BY <2>1, <2>2
<1>6. ASSUME NEW v \in Voters(size), NEW o \in Off(width)
      PROVE  At(A, v, o) = values[v][o]
    <2>1. held(ctIdx(layout, v), Start(v) + o) = v
        <3>1. owner(ctIdx(layout, v), Start(v) + o) = {v}
            BY <1>4
        <3> HIDE DEF owner
        <3> QED
            BY <3>1
    <2> HIDE DEF held, owner, A
    <2> QED
        BY <1>2, <1>4, <2>1 DEF At
<1>7. A \in [Cts -> [Slots -> Nat]]
    <2>1. A = [ct \in Cts |-> [s \in Slots |-> A[ct][s]]]
        BY DEF Packed
    <2> HIDE DEF A
    <2>2. \A ct \in Cts, s \in Slots : A[ct][s] \in Nat
        BY <1>5
    <2> QED
        BY <2>1, <2>2
<1> HIDE DEF A
<1>8. Placed(A, width, values)
    BY <1>5, <1>6, <1>7 DEF Placed
<1> QED
    BY <1>8 DEF A

----------------------------------------------------------------------------
(* The evaluator's sums.                                                   *)

(* The modulus is a divisor.                                               *)
LEMMA ModulusPositive == Modulus \in Nat \ {0}
BY ModulusAssumption, PeriodsAssumption

(* A fold over terms is the sum of a function with those terms: the fold   *)
(* chooses among functions that add the terms up, and there is just one.   *)
LEMMA TotalIs ==
    ASSUME NEW array, NEW S, IsFiniteSet(S), NEW s \in Slots, NEW f,
           \A i \in S : f[i] = array[i][s]
    PROVE  Total(array, S)[s] = SumOver(f, S) % Modulus
<1> DEFINE Adding(h) ==
               h = [u \in SUBSET S |->
                       IF u = {} THEN 0
                       ELSE array[CHOOSE x \in u : TRUE][s] + h[u \ {CHOOSE x \in u : TRUE}]]
           sum == CHOOSE h : Adding(h)
<1>1. Total(array, S)[s] = sum[S] % Modulus
    BY DEF Total, MapThenSumSet, MapThenFoldSet
<1>2. PICK h : Adds(h, f, S)
    BY AddsExists
<1>3. \A u \in SUBSET S : u # {} => f[CHOOSE x \in u : TRUE] = array[CHOOSE x \in u : TRUE][s]
    OBVIOUS
<1>4. Adding(h)
    BY <1>2, <1>3 DEF Adds
<1> HIDE DEF Adding
<1>5. Adding(sum)
    BY <1>4
<1> HIDE DEF sum
<1>6. Adds(sum, f, S)
    BY <1>3, <1>5 DEF Adds, Adding
<1>7. sum[S] = SumOver(f, S)
    BY <1>6, SumAdds
<1> QED
    BY <1>1, <1>7

(* The slot that a rotation by a number of columns brings to s.            *)
Shifted(s, by) == Row(s) * size.cols + ((Col(s) + by) % size.cols)

(* A rotation stays in its row.                                            *)
LEMMA ShiftedSlot ==
    ASSUME size \in Sizes, NEW s \in Slots, NEW by \in Int
    PROVE  /\ Shifted(s, by) \in Slots /\ Row(Shifted(s, by)) = Row(s)
           /\ Col(Shifted(s, by)) = (Col(s) + by) % size.cols
           /\ Col(Shifted(s, by)) \in 0 .. size.cols - 1
<1>1. PICK c \in Nat \ {0}, e \in Nat : c = size.cols /\ e = Col(s)
    BY Geometry, SlotParts
<1>2. (e + by) % c \in 0 .. c - 1
    OBVIOUS
<1>3. Row(s) \in {0, 1} /\ (Col(s) + by) % size.cols \in 0 .. size.cols - 1
    BY <1>1, <1>2, SlotParts
<1> QED
    BY <1>3, SlotMade DEF Shifted

(* f collects the slots that the rotations bring to s.                     *)
Reads(f, x, batch, times, s) == \A j \in 0 .. times - 1 : f[j] = x[Shifted(s, j * batch)]

(* The inner sum adds what its rotations bring.                            *)
LEMMA RotateAndAddIs ==
    ASSUME size \in Sizes, NEW x, NEW batch, NEW times \in Nat, NEW s \in Slots, NEW f,
           Reads(f, x, batch, times, s)
    PROVE  RotateAndAdd(x, batch, times)[s] = SumOver(f, 0 .. times - 1) % Modulus
<1> USE DEF Reads
<1> DEFINE RowBlocks == 0 .. times - 1
           array == [j \in RowBlocks |-> RotateColumns(x, j * batch)]
<1>1. IsFiniteSet(RowBlocks)
    BY FS_Interval
<1>2. \A j \in RowBlocks : f[j] = array[j][s]
    BY DEF RotateColumns, Shifted
<1> HIDE DEF array, RowBlocks
<1>3. Total(array, RowBlocks)[s] = SumOver(f, RowBlocks) % Modulus
    BY <1>1, <1>2, TotalIs
<1> QED
    BY <1>3 DEF RotateAndAdd, array, RowBlocks

----------------------------------------------------------------------------
(* Gathering blocks: SumBlocks and the sum over ciphertexts.               *)

RowBlocks == 0 .. layout.votersPerRow - 1
Blocks == {0, 1} \X RowBlocks

(* The slot that is brought to s from block p[2] further on, in row p[1].  *)
Hit(s, p) == p[1] * size.cols + ((Col(s) + p[2] * blockSize) % size.cols)

(* Blocks, rows and ciphertexts are finitely many.                         *)
LEMMA Parts ==
    ASSUME size \in Sizes
    PROVE  IsFiniteSet(RowBlocks) /\ IsFiniteSet({0, 1}) /\ IsFiniteSet(Blocks) /\ IsFiniteSet(Cts \X Blocks)
<1>1. IsFiniteSet(RowBlocks)
    <2>1. layout.votersPerRow - 1 \in Int
        BY Geometry
    <2> QED
        BY <2>1, FS_Interval DEF RowBlocks
<1>2. IsFiniteSet({0, 1})
    <2>1. IsFiniteSet({0})
        BY FS_Singleton
    <2>2. IsFiniteSet({0} \cup {1})
        BY <2>1, FS_AddElement
    <2>3. {0, 1} = {0} \cup {1}
        OBVIOUS
    <2> QED
        BY <2>2, <2>3
<1> QED
    BY <1>1, <1>2, FiniteParts, FS_Product DEF Blocks

(* Where a slot of one block is in another block.                          *)
LEMMA HitSlot ==
    ASSUME size \in Sizes, NEW s \in Slots, NEW p \in Blocks
    PROVE  /\ Hit(s, p) \in Slots /\ Row(Hit(s, p)) = p[1]
           /\ Col(Hit(s, p)) = (Col(s) + p[2] * blockSize) % size.cols
<1>1. PICK c \in Nat \ {0}, e \in Nat, w \in Nat, j \in Nat :
          c = size.cols /\ e = Col(s) /\ w = blockSize /\ j = p[2]
    BY Geometry, SlotParts DEF Blocks, RowBlocks
<1>2. j * w \in Nat
    OBVIOUS
<1>3. (e + j * w) % c \in 0 .. c - 1
    BY <1>2
<1>4. p[1] \in {0, 1} /\ (Col(s) + p[2] * blockSize) % size.cols \in 0 .. size.cols - 1
    BY <1>1, <1>3 DEF Blocks
<1> QED
    BY <1>4, SlotMade DEF Hit

(* Blocks further on by different numbers are different.                   *)
LEMMA HitOnce ==
    ASSUME size \in Sizes, NEW s \in Slots, NEW p \in Blocks, NEW r \in Blocks, Hit(s, p) = Hit(s, r)
    PROVE  p = r
<1>1. PICK c \in Nat \ {0}, e \in Nat, w \in Nat \ {0}, i \in RowBlocks, j \in RowBlocks :
          /\ c = size.cols /\ e = Col(s) /\ e < c /\ w = blockSize /\ i = p[2] /\ j = r[2]
    <2>1. p[2] \in RowBlocks /\ r[2] \in RowBlocks
        BY DEF Blocks
    <2>2. Col(s) \in Nat /\ Col(s) < size.cols
        BY Geometry, SlotParts
    <2> QED
        BY <2>1, <2>2, Geometry
<1>2. PICK per \in Nat \ {0} : per = layout.votersPerRow /\ per * w <= c
    BY <1>1, Geometry
<1>3. i \in Nat /\ j \in Nat /\ i < per /\ j < per
    BY <1>2 DEF RowBlocks
<1>4. PICK a \in Nat, b \in Nat :
          /\ a = i * w /\ b = j * w /\ a + w <= c /\ b + w <= c
    <2>1. \A x \in Nat : x < per => x * w \in Nat /\ x * w + w <= c
        <3> SUFFICES ASSUME NEW x \in Nat, x < per PROVE x * w \in Nat /\ x * w + w <= c
            OBVIOUS
        <3>1. (x + 1) * w <= per * w /\ (x + 1) * w \in Nat
            BY TimesMonotone
        <3>2. (x + 1) * w = x * w + w /\ x * w \in Nat /\ per * w \in Nat
            OBVIOUS
        <3> QED
            BY <1>2, <3>1, <3>2
    <2> QED
        BY <1>3, <2>1
<1>5. p[1] = r[1] /\ (e + a) % c = (e + b) % c
    <2>1. /\ Row(Hit(s, p)) = p[1] /\ Col(Hit(s, p)) = (e + a) % c
          /\ Row(Hit(s, r)) = r[1] /\ Col(Hit(s, r)) = (e + b) % c
        BY <1>1, <1>4, HitSlot
    <2> QED
        BY <2>1
<1>6. a = b
    <2>1. PICK u \in Int, v \in Int, z \in Int :
              e + a = c * u + z /\ e + b = c * v + z
        <3>1. \A x \in Nat : x = c * (x \div c) + (x % c) /\ x \div c \in Int /\ x % c \in Int
            OBVIOUS
        <3>2. e + a \in Nat /\ e + b \in Nat
            OBVIOUS
        <3>3. PICK x \in Nat, y \in Nat : x = e + a /\ y = e + b /\ x % c = y % c
            BY <1>5, <3>2
        <3>4. /\ x = c * (x \div c) + (x % c) /\ x \div c \in Int /\ x % c \in Int
              /\ y = c * (y \div c) + (x % c) /\ y \div c \in Int
            BY <3>1, <3>3
        <3> QED
            BY <3>3, <3>4
    <2>2. a - b = c * (u - v)
        BY <2>1
    <2>3. u = v
        <3>1. CASE u - v >= 1
            <4>1. c * (u - v) >= c
                BY <3>1
            <4> QED
                BY <1>4, <2>2, <4>1
        <3>2. CASE u - v <= -1
            <4>1. c * (u - v) <= -c
                BY <3>2
            <4> QED
                BY <1>4, <2>2, <4>1
        <3> QED
            BY <3>1, <3>2
    <2> QED
        BY <2>2, <2>3
<1>7. i = j
    <2>1. \A x, y \in Nat : x * w = y * w => x = y
        <3> SUFFICES ASSUME NEW x \in Nat, NEW y \in Nat, x * w = y * w PROVE x = y
            OBVIOUS
        <3>1. 0 \in 0 .. w - 1 /\ x * w + 0 = y * w + 0
            OBVIOUS
        <3> QED
            BY <3>1, DivisionUnique
    <2> QED
        BY <1>3, <1>4, <1>6, <2>1
<1>8. p = <<p[1], p[2]>> /\ r = <<r[1], r[2]>>
    BY DEF Blocks
<1> QED
    BY <1>1, <1>5, <1>7, <1>8

(* A sum over two indices.                                                 *)
LEMMA SumOfTwo ==
    ASSUME NEW f, f[0] \in Int, f[1] \in Int
    PROVE  SumOver(f, {0, 1}) = f[0] + f[1]
<1>1. IsFiniteSet({0}) /\ IsFiniteSet({}) /\ {0, 1} = {0} \cup {1} /\ {0} = {} \cup {0}
    BY FS_Singleton, FS_EmptySet
<1>2. SumOver(f, {0}) = f[0]
    <2>1. \A y \in {0} \ {0} : f[y] = 0
        OBVIOUS
    <2> QED
        BY <1>1, <2>1, SumOfOne
<1>3. SumOver(f, {0} \cup {1}) = f[1] + SumOver(f, {0})
    <2>1. 1 \notin {0} /\ \A y \in {0} \cup {1} : f[y] \in Int
        OBVIOUS
    <2> QED
        BY <1>1, <2>1, SumAdd
<1>4. PICK a \in Int, b \in Int : a = f[0] /\ b = f[1]
    OBVIOUS
<1>5. PICK x, y : x = SumOver(f, {0, 1}) /\ y = SumOver(f, {0} \cup {1}) /\ x = y
    BY <1>1
<1>6. y = b + a
    BY <1>2, <1>3, <1>4, <1>5
<1>7. x = a + b
    BY <1>4, <1>5, <1>6
<1> QED
    BY <1>4, <1>5, <1>7

(* Summing blocks adds every block of both rows, modulo the modulus once.  *)
LEMMA SumBlocksIs ==
    ASSUME size \in Sizes, NEW x \in [Slots -> Nat], NEW s \in Slots, NEW f,
           \A p \in Blocks : f[p] = x[Hit(s, p)]
    PROVE  SumBlocks(x)[s] = SumOver(f, Blocks) % Modulus
<1> DEFINE rows == RotateAndAdd(x, blockSize, layout.votersPerRow)
           part == [r \in {0, 1} |-> [j \in RowBlocks |-> f[<<r, j>>]]]
           F == [r \in {0, 1} |-> SumOver(part[r], RowBlocks)]
<1>1. \A r \in {0, 1}, j \in RowBlocks : part[r][j] \in Nat /\ part[r][j] = f[<<r, j>>]
    BY HitSlot DEF Blocks
<1>2. F[0] \in Nat /\ F[1] \in Nat
    BY <1>1, Parts, SumOfNaturals
<1>3. SumOver(f, Blocks) = F[0] + F[1]
    <2>1. \A r \in {0, 1}, j \in RowBlocks : f[<<r, j>>] \in Int
        BY <1>1
    <2>2. \A r \in {0, 1} : F[r] = SumOver(part[r], RowBlocks)
        OBVIOUS
    <2> DEFINE B == {0, 1}
    <2>4. IsFiniteSet(B) /\ IsFiniteSet(RowBlocks) /\ Blocks = B \X RowBlocks
        BY Parts DEF Blocks
    <2>5. /\ \A r \in B, j \in RowBlocks : f[<<r, j>>] \in Int /\ part[r][j] = f[<<r, j>>]
          /\ \A r \in B : F[r] = SumOver(part[r], RowBlocks)
        BY <1>1, <2>1, <2>2
    <2> HIDE DEF F, part, B
    <2>6. SumOver(f, B \X RowBlocks) = SumOver(F, B)
        BY <2>4, <2>5, SumOfPairs
    <2>3. SumOver(f, Blocks) = SumOver(F, {0, 1})
        BY <2>4, <2>6 DEF B
    <2> QED
        BY <1>2, <2>3, SumOfTwo
<1>4. ASSUME NEW y \in Slots, Col(y) = Col(s)
      PROVE  rows[y] = F[Row(y)] % Modulus
    <2>1. Row(y) \in {0, 1}
        BY SlotParts
    <2> DEFINE g == part[Row(y)]
    <2>2. \A j \in RowBlocks : g[j] = x[Shifted(y, j * blockSize)]
        BY <1>4, <2>1 DEF Blocks, Hit, Shifted
    <2> HIDE DEF g
    <2>4. \A j \in 0 .. layout.votersPerRow - 1 : g[j] = x[Shifted(y, j * blockSize)]
        BY <2>2 DEF RowBlocks
    <2>5. layout.votersPerRow \in Nat /\ Reads(g, x, blockSize, layout.votersPerRow, y)
        BY <2>4, Geometry DEF Reads
    <2>3. rows[y] = SumOver(g, RowBlocks) % Modulus
        BY <2>5, RotateAndAddIs DEF RowBlocks
    <2> QED
        BY <2>1, <2>3 DEF g
<1>5. PICK r \in {0, 1}, y \in Slots :
          /\ r = Row(s) /\ y = (1 - Row(s)) * size.cols + Col(s) /\ Row(y) = 1 - r /\ Col(y) = Col(s)
    <2>1. Row(s) \in {0, 1} /\ 1 - Row(s) \in {0, 1} /\ Col(s) \in 0 .. size.cols - 1
        BY SlotParts
    <2> QED
        BY <2>1, SlotMade
<1>6. SumBlocks(x)[s] = (rows[s] + rows[y]) % Modulus
    BY <1>5 DEF SumBlocks, Plus, RotateRows
<1>7. rows[s] = F[r] % Modulus /\ rows[y] = F[1 - r] % Modulus
    BY <1>4, <1>5
<1> HIDE DEF F, rows
<1>8. PICK a \in Int, b \in Int, m \in Nat \ {0} : a = F[0] /\ b = F[1] /\ m = Modulus
    BY <1>2, ModulusPositive
<1>9. SumBlocks(x)[s] = ((a % m) + (b % m)) % m
    <2>1. PICK e \in Int, g \in Int : e = a % m /\ g = b % m
        OBVIOUS
    <2>2. SumBlocks(x)[s] = (e + g) % m \/ SumBlocks(x)[s] = (g + e) % m
        <3>1. CASE r = 0
            BY <1>6, <1>7, <1>8, <2>1, <3>1
        <3>2. CASE r = 1
            BY <1>6, <1>7, <1>8, <2>1, <3>2
        <3> QED
            BY <3>1, <3>2
    <2> QED
        BY <2>1, <2>2
<1>10. ((a % m) + (b % m)) % m = (a + b) % m
    <2>1. PICK z \in Int : z = b % m
        OBVIOUS
    <2>2. ((a % m) + z) % m = (a + z) % m
        BY ModPlus
    <2>3. ((b % m) + a) % m = (b + a) % m
        BY ModPlus
    <2>4. a + z = z + a /\ a + b = b + a
        OBVIOUS
    <2> QED
        BY <2>1, <2>2, <2>3, <2>4
<1> QED
    BY <1>3, <1>8, <1>9, <1>10

(* All slots that are brought to s, of all ciphertexts.                    *)
Brought(X, s) == [p \in Cts \X Blocks |-> X[p[1]][Hit(s, p[2])]]
Gathered(X, s) == SumOver(Brought(X, s), Cts \X Blocks)

(* What the blocks bring to a slot are natural numbers.                    *)
LEMMA BroughtNat ==
    ASSUME size \in Sizes, NEW X \in [Cts -> [Slots -> Nat]], NEW s \in Slots
    PROVE  /\ \A ct \in Cts, p \in Blocks : /\ Brought(X, s)[<<ct, p>>] = X[ct][Hit(s, p)]
                                       /\ X[ct][Hit(s, p)] \in Nat
           /\ \A p \in Cts \X Blocks : Brought(X, s)[p] \in Nat
BY HitSlot DEF Brought

(* F sums the rows of f over T.                                            *)
SumsOfRows(f, S, T, row, F) ==
    /\ \A x \in S, y \in T : f[<<x, y>>] \in Int /\ row[x][y] = f[<<x, y>>]
    /\ \A x \in S : F[x] = SumOver(row[x], T)

LEMMA SumByRows ==
    ASSUME NEW f, NEW S, NEW T, NEW row, NEW F, IsFiniteSet(S), IsFiniteSet(T),
           SumsOfRows(f, S, T, row, F)
    PROVE  SumOver(f, S \X T) = SumOver(F, S)
<1>1. /\ \A x \in S, y \in T : f[<<x, y>>] \in Int
      /\ \A x \in S, y \in T : row[x][y] = f[<<x, y>>]
      /\ \A x \in S : F[x] = SumOver(row[x], T)
    BY DEF SumsOfRows
<1> QED
    BY <1>1, SumOfPairs

(* F sums the columns of f over S.                                         *)
SumsOfColumns(f, S, T, col, F) ==
    /\ \A x \in S, y \in T : f[<<x, y>>] \in Int /\ col[y][x] = f[<<x, y>>]
    /\ \A y \in T : F[y] = SumOver(col[y], S)

LEMMA SumByColumns ==
    ASSUME NEW f, NEW S, NEW T, NEW col, NEW F, IsFiniteSet(S), IsFiniteSet(T),
           SumsOfColumns(f, S, T, col, F)
    PROVE  SumOver(f, S \X T) = SumOver(F, T)
<1>1. /\ \A x \in S, y \in T : f[<<x, y>>] \in Int
      /\ \A x \in S, y \in T : col[y][x] = f[<<x, y>>]
      /\ \A y \in T : F[y] = SumOver(col[y], S)
    BY DEF SumsOfColumns
<1> QED
    BY <1>1, SumOfPairsSwapped

(* The blocks of each ciphertext are summed, then the ciphertexts.         *)
LEMMA BlocksThenCiphertexts ==
    ASSUME size \in Sizes, NEW X \in [Cts -> [Slots -> Nat]], NEW s \in Slots
    PROVE  Total([ct \in Cts |-> SumBlocks(X[ct])], Cts)[s] = Gathered(X, s) % Modulus
<1> DEFINE array == [ct \in Cts |-> SumBlocks(X[ct])]
           row == [ct \in Cts |-> [p \in Blocks |-> X[ct][Hit(s, p)]]]
           F == [ct \in Cts |-> SumOver(row[ct], Blocks)]
           g == [ct \in Cts |-> array[ct][s]]
           b == Brought(X, s)
<1>1. \A ct \in Cts, p \in Blocks : row[ct][p] \in Int /\ row[ct][p] = b[<<ct, p>>]
                                /\ b[<<ct, p>>] \in Int
    <2> SUFFICES ASSUME NEW ct \in Cts, NEW p \in Blocks
                 PROVE  row[ct][p] \in Int /\ row[ct][p] = b[<<ct, p>>] /\ b[<<ct, p>>] \in Int
        OBVIOUS
    <2>1. b[<<ct, p>>] = X[ct][Hit(s, p)] /\ X[ct][Hit(s, p)] \in Nat
        BY BroughtNat
    <2>2. row[ct][p] = X[ct][Hit(s, p)]
        OBVIOUS
    <2> HIDE DEF row, b
    <2> QED
        BY <2>1, <2>2
<1>2. \A ct \in Cts : F[ct] = SumOver(row[ct], Blocks) /\ F[ct] \in Int
    <2> SUFFICES ASSUME NEW ct \in Cts PROVE SumOver(row[ct], Blocks) \in Int
        OBVIOUS
    <2> HIDE DEF row, b
    <2>1. \A p \in Blocks : row[ct][p] \in Int
        BY <1>1
    <2> QED
        BY <2>1, Parts, SumInteger
<1>3. \A ct \in Cts : g[ct] = F[ct] % Modulus
    <2> SUFFICES ASSUME NEW ct \in Cts PROVE SumBlocks(X[ct])[s] = SumOver(row[ct], Blocks) % Modulus
        OBVIOUS
    <2>1. X[ct] \in [Slots -> Nat] /\ \A p \in Blocks : row[ct][p] = X[ct][Hit(s, p)]
        OBVIOUS
    <2> HIDE DEF row
    <2> QED
        BY <2>1, SumBlocksIs
<1>4. \A ct \in Cts : g[ct] = array[ct][s]
    OBVIOUS
<1> HIDE DEF array, row, F, g, b
<1>5. Total(array, Cts)[s] = SumOver(g, Cts) % Modulus
    BY <1>4, FiniteParts, TotalIs
<1>6. SumOver(g, Cts) % Modulus = SumOver(F, Cts) % Modulus
    BY <1>2, <1>3, FiniteParts, ModulusPositive, SumReduced
<1>7. SumOver(b, Cts \X Blocks) = SumOver(F, Cts)
    <2>1. IsFiniteSet(Cts) /\ IsFiniteSet(Blocks)
        BY FiniteParts, Parts
    <2>2. SumsOfRows(b, Cts, Blocks, row, F)
        BY <1>1, <1>2 DEF SumsOfRows
    <2> QED
        BY <2>1, <2>2, SumByRows
<1> QED
    BY <1>5, <1>6, <1>7 DEF array, b, Gathered

(* The ciphertexts are summed, then the blocks.                            *)
LEMMA CiphertextsThenBlocks ==
    ASSUME size \in Sizes, NEW X \in [Cts -> [Slots -> Nat]], NEW s \in Slots
    PROVE  SumBlocks(Total(X, Cts))[s] = Gathered(X, s) % Modulus
<1> DEFINE col == [p \in Blocks |-> [ct \in Cts |-> X[ct][Hit(s, p)]]]
           F == [p \in Blocks |-> SumOver(col[p], Cts)]
           x == Total(X, Cts)
           g == [p \in Blocks |-> x[Hit(s, p)]]
           b == Brought(X, s)
<1>1. \A ct \in Cts, p \in Blocks : col[p][ct] \in Int /\ col[p][ct] = b[<<ct, p>>]
                                /\ b[<<ct, p>>] \in Int
    <2> SUFFICES ASSUME NEW ct \in Cts, NEW p \in Blocks
                 PROVE  col[p][ct] \in Int /\ col[p][ct] = b[<<ct, p>>] /\ b[<<ct, p>>] \in Int
        OBVIOUS
    <2>1. b[<<ct, p>>] = X[ct][Hit(s, p)] /\ X[ct][Hit(s, p)] \in Nat
        BY BroughtNat
    <2>2. col[p][ct] = X[ct][Hit(s, p)]
        OBVIOUS
    <2> HIDE DEF col, b
    <2> QED
        BY <2>1, <2>2
<1>2. \A p \in Blocks : F[p] = SumOver(col[p], Cts) /\ F[p] \in Int
    <2> SUFFICES ASSUME NEW p \in Blocks PROVE SumOver(col[p], Cts) \in Int
        OBVIOUS
    <2> HIDE DEF col, b
    <2>1. \A ct \in Cts : col[p][ct] \in Int
        BY <1>1
    <2> QED
        BY <2>1, FiniteParts, SumInteger
<1>3. \A p \in Blocks : g[p] = F[p] % Modulus
    <2> SUFFICES ASSUME NEW p \in Blocks PROVE x[Hit(s, p)] = SumOver(col[p], Cts) % Modulus
        OBVIOUS
    <2>1. Hit(s, p) \in Slots
        BY HitSlot
    <2>2. \A ct \in Cts : col[p][ct] = X[ct][Hit(s, p)]
        OBVIOUS
    <2> HIDE DEF col
    <2> QED
        BY <2>1, <2>2, FiniteParts, TotalIs
<1>4. x \in [Slots -> Nat]
    <2>1. \A y \in Slots : x[y] \in Nat
        <3> SUFFICES ASSUME NEW y \in Slots PROVE x[y] \in Nat
            OBVIOUS
        <3> DEFINE h == [ct \in Cts |-> X[ct][y]]
        <3>1. \A ct \in Cts : h[ct] = X[ct][y] /\ h[ct] \in Int
            OBVIOUS
        <3> HIDE DEF h
        <3>2. x[y] = SumOver(h, Cts) % Modulus
            BY <3>1, FiniteParts, TotalIs
        <3>3. PICK z \in Int : z = SumOver(h, Cts)
            BY <3>1, FiniteParts, SumInteger
        <3>4. z % Modulus \in Nat
            BY ModulusPositive
        <3> QED
            BY <3>2, <3>3, <3>4
    <2>2. x = [y \in Slots |-> x[y]]
        BY DEF Total
    <2> HIDE DEF x
    <2> QED
        BY <2>1, <2>2
<1>5. \A p \in Blocks : g[p] = x[Hit(s, p)]
    OBVIOUS
<1> HIDE DEF col, F, g, x, b
<1>6. SumBlocks(x)[s] = SumOver(g, Blocks) % Modulus
    BY <1>4, <1>5, SumBlocksIs
<1>7. SumOver(g, Blocks) % Modulus = SumOver(F, Blocks) % Modulus
    BY <1>2, <1>3, Parts, ModulusPositive, SumReduced
<1>8. SumOver(b, Cts \X Blocks) = SumOver(F, Blocks)
    <2>1. IsFiniteSet(Cts) /\ IsFiniteSet(Blocks)
        BY FiniteParts, Parts
    <2>2. SumsOfColumns(b, Cts, Blocks, col, F)
        BY <1>1, <1>2 DEF SumsOfColumns
    <2> QED
        BY <2>1, <2>2, SumByColumns
<1> QED
    BY <1>6, <1>7, <1>8 DEF x, b, Gathered

(* At an offset that the blocks use, the values of all voters arrive.      *)
LEMMA GatheredValue ==
    ASSUME size \in Sizes, NEW X, NEW width \in Nat, width <= blockSize, NEW val,
           Placed(X, width, val), NEW s \in Slots, Col(s) \in Off(width),
           NEW f, \A v \in Voters(size) : f[v] = val[v][Col(s)]
    PROVE  Gathered(X, s) = SumOver(f, Voters(size))
<1> DEFINE e == [v \in Voters(size) |-> <<ctIdx(layout, v), <<RowOf(v), BlockOf(v)>>>>]
           b == Brought(X, s)
<1>1. X \in [Cts -> [Slots -> Nat]]
    BY DEF Placed
<1>2. PICK c \in Nat \ {0}, w \in Nat \ {0}, o \in Nat, per \in Nat \ {0} :
          /\ c = size.cols /\ w = blockSize /\ o = Col(s) /\ o < width /\ o < w
          /\ per = layout.votersPerRow /\ per * w <= c
    <2>1. PICK o \in Nat : o = Col(s) /\ o < width
        BY DEF Off
    <2>2. PICK c \in Nat \ {0}, w \in Nat \ {0}, per \in Nat \ {0} :
              c = size.cols /\ w = blockSize /\ per = layout.votersPerRow /\ per * w <= c
        BY Geometry
    <2>3. o < w
        BY <2>1, <2>2
    <2> QED
        BY <2>1, <2>2, <2>3
<1>3. o \in 0 .. blockSize - 1 /\ o \in Off(width)
    BY <1>2
<1>4. \A i \in 0 .. per - 1 : i * w \in Nat /\ i * w + o < c /\ (o + i * w) % c = i * w + o
    <2> SUFFICES ASSUME NEW i \in 0 .. per - 1
                 PROVE  i * w \in Nat /\ i * w + o < c /\ (o + i * w) % c = i * w + o
        OBVIOUS
    <2>1. (i + 1) * w <= per * w /\ (i + 1) * w \in Nat
        BY TimesMonotone
    <2>2. (i + 1) * w = i * w + w /\ i * w \in Nat /\ per * w \in Nat
        OBVIOUS
    <2>3. PICK z \in Nat : z = o + i * w /\ z < c /\ z = i * w + o
        BY <1>2, <2>1, <2>2
    <2>4. z % c = z
        <3>1. z \in 0 .. c - 1 /\ 0 \in Int /\ c * 0 + z = z
            BY <2>3
        <3>2. (c * 0 + z) % c = z
            BY <3>1, ModOfMultiple
        <3> QED
            BY <3>1, <3>2
    <2> QED
        BY <2>2, <2>3, <2>4
<1>5. ASSUME NEW v \in Voters(size)
      PROVE  /\ e[v] \in Cts \X Blocks /\ b[e[v]] = f[v]
             /\ e[v] = <<ctIdx(layout, v), <<RowOf(v), BlockOf(v)>>>>
    <2>1. ctIdx(layout, v) \in Cts /\ <<RowOf(v), BlockOf(v)>> \in Blocks
        BY VoterPlace DEF Blocks, RowBlocks
    <2>2. Hit(s, <<RowOf(v), BlockOf(v)>>) = Start(v) + o
        <3>1. PICK r \in {0, 1}, i \in 0 .. per - 1 : r = RowOf(v) /\ i = BlockOf(v)
            BY <1>2, VoterPlace
        <3>2. Hit(s, <<RowOf(v), BlockOf(v)>>) = r * c + (i * w + o)
            BY <1>2, <1>4, <3>1 DEF Hit
        <3>3. Start(v) = r * c + i * w
            BY <1>2, <3>1, VoterPlace
        <3>4. i * w \in Nat /\ r * c \in Nat
            BY <1>4
        <3> QED
            BY <3>2, <3>3, <3>4
    <2>3. At(X, v, o) = val[v][o]
        BY <1>3 DEF Placed
    <2>4. b[<<ctIdx(layout, v), <<RowOf(v), BlockOf(v)>>>>] = X[ctIdx(layout, v)][Start(v) + o]
        BY <1>1, <2>1, <2>2, BroughtNat
    <2> QED
        BY <1>2, <2>1, <2>3, <2>4 DEF At
<1>6. ASSUME NEW u \in Voters(size), NEW v \in Voters(size), e[u] = e[v]
      PROVE  u = v
    <2>1. ctIdx(layout, u) = ctIdx(layout, v) /\ RowOf(u) = RowOf(v) /\ BlockOf(u) = BlockOf(v)
        BY <1>6
    <2> QED
        BY <2>1, VoterThere
<1>7. ASSUME NEW p \in Cts \X Blocks, b[p] # 0
      PROVE  \E v \in Voters(size) : e[v] = p
    <2>1. PICK ct \in Cts, r \in {0, 1}, i \in RowBlocks : p = <<ct, <<r, i>>>> /\ <<r, i>> \in Blocks
        BY DEF Blocks
    <2>2. Hit(s, <<r, i>>) \in Slots /\ X[ct][Hit(s, <<r, i>>)] # 0
        BY <1>1, <1>7, <2>1, HitSlot, BroughtNat
    <2>3. PICK v \in Voters(size), a \in Off(width) :
              ct = ctIdx(layout, v) /\ Hit(s, <<r, i>>) = Start(v) + a
        BY <2>2 DEF Placed
    <2>4. a \in 0 .. w - 1 /\ o \in 0 .. w - 1 /\ i \in 0 .. per - 1
        BY <1>2 DEF Off, RowBlocks
    <2>5. Row(Start(v) + a) = RowOf(v) /\ Col(Start(v) + a) = BlockOf(v) * blockSize + a
        BY <1>2, <2>4, Address
    <2>6. Row(Hit(s, <<r, i>>)) = r /\ Col(Hit(s, <<r, i>>)) = i * w + o
        BY <1>2, <1>4, <2>1, <2>4, HitSlot
    <2>7. r = RowOf(v)
        BY <2>3, <2>5, <2>6
    <2>8. PICK j \in Nat : j = BlockOf(v)
        BY VoterPlace
    <2>9. j * w + a = i * w + o
        BY <1>2, <2>3, <2>5, <2>6, <2>8
    <2>10. j = i
        <3>1. i \in Nat
            BY <2>4
        <3> QED
            BY <2>4, <2>9, <3>1, DivisionUnique
    <2> QED
        BY <1>5, <2>1, <2>3, <2>7, <2>8, <2>10
<1>8. \A p \in Cts \X Blocks : b[p] \in Int
    BY <1>1, BroughtNat
<1> HIDE DEF e, b
<1>9. \A v \in Voters(size) : e[v] \in Cts \X Blocks /\ f[v] = b[e[v]]
    BY <1>5
<1>10. SumOver(b, Cts \X Blocks) = SumOver(f, Voters(size))
    BY <1>6, <1>7, <1>8, <1>9, FiniteParts, Parts, SumTransport
<1> QED
    BY <1>10 DEF Gathered, b

(* Whole numbers, their sums per voter, and an array as one function.     *)
Counts(val, width) == \A v \in Voters(size), o \in Off(width) : val[v][o] \in Nat
RowsAdd(each, val, width) == \A v \in Voters(size) : each[v] = SumOver(val[v], Off(width))
Flattens(F, X) == \A ct \in Cts, s \in Slots : F[<<ct, s>>] = X[ct][s]

(* All slots of all ciphertexts hold what the voters have.                 *)
LEMMA AllSlots ==
    ASSUME size \in Sizes, NEW X, NEW width \in Nat, width <= blockSize, NEW val,
           Placed(X, width, val),
           Counts(val, width), NEW each, RowsAdd(each, val, width), NEW F, Flattens(F, X)
    PROVE  SumOver(F, Cts \X Slots) = SumOver(each, Voters(size))
<1> USE DEF Counts, RowsAdd, Flattens
<1> DEFINE V == Voters(size)
           O == Off(width)
           e == [p \in V \X O |-> <<ctIdx(layout, p[1]), Start(p[1]) + p[2]>>]
           G == [p \in V \X O |-> val[p[1]][p[2]]]
<1>1. IsFiniteSet(V) /\ IsFiniteSet(O) /\ IsFiniteSet(V \X O) /\ IsFiniteSet(Cts \X Slots)
    <2>1. width - 1 \in Int
        OBVIOUS
    <2>2. IsFiniteSet(O)
        BY <2>1, FS_Interval DEF Off
    <2> QED
        BY <2>2, FiniteParts, FS_Product
<1>2. O \subseteq 0 .. blockSize - 1
    BY Geometry DEF Off
<1>3. \A p \in V \X O : e[p] \in Cts \X Slots /\ G[p] = F[e[p]]
    <2> SUFFICES ASSUME NEW v \in V, NEW o \in O
                 PROVE  /\ <<ctIdx(layout, v), Start(v) + o>> \in Cts \X Slots
                        /\ val[v][o] = F[<<ctIdx(layout, v), Start(v) + o>>]
        OBVIOUS
    <2>1. ctIdx(layout, v) \in Cts /\ Start(v) + o \in Slots
        BY <1>2, VoterPlace, Address
    <2> QED
        BY <2>1 DEF Placed, At
<1>4. ASSUME NEW p \in V \X O, NEW r \in V \X O, e[p] = e[r]
      PROVE  p = r
    <2>1. PICK u \in V, v \in V, a \in O, o \in O : p = <<u, a>> /\ r = <<v, o>>
        OBVIOUS
    <2>2. ctIdx(layout, u) = ctIdx(layout, v) /\ Start(u) + a = Start(v) + o
        BY <1>4, <2>1
    <2>3. a \in 0 .. blockSize - 1 /\ o \in 0 .. blockSize - 1
        BY <1>2
    <2> QED
        BY <2>1, <2>2, <2>3, SlotOwner
<1>5. ASSUME NEW p \in Cts \X Slots, F[p] # 0
      PROVE  \E r \in V \X O : e[r] = p
    <2>1. PICK ct \in Cts, s \in Slots : p = <<ct, s>> /\ X[ct][s] # 0
        BY <1>5
    <2>2. PICK v \in V, o \in O : ct = ctIdx(layout, v) /\ s = Start(v) + o
        BY <2>1 DEF Placed
    <2>3. <<v, o>> \in V \X O /\ e[<<v, o>>] = p
        BY <2>1, <2>2
    <2> QED
        BY <2>3
<1>6. \A p \in Cts \X Slots : F[p] \in Int
    <2>1. X \in [Cts -> [Slots -> Nat]]
        BY DEF Placed
    <2> HIDE DEF V, O, e, G
    <2>2. \A ct \in Cts, s \in Slots : F[<<ct, s>>] \in Int
        <3> SUFFICES ASSUME NEW ct \in Cts, NEW s \in Slots PROVE F[<<ct, s>>] \in Int
            OBVIOUS
        <3>1. F[<<ct, s>>] = X[ct][s]
            OBVIOUS
        <3> QED
            BY <2>1, <3>1
    <2> QED
        BY <2>2
<1>7. \A v \in V, o \in O : G[<<v, o>>] \in Int /\ val[v][o] = G[<<v, o>>]
    <2> SUFFICES ASSUME NEW v \in V, NEW o \in O
                 PROVE  val[v][o] \in Int /\ val[v][o] = G[<<v, o>>]
        OBVIOUS
    <2>1. val[v][o] \in Nat
        OBVIOUS
    <2>2. val[v][o] = G[<<v, o>>]
        OBVIOUS
    <2> QED
        BY <2>1, <2>2
<1>8. \A v \in V : each[v] = SumOver(val[v], O)
    OBVIOUS
<1> HIDE DEF V, O, e, G
<1>9. SumOver(F, Cts \X Slots) = SumOver(G, V \X O)
    BY <1>1, <1>3, <1>4, <1>5, <1>6, SumTransport
<1>10. SumOver(G, V \X O) = SumOver(each, V)
    BY <1>1, <1>7, <1>8, SumOfPairs
<1> QED
    BY <1>9, <1>10 DEF V

(* At any offset no more arrives than all voters have.                     *)
LEMMA GatheredBound ==
    ASSUME size \in Sizes, NEW X, NEW width \in Nat, width <= blockSize, NEW val,
           Placed(X, width, val),
           Counts(val, width), NEW each, RowsAdd(each, val, width),
           NEW s \in Slots
    PROVE  Gathered(X, s) \in Nat /\ Gathered(X, s) <= SumOver(each, Voters(size))
<1> DEFINE F == [p \in Cts \X Slots |-> X[p[1]][p[2]]]
           e == [p \in Cts \X Blocks |-> <<p[1], Hit(s, p[2])>>]
           b == Brought(X, s)
<1>1. X \in [Cts -> [Slots -> Nat]]
    BY DEF Placed
<1>2. \A ct \in Cts, y \in Slots : F[<<ct, y>>] = X[ct][y]
    OBVIOUS
<1>3. \A p \in Cts \X Slots : F[p] \in Nat
    BY <1>1
<1>4. \A p \in Cts \X Blocks : e[p] \in Cts \X Slots /\ b[p] = F[e[p]]
    <2> SUFFICES ASSUME NEW ct \in Cts, NEW p \in Blocks
                 PROVE  <<ct, Hit(s, p)>> \in Cts \X Slots /\ b[<<ct, p>>] = X[ct][Hit(s, p)]
        BY <1>2
    <2> QED
        BY <1>1, HitSlot, BroughtNat
<1>5. ASSUME NEW p \in Cts \X Blocks, NEW r \in Cts \X Blocks, e[p] = e[r]
      PROVE  p = r
    <2>1. PICK ct \in Cts, ct2 \in Cts, a \in Blocks, z \in Blocks : p = <<ct, a>> /\ r = <<ct2, z>>
        OBVIOUS
    <2>2. ct = ct2 /\ Hit(s, a) = Hit(s, z)
        BY <1>5, <2>1
    <2> QED
        BY <2>1, <2>2, HitOnce
<1>6. \A p \in Cts \X Blocks : b[p] \in Nat
    BY <1>1, BroughtNat
<1>7. IsFiniteSet(Cts \X Blocks) /\ IsFiniteSet(Cts \X Slots)
    BY Parts, FiniteParts, FS_Product
<1> HIDE DEF F, e, b
<1>8. SumOver(b, Cts \X Blocks) <= SumOver(F, Cts \X Slots)
    BY <1>3, <1>4, <1>5, <1>7, SumInjected
<1>9. SumOver(F, Cts \X Slots) = SumOver(each, Voters(size))
    <2>1. Flattens(F, X)
        BY <1>2 DEF Flattens
    <2> QED
        BY <2>1, AllSlots
<1>10. SumOver(b, Cts \X Blocks) \in Nat
    BY <1>6, <1>7, SumOfNaturals
<1> QED
    BY <1>8, <1>9, <1>10 DEF Gathered, b

----------------------------------------------------------------------------
(* The references as sums.                                                 *)

(* The library's sum is the sum of the lemmas.                             *)
LEMMA SumFunctionIs ==
    ASSUME NEW f, NEW S
    PROVE  SumFunctionOnSet(f, S) = SumOver(f, S)
BY DEF SumFunctionOnSet, FoldFunctionOnSet, MapThenFoldSet, SumOver

(* The reference of a voter's own share, as a sum over a function.         *)
LEMMA MarkedIs ==
    ASSUME size \in Sizes, NEW v, NEW f,
           \A l \in Delegates(size) : f[l] = indicatorPlain(delegationTotals[v][l])
    PROVE  delegationIndicatorPlain(v) = 1 - SumOver(f, Delegates(size))
<1> DEFINE S == Delegates(size)
           Adding(h) ==
               h = [u \in SUBSET S |->
                       IF u = {} THEN 0
                       ELSE indicatorPlain(delegationTotals[v][CHOOSE x \in u : TRUE])
                               + h[u \ {CHOOSE x \in u : TRUE}]]
           sum == CHOOSE h : Adding(h)
<1>1. delegationIndicatorPlain(v) = 1 - sum[S]
    BY DEF delegationIndicatorPlain, MapThenSumSet, MapThenFoldSet
<1>2. IsFiniteSet(S)
    BY FiniteParts
<1> HIDE DEF S
<1>3. PICK h : Adds(h, f, S)
    BY <1>2, AddsExists
<1>4. \A u \in SUBSET S : u # {} =>
          f[CHOOSE x \in u : TRUE] = indicatorPlain(delegationTotals[v][CHOOSE x \in u : TRUE])
    BY DEF S
<1>5. Adding(h)
    BY <1>3, <1>4 DEF Adds
<1> HIDE DEF Adding
<1>6. Adding(sum)
    BY <1>5
<1> HIDE DEF sum
<1>7. Adds(sum, f, S)
    BY <1>4, <1>6 DEF Adds, Adding
<1>8. sum[S] = SumOver(f, S)
    BY <1>2, <1>7, SumAdds
<1> QED
    BY <1>1, <1>8 DEF S

(* The reference of a delegate's support, as a sum over a function.        *)
LEMMA SupportIs ==
    ASSUME NEW l
    PROVE  delegateSupportPlain(l) = SumOver(q, Choosing(delegationTotals, l))
BY DEF delegateSupportPlain, MapThenSumSet, MapThenFoldSet, SumOver

(* The reference of what a delegate receives, as a sum over a function.    *)
LEMMA DelegatedIs ==
    ASSUME size \in Sizes, NEW v, NEW f,
           \A l \in Delegates(size) : f[l] = delegateSupportPlain(l)
    PROVE  delegatedPlain(v) = SumOver(f, {l \in Delegates(size) : D[l] = v})
<1> DEFINE S == {l \in Delegates(size) : D[l] = v}
           Adding(h) ==
               h = [u \in SUBSET S |->
                       IF u = {} THEN 0
                       ELSE delegateSupportPlain(CHOOSE x \in u : TRUE)
                               + h[u \ {CHOOSE x \in u : TRUE}]]
           sum == CHOOSE h : Adding(h)
<1>1. delegatedPlain(v) = sum[S]
    BY DEF delegatedPlain, MapThenSumSet, MapThenFoldSet
<1>2. IsFiniteSet(S)
    BY FiniteParts, FS_Subset
<1>4. \A u \in SUBSET S : u # {} =>
          f[CHOOSE x \in u : TRUE] = delegateSupportPlain(CHOOSE x \in u : TRUE)
    OBVIOUS
<1> HIDE DEF S
<1>3. PICK h : Adds(h, f, S)
    BY <1>2, AddsExists
<1>5. Adding(h)
    BY <1>3, <1>4 DEF Adds
<1> HIDE DEF Adding
<1>6. Adding(sum)
    BY <1>5
<1> HIDE DEF sum
<1>7. Adds(sum, f, S)
    BY <1>4, <1>6 DEF Adds, Adding
<1>8. sum[S] = SumOver(f, S)
    BY <1>2, <1>7, SumAdds
<1> QED
    BY <1>1, <1>8 DEF S

(* The reference of the tally, as a sum over a function.                   *)
LEMMA MaskedTallyIs ==
    ASSUME NEW c, NEW f, IsFiniteSet(DOMAIN candidateTotals),
           \A v \in DOMAIN candidateTotals : f[v] = delegatedVoterWeightsPlain(v)
    PROVE  delegatedMaskedTallyPlain(c) = SumOver(f, Choosing(candidateTotals, c))
<1> DEFINE S == Choosing(candidateTotals, c)
           Adding(h) ==
               h = [u \in SUBSET S |->
                       IF u = {} THEN 0
                       ELSE delegatedVoterWeightsPlain(CHOOSE x \in u : TRUE)
                               + h[u \ {CHOOSE x \in u : TRUE}]]
           sum == CHOOSE h : Adding(h)
<1>1. delegatedMaskedTallyPlain(c) = sum[S]
    BY DEF delegatedMaskedTallyPlain, MapThenSumSet, MapThenFoldSet
<1>2. IsFiniteSet(S) /\ S \subseteq DOMAIN candidateTotals
    BY FS_Subset DEF Choosing
<1>4. \A u \in SUBSET S : u # {} =>
          f[CHOOSE x \in u : TRUE] = delegatedVoterWeightsPlain(CHOOSE x \in u : TRUE)
    BY DEF Choosing
<1> HIDE DEF S
<1>3. PICK h : Adds(h, f, S)
    BY <1>2, AddsExists
<1>5. Adding(h)
    BY <1>3, <1>4 DEF Adds
<1> HIDE DEF Adding
<1>6. Adding(sum)
    BY <1>5
<1> HIDE DEF sum
<1>7. Adds(sum, f, S)
    BY <1>4, <1>6 DEF Adds, Adding
<1>8. sum[S] = SumOver(f, S)
    BY <1>2, <1>7, SumAdds
<1> QED
    BY <1>1, <1>8 DEF S

(* The power in all weight slots, as a sum over ciphertexts.               *)
LEMMA ConservedIs ==
    ASSUME size \in Sizes, NEW f,
           \A ct \in Cts : f[ct] = SumFunction(voterWeights[ct])
    PROVE  MapThenSumSet(LAMBDA ct : SumFunction(voterWeights[ct]), Cts) = SumOver(f, Cts)
<1> DEFINE S == Cts
           Adding(h) ==
               h = [u \in SUBSET S |->
                       IF u = {} THEN 0
                       ELSE SumFunction(voterWeights[CHOOSE x \in u : TRUE])
                               + h[u \ {CHOOSE x \in u : TRUE}]]
           sum == CHOOSE h : Adding(h)
<1>1. MapThenSumSet(LAMBDA ct : SumFunction(voterWeights[ct]), Cts) = sum[S]
    BY DEF MapThenSumSet, MapThenFoldSet
<1>2. IsFiniteSet(S)
    BY FiniteParts
<1>4. \A u \in SUBSET S : u # {} =>
          f[CHOOSE x \in u : TRUE] = SumFunction(voterWeights[CHOOSE x \in u : TRUE])
    OBVIOUS
<1> HIDE DEF S
<1>3. PICK h : Adds(h, f, S)
    BY <1>2, AddsExists
<1>5. Adding(h)
    BY <1>3, <1>4 DEF Adds
<1> HIDE DEF Adding
<1>6. Adding(sum)
    BY <1>5
<1> HIDE DEF sum
<1>7. Adds(sum, f, S)
    BY <1>4, <1>6 DEF Adds, Adding
<1>8. sum[S] = SumOver(f, S)
    BY <1>2, <1>7, SumAdds
<1> QED
    BY <1>1, <1>8 DEF S

----------------------------------------------------------------------------
(* What the phases have to hold, as sums over whole numbers.               *)

Marks(t) == [v \in DOMAIN t |-> [o \in DOMAIN t[v] |-> indicatorPlain(t[v][o])]]
Weighs(t, p) == [v \in DOMAIN t |-> [o \in DOMAIN t[v] |-> indicatorPlain(t[v][o]) * p[v]]]
Everywhere(f, width) == [v \in DOMAIN f |-> [o \in Off(width) |-> f[v]]]

(* What a voter does not give to a delegate.                               *)
Keeps(t, p) == [v \in DOMAIN t |-> p[v] - SumOver(Weighs(t, p)[v], DOMAIN t[v])]
Supports(t, p, d) == [l \in DOMAIN d |-> SumOver(p, Choosing(t, l))]
Receives(t, p, d) ==
    [v \in DOMAIN t |-> SumOver(Supports(t, p, d), {l \in DOMAIN d : d[l] = v})]
Weights(t, p, d) == [v \in DOMAIN t |-> Keeps(t, p)[v] + Receives(t, p, d)[v]]

(* The inputs of a tally.                                                  *)
Elected ==
    /\ size \in Sizes
    /\ D \in [Delegates(size) -> Voters(size)]
    /\ \A l, m \in Delegates(size) : D[l] = D[m] => l = m
    /\ q \in [Voters(size) -> Nat \ {0}] /\ SumOver(q, Voters(size)) < Modulus
    /\ candidateTotals \in [Voters(size) -> TotalsOf(size.b)]
    /\ delegationTotals \in [Voters(size) -> TotalsOf(size.k)]

(* An indicator is zero or one.                                            *)
LEMMA Mark ==
    ASSUME NEW x
    PROVE  /\ indicatorPlain(x) \in {0, 1} /\ indicatorPlain(x) \in Nat
           /\ indicatorPlain(x) = 0 \/ indicatorPlain(x) = 1
BY DEF indicatorPlain

(* Two terms of a sum of naturals are no more than the sum.                *)
LEMMA SumOfTwoTerms ==
    ASSUME NEW f, NEW S, IsFiniteSet(S), \A x \in S : f[x] \in Nat,
           NEW a \in S, NEW b \in S, a # b
    PROVE  f[a] + f[b] <= SumOver(f, S)
<1> DEFINE T == S \ {a}
           U == T \ {b}
<1>1. /\ IsFiniteSet(T) /\ IsFiniteSet(U) /\ b \in T
      /\ \A x \in S : f[x] \in Int
    BY FS_RemoveElement
<1>2. \A x \in T : f[x] \in Int
    BY <1>1
<1>3. \A x \in U : f[x] \in Nat
    OBVIOUS
<1>4. SumOver(f, S) = f[a] + SumOver(f, S \ {a})
    BY <1>1, SumRemove
<1> HIDE DEF U
<1>5. SumOver(f, T) = f[b] + SumOver(f, T \ {b})
    <2> HIDE DEF T
    <2> QED
        BY <1>1, <1>2, SumRemove
<1>6. PICK u \in Nat : u = SumOver(f, U)
    BY <1>1, <1>3, SumOfNaturals
<1>7. PICK x \in Nat, y \in Nat : x = f[a] /\ y = f[b]
    OBVIOUS
<1> QED
    BY <1>4, <1>5, <1>6, <1>7 DEF T, U

(* Echo totals of one voter share the periods: one choice has a majority.  *)
LEMMA OneMajority ==
    ASSUME size \in Sizes, NEW w \in {size.b, size.k}, NEW t \in TotalsOf(w),
           NEW a \in 0 .. w - 1, NEW b \in 0 .. w - 1,
           indicatorPlain(t[a]) = 1, indicatorPlain(t[b]) = 1
    PROVE  a = b
<1> DEFINE S == 0 .. w - 1
<1>1. t \in [S -> 0 .. Periods] /\ SumFunction(t) <= Periods
    BY TotalsAssumption
<1>2. Periods \in Nat
    BY PeriodsAssumption
<1>3. SumFunction(t) = SumOver(t, S)
    <2>1. DOMAIN t = S
        BY <1>1
    <2> QED
        BY <2>1, SumFunctionIs DEF SumFunction
<1>4. IsFiniteSet(S)
    <2>1. w - 1 \in Int
        BY Geometry
    <2> QED
        BY <2>1, FS_Interval
<1>5. \A x \in S : t[x] \in Nat /\ t[x] \in Int
    BY <1>1, <1>2
<1>6. a \in S /\ b \in S
    OBVIOUS
<1> HIDE DEF S
<1>7. SUFFICES ASSUME a # b PROVE FALSE
    OBVIOUS
<1>8. t[a] + t[b] <= SumOver(t, S)
    BY <1>4, <1>5, <1>6, <1>7, SumOfTwoTerms
<1>11. PICK x \in Nat, y \in Nat, T \in Nat, h \in Nat :
           /\ x = t[a] /\ y = t[b] /\ T = Periods /\ h = Periods \div 2 /\ T <= 2 * h + 1
    <2>1. \A m \in Nat : m \div 2 \in Nat /\ m <= 2 * (m \div 2) + 1
        OBVIOUS
    <2> QED
        BY <1>2, <1>5, <1>6, <2>1
<1>12. x > h /\ y > h
    BY <1>11 DEF indicatorPlain
<1>13. x + y <= T
    <2>1. SumOver(t, S) <= T
        BY <1>1, <1>3, <1>11 DEF S
    <2>2. PICK z \in Nat : z = SumOver(t, S)
        BY <1>4, <1>5, SumOfNaturals
    <2> QED
        BY <1>8, <1>11, <2>1, <2>2
<1> QED
    BY <1>11, <1>12, <1>13

(* The totals of a voter, for either width.                                *)
LEMMA VoterTotals ==
    ASSUME Elected, NEW v \in Voters(size)
    PROVE  /\ candidateTotals[v] \in [Off(size.b) -> 0 .. Periods]
           /\ delegationTotals[v] \in [Off(size.k) -> 0 .. Periods]
           /\ candidateTotals[v] \in TotalsOf(size.b) /\ delegationTotals[v] \in TotalsOf(size.k)
           /\ Off(size.b) = Candidates(size) /\ Off(size.k) = Delegates(size)
           /\ DOMAIN candidateTotals[v] = Candidates(size)
           /\ DOMAIN delegationTotals[v] = Delegates(size)
           /\ DOMAIN candidateTotals = Voters(size) /\ DOMAIN delegationTotals = Voters(size)
           /\ DOMAIN q = Voters(size) /\ DOMAIN D = Delegates(size)
<1>1. candidateTotals[v] \in TotalsOf(size.b) /\ delegationTotals[v] \in TotalsOf(size.k)
    BY DEF Elected
<1>2. /\ TotalsOf(size.b) \subseteq [0 .. size.b - 1 -> 0 .. Periods]
      /\ TotalsOf(size.k) \subseteq [0 .. size.k - 1 -> 0 .. Periods]
    BY TotalsAssumption DEF Elected
<1>3. Off(size.b) = Candidates(size) /\ Off(size.k) = Delegates(size)
    BY DEF Off, Candidates, Delegates
<1>4. /\ candidateTotals[v] \in [Off(size.b) -> 0 .. Periods]
      /\ delegationTotals[v] \in [Off(size.k) -> 0 .. Periods]
    BY <1>1, <1>2 DEF Off
<1>5. /\ DOMAIN candidateTotals = Voters(size) /\ DOMAIN delegationTotals = Voters(size)
      /\ DOMAIN q = Voters(size) /\ DOMAIN D = Delegates(size)
    BY DEF Elected
<1> QED
    BY <1>1, <1>3, <1>4, <1>5

(* A voter keeps its power or gives it to one delegate.                    *)
LEMMA KeepsOrGives ==
    ASSUME Elected, NEW v \in Voters(size)
    PROVE  /\ Weighs(delegationTotals, q)[v]
                 = [l \in Delegates(size) |-> indicatorPlain(delegationTotals[v][l]) * q[v]]
           /\ \A l \in Delegates(size) :
                 Weighs(delegationTotals, q)[v][l] \in {0, q[v]}
           /\ SumOver(Weighs(delegationTotals, q)[v], Delegates(size)) \in {0, q[v]}
           /\ Keeps(delegationTotals, q)[v] \in {0, q[v]}
           /\ delegationIndicatorPlain(v) \in {0, 1}
           /\ weightedSelfPowerPlain(v) = Keeps(delegationTotals, q)[v]
           /\ Keeps(delegationTotals, q)[v]
                 + SumOver(Weighs(delegationTotals, q)[v], Delegates(size)) = q[v]
<1> DEFINE f == [l \in Delegates(size) |-> indicatorPlain(delegationTotals[v][l])]
           g == Weighs(delegationTotals, q)[v]
           K == Delegates(size)
<1>1. PICK p \in Nat \ {0} : p = q[v]
    BY DEF Elected
<1>2. \A l \in K : f[l] = indicatorPlain(delegationTotals[v][l]) /\ g[l] = f[l] * q[v]
    BY VoterTotals DEF Weighs
<1>3. g = [l \in K |-> indicatorPlain(delegationTotals[v][l]) * q[v]]
    BY VoterTotals DEF Weighs
<1>4. IsFiniteSet(K)
    BY FiniteParts DEF Elected
<1>5. Keeps(delegationTotals, q)[v] = q[v] - SumOver(g, K)
    BY VoterTotals DEF Keeps
<1>6. delegationIndicatorPlain(v) = 1 - SumOver(f, K)
    BY <1>2, MarkedIs DEF Elected
<1> HIDE DEF f, g
<1>7. \A l \in K : f[l] \in {0, 1} /\ g[l] \in {0, p} /\ f[l] \in Int /\ g[l] \in Int
    <2> SUFFICES ASSUME NEW l \in K
                 PROVE  f[l] \in {0, 1} /\ g[l] \in {0, p} /\ f[l] \in Int /\ g[l] \in Int
        OBVIOUS
    <2>1. f[l] = 0 \/ f[l] = 1
        BY <1>2, Mark
    <2> QED
        BY <1>1, <1>2, <2>1
<1>8. (SumOver(f, K) = 0 /\ SumOver(g, K) = 0) \/ (SumOver(f, K) = 1 /\ SumOver(g, K) = p)
    <2>1. CASE \A l \in K : f[l] = 0
        <3>1. \A l \in K : g[l] = 0
            BY <1>1, <1>2, <2>1
        <3> QED
            BY <1>4, <2>1, <3>1, SumOfZeros
    <2>2. CASE \E l \in K : f[l] # 0
        <3>1. PICK l \in K : f[l] = 1
            BY <1>7, <2>2
        <3>2. \A m \in K \ {l} : f[m] = 0
            <4> SUFFICES ASSUME NEW m \in K, f[m] = 1 PROVE m = l
                BY <1>7
            <4>1. indicatorPlain(delegationTotals[v][l]) = 1 /\ indicatorPlain(delegationTotals[v][m]) = 1
                BY <1>2, <3>1
            <4>2. delegationTotals[v] \in TotalsOf(size.k) /\ l \in 0 .. size.k - 1 /\ m \in 0 .. size.k - 1
                BY VoterTotals DEF Delegates
            <4> QED
                BY <4>1, <4>2, OneMajority DEF Elected
        <3>3. \A m \in K \ {l} : g[m] = 0
            BY <1>1, <1>2, <3>2
        <3>4. g[l] = p
            BY <1>1, <1>2, <3>1
        <3>5. SumOver(f, K) = f[l]
            BY <1>4, <1>7, <3>2, SumOfOne
        <3>6. SumOver(g, K) = g[l]
            BY <1>4, <1>7, <3>3, SumOfOne
        <3> QED
            BY <3>1, <3>4, <3>5, <3>6
    <2> QED
        BY <2>1, <2>2
<1>9. weightedSelfPowerPlain(v) = q[v] - SumOver(g, K) /\ delegationIndicatorPlain(v) \in {0, 1}
    BY <1>1, <1>6, <1>8 DEF weightedSelfPowerPlain
<1> QED
    BY <1>1, <1>3, <1>5, <1>7, <1>8, <1>9 DEF g

----------------------------------------------------------------------------
(* Power is kept, given and received, and never more than there is.        *)

(* The power of all voters is below the modulus.                           *)
LEMMA PowerIs ==
    ASSUME Elected
    PROVE  /\ PowerSum = SumOver(q, Voters(size)) /\ PowerSum \in Nat /\ PowerSum < Modulus
           /\ \A v \in Voters(size) : q[v] \in 0 .. PowerSum
<1>1. DOMAIN q = Voters(size) /\ (\A v \in Voters(size) : q[v] \in Nat) /\ SumOver(q, Voters(size)) < Modulus
    BY DEF Elected
<1>2. PowerSum = SumOver(q, Voters(size))
    BY <1>1, SumFunctionIs DEF PowerSum, SumFunction
<1>3. IsFiniteSet(Voters(size))
    BY FiniteParts DEF Elected
<1>4. /\ SumOver(q, Voters(size)) \in Nat
      /\ \A v \in Voters(size) : q[v] <= SumOver(q, Voters(size))
    BY <1>1, <1>3, SumOfNaturals
<1> QED
    BY <1>1, <1>2, <1>4

(* The support that phases compute is the reference, and within the power. *)
LEMMA SupportsAre ==
    ASSUME Elected, NEW l \in Delegates(size), NEW f,
           \A v \in Voters(size) : f[v] = Weighs(delegationTotals, q)[v][l]
    PROVE  /\ Supports(delegationTotals, q, D)[l] = delegateSupportPlain(l)
           /\ Supports(delegationTotals, q, D)[l] = SumOver(f, Voters(size))
           /\ Supports(delegationTotals, q, D)[l] \in 0 .. PowerSum
<1> DEFINE V == Voters(size)
           A == Choosing(delegationTotals, l)
<1>1. Supports(delegationTotals, q, D)[l] = SumOver(q, A)
    BY VoterTotals DEF Supports, Elected
<1>2. delegateSupportPlain(l) = SumOver(q, A)
    BY SupportIs
<1>3. IsFiniteSet(V) /\ \A v \in V : q[v] \in Nat
    BY FiniteParts DEF Elected
<1>4. A \in SUBSET V
    BY DEF Choosing, Elected
<1>5. \A v \in V : (v \in A => f[v] = q[v]) /\ (v \notin A => f[v] = 0)
    <2> SUFFICES ASSUME NEW v \in V
                 PROVE  (v \in A => f[v] = q[v]) /\ (v \notin A => f[v] = 0)
        OBVIOUS
    <2>1. f[v] = indicatorPlain(delegationTotals[v][l]) * q[v] /\ q[v] \in Nat
        BY <1>3, KeepsOrGives
    <2>2. v \in A <=> indicatorPlain(delegationTotals[v][l]) = 1
        BY DEF Choosing, Elected
    <2>3. indicatorPlain(delegationTotals[v][l]) = 0 \/ indicatorPlain(delegationTotals[v][l]) = 1
        BY Mark
    <2> QED
        BY <2>1, <2>2, <2>3
<1> HIDE DEF V, A
<1>6. SumOver(f, V) = SumOver(f, A)
    <2>1. (\A v \in A : f[v] \in Int) /\ (\A v \in V \ A : f[v] = 0)
        BY <1>3, <1>4, <1>5
    <2> QED
        BY <1>3, <1>4, <2>1, SumOutside
<1>7. SumOver(f, A) = SumOver(q, A)
    <2>1. IsFiniteSet(A) /\ \A v \in A : q[v] \in Int /\ f[v] = q[v]
        BY <1>3, <1>4, <1>5, FS_Subset
    <2> QED
        BY <2>1, SumSame
<1>8. SumOver(q, A) \in Nat /\ SumOver(q, A) <= SumOver(q, V)
    <2>1. SumOver(q, A) <= SumOver(q, V)
        BY <1>3, <1>4, SumOfSome
    <2>2. IsFiniteSet(A) /\ \A v \in A : q[v] \in Nat
        BY <1>3, <1>4, FS_Subset
    <2> QED
        BY <2>1, <2>2, SumOfNaturals
<1> QED
    BY <1>1, <1>2, <1>6, <1>7, <1>8, PowerIs DEF V

(* What voters keep and what delegates are given is all the power.         *)
LEMMA KeptAndGiven ==
    ASSUME Elected
    PROVE  /\ SumOver(Keeps(delegationTotals, q), Voters(size))
                + SumOver(Supports(delegationTotals, q, D), Delegates(size)) = PowerSum
           /\ SumOver(Keeps(delegationTotals, q), Voters(size)) \in Nat
           /\ SumOver(Supports(delegationTotals, q, D), Delegates(size)) \in Nat
<1> DEFINE V == Voters(size)
           K == Delegates(size)
           keeps == Keeps(delegationTotals, q)
           sup == Supports(delegationTotals, q, D)
           W == Weighs(delegationTotals, q)
           G == [p \in V \X K |-> W[p[1]][p[2]]]
           R == [v \in V |-> SumOver(W[v], K)]
           col == [l \in K |-> [v \in V |-> W[v][l]]]
<1>1. IsFiniteSet(V) /\ IsFiniteSet(K)
    BY FiniteParts DEF Elected
<1>2. \A v \in V : /\ q[v] \in Nat /\ keeps[v] \in {0, q[v]} /\ R[v] \in {0, q[v]}
                   /\ keeps[v] + R[v] = q[v] /\ R[v] = SumOver(W[v], K)
    <2> SUFFICES ASSUME NEW v \in V
                 PROVE  /\ q[v] \in Nat /\ keeps[v] \in {0, q[v]} /\ SumOver(W[v], K) \in {0, q[v]}
                        /\ keeps[v] + SumOver(W[v], K) = q[v]
        OBVIOUS
    <2> QED
        BY KeepsOrGives DEF Elected
<1>3. \A v \in V, l \in K : W[v][l] \in Int /\ G[<<v, l>>] \in Int
                             /\ W[v][l] = G[<<v, l>>] /\ col[l][v] = G[<<v, l>>]
    <2> SUFFICES ASSUME NEW v \in V, NEW l \in K PROVE W[v][l] \in Int
        OBVIOUS
    <2>1. W[v][l] \in {0, q[v]}
        BY KeepsOrGives
    <2>2. q[v] \in Nat
        BY <1>2
    <2> HIDE DEF W
    <2> QED
        BY <2>1, <2>2
<1>4. \A l \in K : sup[l] = SumOver(col[l], V) /\ sup[l] \in Nat
    <2> SUFFICES ASSUME NEW l \in K PROVE sup[l] = SumOver(col[l], V) /\ sup[l] \in Nat
        OBVIOUS
    <2>1. \A v \in V : col[l][v] = W[v][l]
        OBVIOUS
    <2> DEFINE c == col[l]
    <2> HIDE DEF col, c, K
    <2>2. \A v \in Voters(size) : c[v] = Weighs(delegationTotals, q)[v][l]
        BY <2>1 DEF c
    <2>3. /\ Supports(delegationTotals, q, D)[l] = SumOver(c, Voters(size))
          /\ Supports(delegationTotals, q, D)[l] \in 0 .. PowerSum
        BY <2>2, SupportsAre DEF K
    <2> QED
        BY <2>3 DEF c
<1>5. PowerSum = SumOver(q, V)
    BY PowerIs
<1> HIDE DEF V, K, keeps, sup, W, G, R, col
<1>6. SumOver(G, V \X K) = SumOver(R, V)
    BY <1>1, <1>2, <1>3, SumOfPairs
<1>7. SumOver(G, V \X K) = SumOver(sup, K)
    BY <1>1, <1>3, <1>4, SumOfPairsSwapped
<1>8. SumOver(q, V) = SumOver(keeps, V) + SumOver(R, V)
    <2>1. \A v \in V : keeps[v] \in Int /\ R[v] \in Int /\ q[v] = keeps[v] + R[v]
        BY <1>2
    <2> QED
        BY <1>1, <2>1, SumPlus
<1>9. SumOver(keeps, V) \in Nat /\ SumOver(sup, K) \in Nat
    <2>1. \A v \in V : keeps[v] \in Nat
        BY <1>2
    <2>2. \A l \in K : sup[l] \in Nat
        BY <1>4
    <2>3. SumOver(keeps, V) \in Nat
        BY <1>1, <2>1, SumOfNaturals
    <2>4. SumOver(sup, K) \in Nat
        BY <1>1, <2>2, SumOfNaturals
    <2> QED
        BY <2>3, <2>4
<1> QED
    BY <1>5, <1>6, <1>7, <1>8, <1>9 DEF keeps, V, sup, K

(* A voter receives the support of the delegate whose column has its row.  *)
LEMMA ReceivesAre ==
    ASSUME Elected, NEW v \in Voters(size)
    PROVE  /\ Receives(delegationTotals, q, D)[v] = delegatedPlain(v)
           /\ \A l \in Delegates(size) : D[l] = v =>
                 Receives(delegationTotals, q, D)[v] = Supports(delegationTotals, q, D)[l]
           /\ (\A l \in Delegates(size) : D[l] # v) => Receives(delegationTotals, q, D)[v] = 0
           /\ Receives(delegationTotals, q, D)[v] \in Nat
<1> DEFINE sup == Supports(delegationTotals, q, D)
           S == {l \in Delegates(size) : D[l] = v}
           r == Receives(delegationTotals, q, D)[v]
<1>1. r = SumOver(sup, S)
    BY VoterTotals DEF Receives
<1>2. \A l \in Delegates(size) : sup[l] = delegateSupportPlain(l) /\ sup[l] \in Nat
    <2> SUFFICES ASSUME NEW l \in Delegates(size)
                 PROVE  sup[l] = delegateSupportPlain(l) /\ sup[l] \in Nat
        OBVIOUS
    <2> DEFINE c == [u \in Voters(size) |-> Weighs(delegationTotals, q)[u][l]]
    <2>2. \A u \in Voters(size) : c[u] = Weighs(delegationTotals, q)[u][l]
        OBVIOUS
    <2> HIDE DEF c
    <2> QED
        BY <2>2, SupportsAre
<1> HIDE DEF sup
<1>3. delegatedPlain(v) = SumOver(sup, S)
    BY <1>2, DelegatedIs DEF Elected
<1>4. ASSUME NEW l \in Delegates(size), D[l] = v
      PROVE  S = {l}
    BY <1>4 DEF Elected
<1>5. (\A l \in Delegates(size) : D[l] # v) => S = {}
    OBVIOUS
<1> HIDE DEF S, r
<1>6. ASSUME NEW l \in Delegates(size), D[l] = v
      PROVE  r = sup[l]
    <2>1. S = {l}
        BY <1>4, <1>6
    <2> DEFINE one == {l}
    <2>2. IsFiniteSet(one) /\ l \in one /\ \A y \in one \ {l} : sup[y] = 0
        BY FS_Singleton
    <2>4. sup[l] \in Int
        BY <1>2
    <2> HIDE DEF one
    <2>5. SumOver(sup, one) = sup[l]
        BY <2>2, <2>4, SumOfOne
    <2>3. SumOver(sup, {l}) = sup[l]
        BY <2>5 DEF one
    <2> QED
        BY <1>1, <2>1, <2>3
<1>7. (\A l \in Delegates(size) : D[l] # v) => r = 0
    BY <1>1, <1>5, SumEmpty
<1>8. r \in Nat
    BY <1>2, <1>6, <1>7
<1> QED
    BY <1>1, <1>3, <1>6, <1>7, <1>8 DEF r, sup

(* Weights are the reference's, and add up to the power of all voters.     *)
LEMMA WeightsAre ==
    ASSUME Elected
    PROVE  /\ SumOver(Weights(delegationTotals, q, D), Voters(size)) = PowerSum
           /\ \A v \in Voters(size) :
                 /\ Weights(delegationTotals, q, D)[v] = delegatedVoterWeightsPlain(v)
                 /\ Weights(delegationTotals, q, D)[v]
                      = Keeps(delegationTotals, q)[v] + Receives(delegationTotals, q, D)[v]
                 /\ Weights(delegationTotals, q, D)[v] \in 0 .. PowerSum
                 /\ Keeps(delegationTotals, q)[v] \in 0 .. PowerSum
                 /\ Receives(delegationTotals, q, D)[v] \in 0 .. PowerSum
<1> DEFINE V == Voters(size)
           K == Delegates(size)
           keeps == Keeps(delegationTotals, q)
           sup == Supports(delegationTotals, q, D)
           rec == Receives(delegationTotals, q, D)
           w == Weights(delegationTotals, q, D)
<1>1. IsFiniteSet(V) /\ IsFiniteSet(K)
    BY FiniteParts DEF Elected
<1>2. \A v \in V : w[v] = keeps[v] + rec[v] /\ keeps[v] \in Nat /\ rec[v] \in Nat
    <2> SUFFICES ASSUME NEW v \in V
                 PROVE  w[v] = keeps[v] + rec[v] /\ keeps[v] \in Nat /\ rec[v] \in Nat
        OBVIOUS
    <2>1. w[v] = keeps[v] + rec[v]
        BY VoterTotals DEF Weights
    <2>2. keeps[v] \in {0, q[v]} /\ q[v] \in Nat
        BY KeepsOrGives DEF Elected
    <2>3. rec[v] \in Nat
        BY ReceivesAre
    <2> QED
        BY <2>1, <2>2, <2>3
<1>3. \A v \in V : w[v] = delegatedVoterWeightsPlain(v)
    <2> SUFFICES ASSUME NEW v \in V PROVE w[v] = delegatedVoterWeightsPlain(v)
        OBVIOUS
    <2>1. keeps[v] = weightedSelfPowerPlain(v)
        BY KeepsOrGives
    <2>2. rec[v] = delegatedPlain(v)
        BY ReceivesAre
    <2> QED
        BY <1>2, <2>1, <2>2 DEF delegatedVoterWeightsPlain
<1>4. SumOver(rec, V) = SumOver(sup, K)
    <2>1. \A l \in K : D[l] \in V /\ sup[l] = rec[D[l]]
        <3> SUFFICES ASSUME NEW l \in K PROVE D[l] \in V /\ sup[l] = rec[D[l]]
            OBVIOUS
        <3>1. D[l] \in V
            BY DEF Elected
        <3> QED
            BY <3>1, ReceivesAre
    <2>2. \A v \in V : rec[v] # 0 => \E l \in K : D[l] = v
        BY ReceivesAre
    <2>3. \A l, m \in K : D[l] = D[m] => l = m
        BY DEF Elected
    <2>4. \A v \in V : rec[v] \in Int
        BY <1>2
    <2> HIDE DEF V, K, sup, rec
    <2> QED
        BY <1>1, <2>1, <2>2, <2>3, <2>4, SumTransport
<1>5. SumOver(keeps, V) + SumOver(sup, K) = PowerSum /\ SumOver(keeps, V) \in Nat /\ SumOver(sup, K) \in Nat
    BY KeptAndGiven
<1>6. PowerSum \in Nat
    BY PowerIs
<1> HIDE DEF V, K, keeps, sup, rec, w
<1>7. SumOver(w, V) = SumOver(keeps, V) + SumOver(rec, V)
    <2>1. \A v \in V : keeps[v] \in Int /\ rec[v] \in Int /\ w[v] = keeps[v] + rec[v]
        BY <1>2
    <2> QED
        BY <1>1, <2>1, SumPlus
<1>8. \A v \in V : w[v] <= SumOver(w, V)
    <2>1. \A v \in V : w[v] \in Nat
        BY <1>2
    <2> QED
        BY <1>1, <2>1, SumOfNaturals
<1>9. SumOver(w, V) = PowerSum
    BY <1>4, <1>5, <1>7
<1>10. \A v \in V : w[v] \in 0 .. PowerSum /\ keeps[v] \in 0 .. PowerSum /\ rec[v] \in 0 .. PowerSum
    <2> SUFFICES ASSUME NEW v \in V
                 PROVE  w[v] \in 0 .. PowerSum /\ keeps[v] \in 0 .. PowerSum /\ rec[v] \in 0 .. PowerSum
        OBVIOUS
    <2>1. PICK a \in Nat, b \in Nat, p \in Nat : a = keeps[v] /\ b = rec[v] /\ p = PowerSum
        BY <1>2, <1>6
    <2>2. a + b <= p /\ w[v] = a + b
        BY <1>2, <1>8, <1>9, <2>1
    <2>3. a \in 0 .. p /\ b \in 0 .. p /\ a + b \in 0 .. p
        BY <2>2
    <2> QED
        BY <2>1, <2>2, <2>3
<1> QED
    BY <1>2, <1>3, <1>9, <1>10 DEF V, keeps, rec, w

----------------------------------------------------------------------------
(* What each phase computes.                                               *)

(* Numbers below a modulus are left alone.                                 *)
LEMMA Reduced ==
    ASSUME NEW t \in Nat \ {0}, NEW x \in Nat, x < t
    PROVE  x % t = x
<1>1. x \in 0 .. t - 1 /\ 0 \in Int /\ t * 0 + x = x
    OBVIOUS
<1>2. (t * 0 + x) % t = x
    BY <1>1, ModOfMultiple
<1> QED
    BY <1>1, <1>2

(* The modulus has room for a mark.                                        *)
LEMMA ModulusExceedsOne == Modulus \in Nat \ {0} /\ 1 < Modulus
BY ModulusAssumption, PeriodsAssumption

(* Candidates and delegates fit in a block.                                *)
LEMMA WidthsFit ==
    ASSUME Elected
    PROVE  /\ size.b \in Nat /\ size.k \in Nat /\ 1 \in 0 .. size.k /\ 0 \in Off(size.k)
           /\ size.b <= blockSize /\ size.k <= blockSize /\ 1 <= blockSize
           /\ Off(1) = {0} /\ Off(size.b) \subseteq 0 .. blockSize - 1
           /\ Off(size.k) \subseteq 0 .. blockSize - 1
<1>1. PICK b \in Nat \ {0}, k \in Nat \ {0}, w \in Nat \ {0} :
          b = size.b /\ k = size.k /\ w = blockSize /\ b <= w /\ k <= w
    BY Geometry DEF Elected
<1> QED
    BY <1>1 DEF Off

(* A value repeated at every offset.                                       *)
LEMMA EverywhereIs ==
    ASSUME NEW f, DOMAIN f = Voters(size), NEW width, NEW v \in Voters(size), NEW o \in Off(width)
    PROVE  Everywhere(f, width)[v][o] = f[v]
BY DEF Everywhere

(* The extended weights of PrepareWeights.                                 *)
LEMMA ExtPlaced ==
    ASSUME Elected
    PROVE  Placed(Packed([v \in Voters(size) |-> [l \in Delegates(size) |-> q[v]]], size.k),
                  size.k, Everywhere(q, size.k))
<1>1. [v \in Voters(size) |-> [l \in Delegates(size) |-> q[v]]] = Everywhere(q, size.k)
    BY DEF Everywhere, Off, Delegates, Elected
<1>2. \A v \in Voters(size), o \in Off(size.k) : Everywhere(q, size.k)[v][o] \in Nat
    <2> SUFFICES ASSUME NEW v \in Voters(size), NEW o \in Off(size.k)
                 PROVE  Everywhere(q, size.k)[v][o] \in Nat
        OBVIOUS
    <2>1. DOMAIN q = Voters(size) /\ q[v] \in Nat
        BY DEF Elected
    <2> QED
        BY <2>1, EverywhereIs
<1>3. size \in Sizes
    BY DEF Elected
<1> QED
    BY <1>1, <1>2, <1>3, WidthsFit, PackedIsPlaced

(* The mask is one in base slots only.                                     *)
LEMMA MaskAt ==
    ASSUME size \in Sizes, NEW v \in Voters(size), NEW o \in 0 .. blockSize - 1
    PROVE  baseSlotMask[Start(v) + o] = IF o = 0 THEN 1 ELSE 0
<1>1. PICK m \in Nat \ {0}, w \in Nat \ {0}, per \in Nat \ {0}, r \in {0, 1}, j \in Nat :
          /\ m = size.cols /\ w = blockSize /\ per = layout.votersPerRow
          /\ r = RowOf(v) /\ j = BlockOf(v) /\ j \in 0 .. per - 1
    <2>1. PICK m \in Nat \ {0}, w \in Nat \ {0}, per \in Nat \ {0} :
              m = size.cols /\ w = blockSize /\ per = layout.votersPerRow
        BY Geometry
    <2>2. RowOf(v) \in {0, 1} /\ BlockOf(v) \in 0 .. per - 1
        BY <2>1, VoterPlace
    <2>3. BlockOf(v) \in Nat
        BY <2>2
    <2> QED
        BY <2>1, <2>2, <2>3
<1>2. /\ Start(v) = r * m + j * w /\ Start(v) + o \in Slots
      /\ Row(Start(v) + o) = r /\ Col(Start(v) + o) = j * w + o
    BY <1>1, VoterPlace, Address
<1>3. ASSUME NEW row \in 0 .. 1, NEW i \in 0 .. per - 1, Start(v) + o = row * m + i * w
      PROVE  o = 0
    <2>1. i * w \in 0 .. m - 1
        <3>3. per * w <= m
            BY <1>1, Geometry
        <3>4. (i + 1) * w <= per * w
            BY TimesMonotone
        <3>1. (i + 1) * w <= per * w /\ per * w <= m
            BY <3>3, <3>4
        <3>2. PICK a \in Nat, b \in Nat : a = i * w /\ b = per * w /\ (i + 1) * w = a + w
            OBVIOUS
        <3> QED
            BY <1>1, <3>1, <3>2
    <2>2. row \in {0, 1}
        OBVIOUS
    <2>3. Col(row * m + i * w) = i * w
        BY <1>1, <2>1, <2>2, SlotMade
    <2>4. i * w + 0 = j * w + o
        BY <1>2, <1>3, <2>1, <2>3
    <2>5. 0 \in 0 .. w - 1 /\ o \in 0 .. w - 1 /\ i \in Nat
        BY <1>1
    <2> QED
        BY <2>4, <2>5, DivisionUnique
<1>4. CASE o = 0
    <2>1. Start(v) + o = r * m + j * w
        BY <1>2, <1>4, Address
    <2> QED
        BY <1>1, <1>2, <1>4, <2>1 DEF baseSlotMask, Ones
<1>5. CASE o # 0
    <2> DEFINE Base == {row * m + i * w : row \in 0 .. 1, i \in 0 .. per - 1}
    <2>1. ASSUME Start(v) + o \in Base PROVE FALSE
        <3>1. PICK row \in 0 .. 1, i \in 0 .. per - 1 : Start(v) + o = row * m + i * w
            BY <2>1
        <3> QED
            BY <1>3, <1>5, <3>1
    <2>2. baseSlotMask = Ones(Base)
        BY <1>1 DEF baseSlotMask
    <2> HIDE DEF Base
    <2>3. baseSlotMask[Start(v) + o] = 0
        BY <1>2, <2>1, <2>2 DEF Ones
    <2> QED
        BY <1>5, <2>3
<1> QED
    BY <1>4, <1>5

(* The base-slot mask has zeros and ones.                                  *)
LEMMA MaskIs == baseSlotMask \in [Slots -> {0, 1}]
BY DEF baseSlotMask, Ones

(* Masking the extended weights leaves the base slots.                     *)
LEMMA BasePlaced ==
    ASSUME Elected, NEW X, Placed(X, size.k, Everywhere(q, size.k)),
           NEW C, C = [ct \in Cts |-> Times(X[ct], baseSlotMask)]
    PROVE  Placed(C, 1, Everywhere(q, 1))
<1> DEFINE A == [ct \in Cts |-> baseSlotMask]
           new == [v \in Voters(size) |-> [o \in Off(size.k) |-> IF o = 0 THEN q[v] ELSE 0]]
<1>1. size \in Sizes /\ DOMAIN q = Voters(size) /\ \A v \in Voters(size) : q[v] \in 0 .. PowerSum
    BY PowerIs DEF Elected
<1>2. X \in [Cts -> [Slots -> Nat]]
    BY DEF Placed
<1>3. C = [ct \in Cts |-> Times(A[ct], X[ct])]
    <2>1. \A ct \in Cts, s \in Slots : X[ct][s] * baseSlotMask[s] = baseSlotMask[s] * X[ct][s]
        <3> SUFFICES ASSUME NEW ct \in Cts, NEW s \in Slots
                     PROVE  X[ct][s] * baseSlotMask[s] = baseSlotMask[s] * X[ct][s]
            OBVIOUS
        <3>1. PICK a \in Nat, b \in Nat : a = X[ct][s] /\ b = baseSlotMask[s]
            BY <1>2, MaskIs
        <3> QED
            BY <3>1
    <2>2. \A ct \in Cts : Times(X[ct], baseSlotMask) = Times(A[ct], X[ct])
        BY <2>1 DEF Times
    <2> QED
        BY <2>2
<1>4. A \in [Cts -> [Slots -> Int]]
    BY MaskIs
<1>5. \A v \in Voters(size), o \in Off(size.k) :
          (At(A, v, o) * Everywhere(q, size.k)[v][o]) % Modulus = new[v][o]
    <2> SUFFICES ASSUME NEW v \in Voters(size), NEW o \in Off(size.k)
                 PROVE  (At(A, v, o) * Everywhere(q, size.k)[v][o]) % Modulus
                            = IF o = 0 THEN q[v] ELSE 0
        OBVIOUS
    <2>1. Everywhere(q, size.k)[v][o] = q[v]
        BY <1>1, EverywhereIs
    <2>2. At(A, v, o) = IF o = 0 THEN 1 ELSE 0
        <3>1. o \in 0 .. blockSize - 1 /\ ctIdx(layout, v) \in Cts
            BY <1>1, WidthsFit, VoterPlace
        <3> QED
            BY <1>1, <3>1, MaskAt DEF At
    <2>3. PICK p \in Nat, m \in Nat \ {0} : p = q[v] /\ m = Modulus /\ p < m
        <3>1. PICK power \in Nat : power = PowerSum /\ power < Modulus
            BY PowerIs
        <3> QED
            BY <1>1, <3>1, ModulusPositive
    <2>4. p % m = p /\ 0 % m = 0
        BY <2>3, Reduced
    <2> QED
        BY <2>1, <2>2, <2>3, <2>4
<1>6. \A v \in Voters(size), o \in 1 .. size.k - 1 : new[v][o] = 0
    BY WidthsFit DEF Off
<1>7. \A v \in Voters(size), o \in Off(1) : Everywhere(q, 1)[v][o] = new[v][o]
    <2> SUFFICES ASSUME NEW v \in Voters(size), NEW o \in Off(1)
                 PROVE  Everywhere(q, 1)[v][o] = new[v][o]
        OBVIOUS
    <2>1. Everywhere(q, 1)[v][o] = q[v]
        BY <1>1, EverywhereIs
    <2>2. o = 0 /\ o \in Off(size.k)
        BY WidthsFit
    <2> QED
        BY <2>1, <2>2
<1> HIDE DEF A, new
<1>8. Placed(C, size.k, new)
    <2>1. /\ Modulus \in Nat \ {0} /\ size.k \in Nat /\ size.k <= blockSize
        BY ModulusPositive, WidthsFit
    <2>2. Multiplies(A, Everywhere(q, size.k), size.k, new)
        BY <1>5 DEF Multiplies
    <2>3. PICK Z : Z = [ct \in Cts |-> Times(A[ct], X[ct])]
        OBVIOUS
    <2>4. Placed(Z, size.k, new)
        <3>1. size \in Sizes
            BY <1>1
        <3> QED
            BY <1>4, <2>1, <2>2, <2>3, <3>1, TimesPlaced
    <2> QED
        BY <1>3, <2>3, <2>4
<1>9. Placed(C, 1, new)
    <2> DEFINE one == 1
    <2>1. size.k \in Nat /\ one \in 0 .. size.k
        BY WidthsFit
    <2>2. \A v \in Voters(size), o \in one .. size.k - 1 : new[v][o] = 0
        BY <1>6
    <2> HIDE DEF one
    <2>3. Placed(C, one, new)
        BY <1>8, <2>1, <2>2, PlacedNarrow
    <2> QED
        BY <2>3 DEF one
<1> QED
    BY <1>7, <1>9, PlacedSame

(* The totals that the echoes leave.                                       *)
LEMMA EchoPlaced ==
    ASSUME Elected
    PROVE  /\ Placed(Packed(candidateTotals, size.b), size.b, candidateTotals)
           /\ Placed(Packed(delegationTotals, size.k), size.k, delegationTotals)
<1>1. Periods \in Nat /\ size \in Sizes
    BY PeriodsAssumption DEF Elected
<1>2. \A v \in Voters(size), o \in Off(size.b) : candidateTotals[v][o] \in Nat
    BY <1>1, VoterTotals
<1>3. \A v \in Voters(size), o \in Off(size.k) : delegationTotals[v][o] \in Nat
    BY <1>1, VoterTotals
<1>4. Placed(Packed(candidateTotals, size.b), size.b, candidateTotals)
    BY <1>1, <1>2, WidthsFit, PackedIsPlaced
<1>5. Placed(Packed(delegationTotals, size.k), size.k, delegationTotals)
    BY <1>1, <1>3, WidthsFit, PackedIsPlaced
<1> QED
    BY <1>4, <1>5

(* The indicator marks majorities, and leaves empty slots empty.           *)
LEMMA IndicatorPlaced ==
    ASSUME size \in Sizes, NEW X, NEW width \in Nat, width <= blockSize, NEW t,
           DOMAIN t = Voters(size), \A v \in Voters(size) : DOMAIN t[v] = Off(width),
           Placed(X, width, t),
           NEW C, C = [ct \in Cts |-> Indicator(X[ct])]
    PROVE  Placed(C, width, Marks(t))
<1>1. \A ct \in Cts, s \in Slots : C[ct][s] = indicatorPlain(X[ct][s])
    BY DEF Indicator, indicatorPlain
<1>2. indicatorPlain(0) = 0
    <2>1. Periods \in Nat
        BY PeriodsAssumption
    <2>2. \A m \in Nat : m \div 2 \in Nat
        OBVIOUS
    <2> QED
        BY <2>1, <2>2 DEF indicatorPlain
<1>3. C \in [Cts -> [Slots -> Nat]]
    <2>1. \A x : Indicator(x) \in [Slots -> Nat]
        BY DEF Indicator
    <2> QED
        BY <2>1
<1>4. \A v \in Voters(size), o \in Off(width) : At(C, v, o) = Marks(t)[v][o]
    <2> SUFFICES ASSUME NEW v \in Voters(size), NEW o \in Off(width)
                 PROVE  At(C, v, o) = Marks(t)[v][o]
        OBVIOUS
    <2>1. o \in 0 .. blockSize - 1
        BY Geometry DEF Off
    <2>2. ctIdx(layout, v) \in Cts /\ Start(v) + o \in Slots
        BY <2>1, VoterPlace, Address
    <2>3. At(X, v, o) = t[v][o]
        BY DEF Placed
    <2>4. Marks(t)[v][o] = indicatorPlain(t[v][o])
        BY DEF Marks
    <2> QED
        BY <1>1, <2>2, <2>3, <2>4 DEF At
<1>5. \A ct \in Cts, s \in Slots : C[ct][s] # 0 => X[ct][s] # 0
    BY <1>1, <1>2
<1> QED
    BY <1>3, <1>4, <1>5 DEF Placed

(* Marks times extended weights.                                           *)
LEMMA WeightedPlaced ==
    ASSUME Elected, NEW A, NEW B, Placed(A, size.k, Marks(delegationTotals)),
           Placed(B, size.k, Everywhere(q, size.k)),
           NEW C, C = [ct \in Cts |-> Times(A[ct], B[ct])]
    PROVE  Placed(C, size.k, Weighs(delegationTotals, q))
<1>1. A \in [Cts -> [Slots -> Int]]
    <2>1. A \in [Cts -> [Slots -> Nat]]
        BY DEF Placed
    <2> QED
        BY <2>1
<1>2. \A v \in Voters(size), o \in Off(size.k) :
          (At(A, v, o) * Everywhere(q, size.k)[v][o]) % Modulus = Weighs(delegationTotals, q)[v][o]
    <2> SUFFICES ASSUME NEW v \in Voters(size), NEW o \in Off(size.k)
                 PROVE  (At(A, v, o) * Everywhere(q, size.k)[v][o]) % Modulus
                            = Weighs(delegationTotals, q)[v][o]
        OBVIOUS
    <2>1. At(A, v, o) = indicatorPlain(delegationTotals[v][o])
        <3>1. At(A, v, o) = Marks(delegationTotals)[v][o]
            BY DEF Placed
        <3>2. Marks(delegationTotals)[v][o] = indicatorPlain(delegationTotals[v][o])
            BY VoterTotals DEF Marks
        <3> QED
            BY <3>1, <3>2
    <2>2. Everywhere(q, size.k)[v][o] = q[v]
        BY VoterTotals, EverywhereIs
    <2>3. /\ Weighs(delegationTotals, q)[v][o] = indicatorPlain(delegationTotals[v][o]) * q[v]
          /\ Weighs(delegationTotals, q)[v][o] \in {0, q[v]}
        <3>1. o \in Delegates(size)
            BY VoterTotals
        <3>2. PICK g :
                  /\ g = Weighs(delegationTotals, q)[v]
                  /\ g = [l \in Delegates(size) |-> indicatorPlain(delegationTotals[v][l]) * q[v]]
                  /\ \A l \in Delegates(size) : g[l] \in {0, q[v]}
            BY KeepsOrGives
        <3> QED
            BY <3>1, <3>2
    <2>4. PICK x \in Nat : x = Weighs(delegationTotals, q)[v][o] /\ x < Modulus
        <3>1. PICK power \in Nat : power = PowerSum /\ power < Modulus
            BY PowerIs
        <3>2. q[v] \in 0 .. power
            BY <3>1, PowerIs
        <3>3. PICK y \in Nat : y = q[v] /\ y < Modulus
            BY <3>1, <3>2, ModulusPositive
        <3>4. 0 < Modulus
            BY ModulusPositive
        <3> QED
            BY <2>3, <3>3, <3>4
    <2>5. x % Modulus = x
        BY <2>4, ModulusPositive, Reduced
    <2> QED
        BY <2>1, <2>2, <2>3, <2>4, <2>5
<1>3. /\ size \in Sizes /\ Modulus \in Nat \ {0} /\ size.k \in Nat /\ size.k <= blockSize
    BY ModulusPositive, WidthsFit DEF Elected
<1>4. Multiplies(A, Everywhere(q, size.k), size.k, Weighs(delegationTotals, q))
    BY <1>2 DEF Multiplies
<1> QED
    BY <1>1, <1>3, <1>4, TimesPlaced

(* What is reduced is below the modulus.                                   *)
LEMMA ModInteger ==
    ASSUME NEW x \in Int
    PROVE  x % Modulus \in Nat /\ x % Modulus < Modulus
<1>1. PICK m \in Nat \ {0} : m = Modulus
    BY ModulusPositive
<1>2. x % m \in 0 .. m - 1
    OBVIOUS
<1> QED
    BY <1>1, <1>2

(* In both rows, the slots of the delegates hold what x has for them.      *)
Repeated(z, x) ==
    [s \in 0 .. 2 * z.cols - 1 |-> IF s % z.cols < z.k THEN x[s % z.cols] ELSE 0]

(* The delegate mask keeps the first columns of both rows.                 *)
LEMMA DelegateMaskIs ==
    ASSUME Elected, NEW s \in Slots
    PROVE  delegateMask[s] = IF Col(s) < size.k THEN 1 ELSE 0
<1>1. PICK c \in Nat \ {0}, k \in Nat \ {0}, r \in {0, 1}, e \in Nat :
          /\ c = size.cols /\ k = size.k /\ r = Row(s) /\ e = Col(s)
          /\ s = r * c + e /\ k <= c
    <2>1. PICK c \in Nat \ {0}, k \in Nat \ {0} : c = size.cols /\ k = size.k /\ k <= c
        BY Geometry, SizesAssumption DEF Elected
    <2>2. Row(s) \in {0, 1} /\ Col(s) \in 0 .. c - 1 /\ s = Row(s) * c + Col(s)
        BY <2>1, SlotParts DEF Elected
    <2> QED
        BY <2>1, <2>2
<1> DEFINE Front == {row * size.cols + l : row \in 0 .. 1, l \in Delegates(size)}
<1>2. delegateMask = Ones(Front)
    BY DEF delegateMask
<1>3. s \in Front <=> e < k
    <2>1. ASSUME e < k PROVE s \in Front
        <3>1. r \in 0 .. 1 /\ e \in Delegates(size) /\ s = r * size.cols + e
            BY <1>1, <2>1 DEF Delegates
        <3> QED
            BY <3>1
    <2>2. ASSUME s \in Front PROVE e < k
        <3>1. PICK row \in {0, 1}, l \in Delegates(size) : s = row * size.cols + l
            BY <2>2
        <3>2. l \in 0 .. k - 1
            BY <1>1 DEF Delegates
        <3>3. l \in 0 .. size.cols - 1 /\ size \in Sizes
            BY <1>1, <3>2 DEF Elected
        <3>4. Col(row * size.cols + l) = l
            BY <3>3, SlotMade
        <3>5. Col(s) = l
            BY <3>1, <3>4
        <3>6. PICK m \in Nat : m = l /\ m < k
            BY <3>2
        <3> QED
            BY <1>1, <3>5, <3>6
    <2> QED
        BY <2>1, <2>2
<1> HIDE DEF Front
<1> QED
    BY <1>1, <1>2, <1>3 DEF Ones

(* Phase 4.4: supports, in the delegates' columns of both rows.            *)
LEMMA SupportComputed ==
    ASSUME Elected, NEW X, Placed(X, size.k, Weighs(delegationTotals, q))
    PROVE  Times(Total([ct \in Cts |-> SumBlocks(X[ct])], Cts), delegateMask)
              = Repeated(size, Supports(delegationTotals, q, D))
<1> DEFINE x == Total([ct \in Cts |-> SumBlocks(X[ct])], Cts)
           sup == Supports(delegationTotals, q, D)
           y == Times(x, delegateMask)
<1>1. size \in Sizes /\ X \in [Cts -> [Slots -> Nat]]
    BY DEF Elected, Placed
<1>2. Slots = 0 .. 2 * size.cols - 1
    BY <1>1, Geometry
<1>3. ASSUME NEW s \in Slots
      PROVE  y[s] = IF s % size.cols < size.k THEN sup[s % size.cols] ELSE 0
    <2>1. x[s] = Gathered(X, s) % Modulus
        BY <1>1, BlocksThenCiphertexts
    <2>2. delegateMask[s] = IF Col(s) < size.k THEN 1 ELSE 0
        BY DelegateMaskIs
    <2>3. y[s] = (x[s] * delegateMask[s]) % Modulus
        BY DEF Times
    <2>4. Gathered(X, s) \in Int
        <3>1. \A p \in Cts \X Blocks : Brought(X, s)[p] \in Int
            BY <1>1, BroughtNat
        <3>2. IsFiniteSet(Cts \X Blocks)
            BY <1>1, Parts
        <3> QED
            BY <3>1, <3>2, SumInteger DEF Gathered
    <2>5. x[s] \in Nat
        BY <2>1, <2>4, ModInteger
    <2>6. CASE Col(s) < size.k
        <3>1. Col(s) \in Off(size.k) /\ Col(s) \in Delegates(size)
            <4>1. Col(s) \in 0 .. size.cols - 1
                BY <1>1, SlotParts
            <4>2. PICK c \in Nat, e \in Nat, k \in Nat : c = size.cols /\ e = Col(s) /\ k = size.k /\ e < k
                BY <1>1, <2>6, <4>1, Geometry
            <4> QED
                BY <4>2 DEF Off, Delegates
        <3> DEFINE f == [v \in Voters(size) |-> Weighs(delegationTotals, q)[v][Col(s)]]
                   l == Col(s)
        <3>2. \A v \in Voters(size) : f[v] = Weighs(delegationTotals, q)[v][l]
            OBVIOUS
        <3> HIDE DEF f
        <3>3. Gathered(X, s) = SumOver(f, Voters(size))
            <4>1. size.k \in Nat /\ size.k <= blockSize
                BY WidthsFit
            <4> QED
                BY <1>1, <3>1, <3>2, <4>1, GatheredValue
        <3> HIDE DEF l
        <3>4. sup[l] = SumOver(f, Voters(size)) /\ sup[l] \in 0 .. PowerSum
            <4>1. l \in Delegates(size)
                BY <3>1 DEF l
            <4> QED
                BY <3>2, <4>1, SupportsAre
        <3>5. PICK g \in Nat : g = Gathered(X, s) /\ g < Modulus /\ sup[Col(s)] = g
            <4>1. PICK power \in Nat : power = PowerSum /\ power < Modulus
                BY PowerIs
            <4>2. PICK g \in 0 .. power : g = sup[l]
                BY <3>4, <4>1
            <4>3. g < Modulus
                BY <4>1, <4>2, ModulusPositive
            <4> QED
                BY <3>3, <3>4, <4>2, <4>3 DEF l
        <3>6. g % Modulus = g
            BY <3>5, ModulusPositive, Reduced
        <3>7. x[s] = g
            BY <2>1, <3>5, <3>6
        <3>8. y[s] = g
            BY <2>2, <2>3, <2>6, <3>6, <3>7
        <3> QED
            BY <2>6, <3>5, <3>8 DEF Col
    <2>7. CASE ~(Col(s) < size.k)
        <3>1. y[s] = 0 % Modulus
            BY <2>2, <2>3, <2>5, <2>7
        <3>2. 0 % Modulus = 0
            BY ModulusPositive, Reduced
        <3> QED
            BY <2>7, <3>1, <3>2 DEF Col
    <2> QED
        BY <2>6, <2>7
<1>4. y = [s \in Slots |-> y[s]]
    BY DEF Times
<1> HIDE DEF x, sup, y
<1>5. y = [s \in 0 .. 2 * size.cols - 1 |-> IF s % size.cols < size.k THEN sup[s % size.cols] ELSE 0]
    BY <1>2, <1>3, <1>4
<1> QED
    BY <1>5 DEF y, x, sup, Repeated

(* Inner sums are whole numbers.                                           *)
LEMMA RotateAndAddInteger ==
    ASSUME size \in Sizes, NEW x \in [Slots -> Int], NEW batch \in Int, NEW times \in Nat,
           NEW s \in Slots
    PROVE  RotateAndAdd(x, batch, times)[s] \in Int
<1> DEFINE f == [j \in 0 .. times - 1 |-> x[Shifted(s, j * batch)]]
<1>1. \A j \in 0 .. times - 1 : f[j] = x[Shifted(s, j * batch)] /\ f[j] \in Int
    <2> SUFFICES ASSUME NEW j \in 0 .. times - 1 PROVE x[Shifted(s, j * batch)] \in Int
        OBVIOUS
    <2>1. PICK by \in Int : by = j * batch
        OBVIOUS
    <2>2. Shifted(s, by) \in Slots
        BY ShiftedSlot
    <2> QED
        BY <2>1, <2>2
<1> HIDE DEF f
<1>2. RotateAndAdd(x, batch, times)[s] = SumOver(f, 0 .. times - 1) % Modulus
    <2>1. Reads(f, x, batch, times, s)
        BY <1>1 DEF Reads
    <2> QED
        BY <2>1, RotateAndAddIs
<1>3. IsFiniteSet(0 .. times - 1)
    BY FS_Interval
<1>4. SumOver(f, 0 .. times - 1) \in Int
    BY <1>1, <1>3, SumInteger
<1>5. SumOver(f, 0 .. times - 1) % Modulus \in Nat
    BY <1>4, ModInteger
<1> QED
    BY <1>2, <1>5

(* Reading on from a base slot goes through the voter's own block.         *)
LEMMA OwnBlock ==
    ASSUME size \in Sizes, NEW v \in Voters(size), NEW o \in 0 .. blockSize - 1
    PROVE  Start(v) \in Slots /\ Shifted(Start(v), o) = Start(v) + o
<1>1. PICK c \in Nat \ {0}, w \in Nat \ {0}, a \in Nat, r \in {0, 1} :
          /\ c = size.cols /\ w = blockSize /\ a = BlockOf(v) * blockSize /\ r = RowOf(v)
          /\ a + w <= c
    BY Geometry, VoterPlace
<1>2. 0 \in 0 .. blockSize - 1
    BY Geometry
<1>3. Start(v) + 0 \in Slots /\ Row(Start(v) + 0) = r /\ Col(Start(v) + 0) = a + 0 /\ Start(v) \in Nat
    BY <1>1, <1>2, Address
<1>4. Start(v) \in Slots /\ Row(Start(v)) = r /\ Col(Start(v)) = a /\ Start(v) = r * c + a
    <2>1. Start(v) + 0 = Start(v)
        BY <1>3
    <2>2. a + 0 = a
        OBVIOUS
    <2> QED
        BY <1>1, <1>3, <2>1, <2>2, VoterPlace
<1>5. (a + o) % c = a + o
    <2>1. o \in 0 .. w - 1
        BY <1>1
    <2>2. a + o \in Nat /\ a + o < c
        BY <1>1, <2>1
    <2> QED
        BY <2>2, Reduced
<1>6. r * c + (a + o) = (r * c + a) + o
    <2>1. r * c \in Nat /\ o \in Nat
        BY <1>1
    <2> QED
        BY <2>1
<1> QED
    BY <1>1, <1>4, <1>5, <1>6 DEF Shifted

(* Phase 4.5: base slots keep what is not delegated, the rest is blanked.  *)
LEMMA SelfPlaced ==
    ASSUME Elected, NEW X, NEW B, Placed(X, size.k, Marks(delegationTotals)),
           Placed(B, 1, Everywhere(q, 1)),
           NEW C, C = [ct \in Cts |-> Times(SelfIndicator(X[ct]), B[ct])]
    PROVE  Placed(C, 1, Everywhere(Keeps(delegationTotals, q), 1))
<1> DEFINE keeps == Keeps(delegationTotals, q)
           A == [ct \in Cts |-> SelfIndicator(X[ct])]
<1>1. /\ size \in Sizes /\ X \in [Cts -> [Slots -> Nat]] /\ size.k \in Nat
      /\ DOMAIN q = Voters(size) /\ DOMAIN keeps = Voters(size)
    BY WidthsFit DEF Elected, Placed, Keeps
<1>2. PICK one \in Nat : one = 1
    OBVIOUS
<1>3. A \in [Cts -> [Slots -> Int]]
    <2>1. ASSUME NEW ct \in Cts, NEW s \in Slots
          PROVE  SelfIndicator(X[ct])[s] \in Int
        <3>1. X[ct] \in [Slots -> Int]
            BY <1>1
        <3>2. RotateAndAdd(X[ct], one, size.k)[s] \in Int
            BY <1>1, <3>1, RotateAndAddInteger
        <3>3. PICK a \in Int, b \in Int : a = baseSlotMask[s] /\ b = RowSums(X[ct])[s]
            BY <1>2, <3>2, MaskIs DEF RowSums
        <3>4. (a - b) % Modulus \in Nat
            BY ModInteger
        <3> QED
            BY <3>3, <3>4 DEF SelfIndicator, Minus
    <2>2. \A ct \in Cts : SelfIndicator(X[ct]) = [s \in Slots |-> SelfIndicator(X[ct])[s]]
        BY DEF SelfIndicator, Minus
    <2>3. \A ct \in Cts : SelfIndicator(X[ct]) \in [Slots -> Int]
        BY <2>1, <2>2
    <2> QED
        BY <2>3
<1>4. ASSUME NEW v \in Voters(size)
      PROVE  At(A, v, 0) = delegationIndicatorPlain(v)
    <2> DEFINE x == X[ctIdx(layout, v)]
               f == [j \in 0 .. size.k - 1 |-> indicatorPlain(delegationTotals[v][j])]
               s == Start(v)
    <2>1. ctIdx(layout, v) \in Cts /\ s \in Slots /\ s + 0 = s
        <3>1. 0 \in 0 .. blockSize - 1
            BY <1>1, Geometry
        <3>2. Start(v) \in Nat
            BY <1>1, <3>1, Address
        <3> QED
            BY <1>1, <3>1, <3>2, VoterPlace, OwnBlock
    <2>2. \A j \in 0 .. size.k - 1 : f[j] = x[Shifted(s, j * one)]
        <3> SUFFICES ASSUME NEW j \in 0 .. size.k - 1
                     PROVE  indicatorPlain(delegationTotals[v][j]) = x[Shifted(s, j * one)]
            OBVIOUS
        <3>1. j * one = j
            BY <1>2
        <3>2. j \in Off(size.k) /\ j \in 0 .. blockSize - 1
            BY WidthsFit DEF Off
        <3>3. x[s + j] = Marks(delegationTotals)[v][j]
            BY <3>2 DEF Placed, At
        <3>4. Marks(delegationTotals)[v][j] = indicatorPlain(delegationTotals[v][j])
            BY <3>2, VoterTotals DEF Marks
        <3>5. Shifted(s, j) = s + j
            BY <1>1, <3>2, OwnBlock
        <3> QED
            BY <3>1, <3>3, <3>4, <3>5
    <2>3. \A j \in Delegates(size) : f[j] = indicatorPlain(delegationTotals[v][j])
        BY DEF Delegates
    <2> HIDE DEF f, x, s
    <2>4. delegationIndicatorPlain(v) = 1 - SumOver(f, Delegates(size))
        BY <1>1, <2>3, MarkedIs
    <2>5. RowSums(x)[s] = SumOver(f, Delegates(size)) % Modulus
        <3>1. RotateAndAdd(x, one, size.k)[s] = SumOver(f, 0 .. size.k - 1) % Modulus
            <4>1. Reads(f, x, one, size.k, s)
                BY <2>2 DEF Reads
            <4> QED
                BY <1>1, <2>1, <4>1, RotateAndAddIs
        <3> QED
            BY <1>2, <3>1 DEF RowSums, Delegates
    <2>6. SumOver(f, Delegates(size)) \in {0, 1}
        <3>1. SumOver(f, Delegates(size)) \in Int
            <4>1. \A j \in Delegates(size) : f[j] \in Int
                <5> SUFFICES ASSUME NEW j \in Delegates(size) PROVE f[j] \in Int
                    OBVIOUS
                <5>1. indicatorPlain(delegationTotals[v][j]) \in Nat
                    BY Mark
                <5> QED
                    BY <2>3, <5>1
            <4> QED
                BY <1>1, <4>1, FiniteParts, SumInteger
        <3>2. delegationIndicatorPlain(v) \in {0, 1}
            BY KeepsOrGives
        <3> QED
            BY <2>4, <3>1, <3>2
    <2>7. baseSlotMask[s] = 1
        <3>1. 0 \in 0 .. blockSize - 1
            BY <1>1, Geometry
        <3>2. baseSlotMask[s + 0] = 1
            BY <1>1, <3>1, MaskAt DEF s
        <3> QED
            BY <2>1, <3>2
    <2>8. PICK y \in {0, 1} : y = SumOver(f, Delegates(size))
        BY <2>6
    <2>9. PICK m \in Nat \ {0} : m = Modulus /\ 1 < m
        BY ModulusExceedsOne
    <2>10. y % m = y /\ (1 - y) % m = 1 - y
        <3>1. y \in Nat /\ y < m /\ 1 - y \in Nat /\ 1 - y < m
            BY <2>9
        <3> QED
            BY <3>1, Reduced
    <2>11. SelfIndicator(x)[s] = 1 - y
        <3>1. SelfIndicator(x)[s] = (baseSlotMask[s] - RowSums(x)[s]) % Modulus
            BY <2>1 DEF SelfIndicator, Minus
        <3> QED
            BY <2>5, <2>7, <2>8, <2>9, <2>10, <3>1
    <2>12. At(A, v, 0) = SelfIndicator(x)[s]
        BY <2>1 DEF At, x, s
    <2> QED
        BY <2>4, <2>8, <2>11, <2>12
<1>5. Multiplies(A, Everywhere(q, 1), 1, Everywhere(keeps, 1))
    <2> SUFFICES ASSUME NEW v \in Voters(size), NEW o \in Off(1)
                 PROVE  (At(A, v, o) * Everywhere(q, 1)[v][o]) % Modulus = Everywhere(keeps, 1)[v][o]
        BY DEF Multiplies
    <2>1. o = 0
        BY WidthsFit
    <2>2. Everywhere(q, 1)[v][o] = q[v] /\ Everywhere(keeps, 1)[v][o] = keeps[v]
        BY <1>1, EverywhereIs
    <2>3. delegationIndicatorPlain(v) * q[v] = keeps[v]
        BY KeepsOrGives DEF weightedSelfPowerPlain
    <2>4. keeps[v] % Modulus = keeps[v]
        <3>1. PICK power \in Nat : power = PowerSum /\ power < Modulus
            BY PowerIs
        <3>2. PICK x \in 0 .. power : x = keeps[v]
            BY <3>1, WeightsAre
        <3>3. x \in Nat /\ x < Modulus
            BY <3>1, <3>2, ModulusPositive
        <3> QED
            BY <3>2, <3>3, ModulusPositive, Reduced
    <2> HIDE DEF A, keeps
    <2> QED
        BY <1>4, <2>1, <2>2, <2>3, <2>4
<1>6. C = [ct \in Cts |-> Times(A[ct], B[ct])]
    OBVIOUS
<1>7. 1 <= blockSize /\ 1 \in Nat /\ Modulus \in Nat \ {0}
    BY WidthsFit, ModulusPositive
<1> HIDE DEF A, keeps
<1>8. PICK Z : Z = [ct \in Cts |-> Times(A[ct], B[ct])]
    OBVIOUS
<1>9. Placed(Z, one, Everywhere(keeps, one))
    <2>1. Multiplies(A, Everywhere(q, one), one, Everywhere(keeps, one)) /\ one <= blockSize
        BY <1>2, <1>5, <1>7
    <2>2. Placed(B, one, Everywhere(q, one))
        BY <1>2
    <2> QED
        BY <1>1, <1>3, <1>7, <1>8, <2>1, <2>2, TimesPlaced
<1> QED
    BY <1>2, <1>6, <1>8, <1>9 DEF keeps

(* Totals are natural numbers.                                             *)
LEMMA TotalNatural ==
    ASSUME NEW array, NEW S, IsFiniteSet(S), NEW s \in Slots, \A i \in S : array[i][s] \in Int
    PROVE  Total(array, S)[s] \in Nat
<1> DEFINE f == [i \in S |-> array[i][s]]
<1>1. \A i \in S : f[i] = array[i][s] /\ f[i] \in Int
    OBVIOUS
<1> HIDE DEF f
<1>2. Total(array, S)[s] = SumOver(f, S) % Modulus
    BY <1>1, TotalIs
<1>3. SumOver(f, S) \in Int
    BY <1>1, SumInteger
<1> QED
    BY <1>2, <1>3, ModInteger

(* No support wraps around.                                                *)
LEMMA SupportWhole ==
    ASSUME Elected, NEW l \in Delegates(size)
    PROVE  /\ Supports(delegationTotals, q, D)[l] \in Nat
           /\ Supports(delegationTotals, q, D)[l] < Modulus
<1> DEFINE f == [v \in Voters(size) |-> Weighs(delegationTotals, q)[v][l]]
<1>1. \A v \in Voters(size) : f[v] = Weighs(delegationTotals, q)[v][l]
    OBVIOUS
<1> HIDE DEF f
<1>2. Supports(delegationTotals, q, D)[l] \in 0 .. PowerSum
    BY <1>1, SupportsAre
<1>3. PICK p \in Nat, m \in Nat : p = PowerSum /\ m = Modulus /\ p < m
    BY PowerIs, ModulusPositive
<1> QED
    BY <1>2, <1>3

(* A slot in a delegate's column holds that delegate's support.            *)
LEMMA Repeats ==
    ASSUME Elected, NEW s \in Slots
    PROVE  /\ Repeated(size, Supports(delegationTotals, q, D))[s] \in Int
           /\ Col(s) \in Delegates(size) =>
                 Repeated(size, Supports(delegationTotals, q, D))[s]
                    = Supports(delegationTotals, q, D)[Col(s)]
<1> DEFINE sup == Supports(delegationTotals, q, D)
<1>1. s \in 0 .. 2 * size.cols - 1
    BY Geometry DEF Elected
<1>2. Repeated(size, sup)[s] = IF Col(s) < size.k THEN sup[Col(s)] ELSE 0
    BY <1>1 DEF Repeated, Col
<1>3. Col(s) \in Delegates(size) <=> Col(s) < size.k
    <2>1. Col(s) \in 0 .. size.cols - 1
        BY SlotParts DEF Elected
    <2>2. PICK e \in Nat, k \in Nat : e = Col(s) /\ k = size.k
        BY <2>1, Geometry DEF Elected
    <2> QED
        BY <2>2 DEF Delegates
<1>4. \A l \in Delegates(size) : sup[l] \in Int
    BY SupportWhole
<1> HIDE DEF sup
<1>5. Repeated(size, sup)[s] \in Int
    BY <1>2, <1>3, <1>4
<1> QED
    BY <1>2, <1>3, <1>5 DEF sup

(* The rotation and mask of phase 4.6 move one support to one base slot.   *)
LEMMA MovedIs ==
    ASSUME Elected, support = Repeated(size, Supports(delegationTotals, q, D)),
           NEW ct \in Cts, NEW i \in 0 .. votersInCt(layout, size.n, ct) - 1,
           NEW l \in Delegates(size), D[l] = Global(ct, i), NEW s \in Slots
    PROVE  /\ D[l] \in Voters(size) /\ ctIdx(layout, D[l]) = ct
           /\ Moved(i, l)[s] = IF s = Start(D[l]) THEN Supports(delegationTotals, q, D)[l] ELSE 0
<1> DEFINE sup == Supports(delegationTotals, q, D)
           v == D[l]
<1>1. size \in Sizes /\ v \in Voters(size) /\ l \in 0 .. size.k - 1
    BY DEF Elected, Delegates
<1>2. ctIdx(layout, v) = ct
    <2>1. v \in VotersIn(ct)
        BY DEF VotersIn
    <2> QED
        BY <1>1, <2>1, VotersOf
<1>3. Start(v) = localStart(i)
    <2>1. ct \in Nat
        BY <1>1, FiniteParts
    <2>2. PICK m \in Nat \ {0}, left \in Int :
              m = layout.votersPerCiphertext /\ left = size.n - ct * layout.votersPerCiphertext
        <3>1. PICK m \in Nat \ {0} : m = layout.votersPerCiphertext
            BY <1>1, LayoutShape
        <3>2. PICK n \in Nat : n = size.n
            BY <1>1, Geometry
        <3>3. n - ct * m \in Int
            BY <2>1
        <3> QED
            BY <3>1, <3>2, <3>3
    <2>3. votersInCt(layout, size.n, ct) = IF left < m THEN left ELSE m
        BY <2>2 DEF votersInCt
    <2>4. i \in 0 .. m - 1
        BY <2>3
    <2>5. Start(Global(ct, i)) = localStart(i)
        BY <1>1, <2>1, <2>2, <2>4, LocalBlock
    <2> QED
        BY <2>5
<1>4. PICK c \in Nat \ {0}, a \in Nat, r \in {0, 1}, b \in Nat :
          /\ c = size.cols /\ r = RowOf(v) /\ a = BlockOf(v) * blockSize /\ a < c
          /\ b = Start(v) /\ b \in Slots /\ b = r * c + a /\ Row(b) = r /\ Col(b) = a
          /\ l \in 0 .. c - 1
    <2>1. PICK c \in Nat \ {0}, w \in Nat \ {0}, a \in Nat, r \in {0, 1}, k \in Nat :
              /\ c = size.cols /\ w = blockSize /\ a = BlockOf(v) * blockSize /\ r = RowOf(v)
              /\ a + w <= c /\ k = size.k /\ k <= w
        BY <1>1, Geometry, VoterPlace
    <2>2. a < c /\ w <= c
        BY <2>1
    <2>3. a \in 0 .. c - 1 /\ l \in 0 .. c - 1
        BY <1>1, <2>1, <2>2
    <2>4. Start(v) = r * c + a /\ r * c + a \in Slots /\ Row(r * c + a) = r /\ Col(r * c + a) = a
        BY <1>1, <2>1, <2>3, VoterPlace, SlotMade
    <2>5. r * c + a \in Nat
        OBVIOUS
    <2> QED
        BY <2>1, <2>2, <2>3, <2>4, <2>5
<1>5. l \in Int /\ l - b \in Int
    BY <1>4
<1>6. Shifted(s, l - b) \in Slots
    BY <1>1, <1>5, ShiftedSlot
<1>7. Moved(i, l)[s] = (support[Shifted(s, l - b)] * (IF s = b THEN 1 ELSE 0)) % Modulus
    BY <1>3, <1>4 DEF Moved, Times, Ones, RotateColumns, Shifted
<1>8. CASE s = b
    <2>1. (a + (l - b)) % c = l
        <3>1. PICK j \in Int : j = -r
            OBVIOUS
        <3>2. a + (l - b) = c * j + l
            BY <1>4, <3>1
        <3>3. (c * j + l) % c = l
            BY <1>4, ModOfMultiple
        <3> QED
            BY <3>2, <3>3
    <2>2. Col(Shifted(s, l - b)) = l
        BY <1>1, <1>4, <1>5, <1>8, <2>1, ShiftedSlot
    <2>3. support[Shifted(s, l - b)] = sup[l]
        BY <1>6, <2>2, Repeats
    <2>4. PICK x \in Nat : x = sup[l] /\ x < Modulus
        BY SupportWhole
    <2>5. x % Modulus = x /\ x * 1 = x
        BY <2>4, ModulusPositive, Reduced
    <2> QED
        BY <1>1, <1>2, <1>4, <1>7, <1>8, <2>3, <2>4, <2>5
<1>9. CASE s # b
    <2>1. PICK x \in Int : x = support[Shifted(s, l - b)]
        BY <1>6, Repeats
    <2>2. x * 0 = 0 /\ 0 % Modulus = 0
        BY ModulusPositive, Reduced
    <2> QED
        BY <1>1, <1>2, <1>4, <1>7, <1>9, <2>1, <2>2
<1> QED
    BY <1>8, <1>9

(* The delegated powers of phase 4.6, before the voters' own are added.    *)
Delegated(C) ==
    C = [ct \in Cts |-> Total([one \in OnesOfD(ct) |-> Moved(one[1], one[2])], OnesOfD(ct))]

(* Phase 4.6 brings a delegate's support to the delegate's own base slot.  *)
LEMMA DwPlaced ==
    ASSUME Elected, support = Repeated(size, Supports(delegationTotals, q, D)),
           NEW C, Delegated(C)
    PROVE  Placed(C, 1, Everywhere(Receives(delegationTotals, q, D), 1))
<1> DEFINE sup == Supports(delegationTotals, q, D)
           rec == Receives(delegationTotals, q, D)
           array(ct) == [one \in OnesOfD(ct) |-> Moved(one[1], one[2])]
<1>1. size \in Sizes /\ DOMAIN rec = Voters(size)
    BY DEF Elected, Receives
<1>2. ASSUME NEW ct \in Cts
      PROVE  /\ IsFiniteSet(OnesOfD(ct))
             /\ \A one \in OnesOfD(ct) :
                   /\ one[1] \in 0 .. votersInCt(layout, size.n, ct) - 1
                   /\ one[2] \in Delegates(size) /\ D[one[2]] = Global(ct, one[1])
                   /\ one = <<one[1], one[2]>>
    <2> DEFINE I == 0 .. votersInCt(layout, size.n, ct) - 1
    <2>1. votersInCt(layout, size.n, ct) \in Int
        <3>1. PICK m \in Nat \ {0}, n \in Nat, x \in Nat :
                  m = layout.votersPerCiphertext /\ n = size.n /\ x = ct
            BY <1>1, LayoutShape, Geometry, FiniteParts
        <3>2. PICK left \in Int : left = n - x * m
            OBVIOUS
        <3> QED
            BY <3>1, <3>2 DEF votersInCt
    <2>2. IsFiniteSet(I)
        BY <2>1, FS_Interval
    <2>3. IsFiniteSet(I \X Delegates(size))
        BY <1>1, <2>2, FiniteParts, FS_Product
    <2>4. OnesOfD(ct) \subseteq I \X Delegates(size)
        BY DEF OnesOfD
    <2>5. IsFiniteSet(OnesOfD(ct))
        BY <2>3, <2>4, FS_Subset
    <2> QED
        BY <2>5 DEF OnesOfD
<1>3. ASSUME NEW ct \in Cts, NEW one \in OnesOfD(ct), NEW s \in Slots
      PROVE  /\ D[one[2]] \in Voters(size) /\ ctIdx(layout, D[one[2]]) = ct
             /\ array(ct)[one][s] = IF s = Start(D[one[2]]) THEN sup[one[2]] ELSE 0
             /\ array(ct)[one][s] \in Int
    <2>1. /\ D[one[2]] \in Voters(size) /\ ctIdx(layout, D[one[2]]) = ct
          /\ Moved(one[1], one[2])[s] = IF s = Start(D[one[2]]) THEN sup[one[2]] ELSE 0
        BY <1>2, MovedIs
    <2>2. sup[one[2]] \in Int
        BY <1>2, SupportWhole
    <2> QED
        BY <2>1, <2>2
<1>4. \A ct \in Cts : C[ct] = Total(array(ct), OnesOfD(ct))
    BY DEF Delegated
<1> HIDE DEF sup, rec, array
<1>5. ASSUME NEW ct \in Cts, NEW s \in Slots
      PROVE  C[ct][s] \in Nat
    BY <1>2, <1>3, <1>4, TotalNatural
<1>6. C \in [Cts -> [Slots -> Nat]]
    <2>1. \A ct \in Cts : C[ct] = [s \in Slots |-> C[ct][s]]
        BY <1>4 DEF Total
    <2>2. \A ct \in Cts : C[ct] \in [Slots -> Nat]
        BY <1>5, <2>1
    <2>3. C = [ct \in Cts |-> C[ct]]
        BY DEF Delegated
    <2> QED
        BY <2>2, <2>3
<1>7. ASSUME NEW ct \in Cts, NEW s \in Slots,
             \A one \in OnesOfD(ct) : s # Start(D[one[2]])
      PROVE  C[ct][s] = 0
    <2> DEFINE f == [one \in OnesOfD(ct) |-> 0]
    <2>1. \A one \in OnesOfD(ct) : f[one] = array(ct)[one][s] /\ f[one] = 0
        BY <1>3, <1>7
    <2> HIDE DEF f
    <2>2. C[ct][s] = SumOver(f, OnesOfD(ct)) % Modulus
        BY <1>2, <1>4, <2>1, TotalIs
    <2>3. SumOver(f, OnesOfD(ct)) = 0
        BY <1>2, <2>1, SumOfZeros
    <2>4. 0 % Modulus = 0
        BY ModulusPositive, Reduced
    <2> QED
        BY <2>2, <2>3, <2>4
<1>8. ASSUME NEW ct \in Cts, NEW s \in Slots, C[ct][s] # 0
      PROVE  \E v \in Voters(size), o \in Off(1) : ct = ctIdx(layout, v) /\ s = Start(v) + o
    <2>1. PICK one \in OnesOfD(ct) : s = Start(D[one[2]])
        BY <1>7, <1>8
    <2>2. D[one[2]] \in Voters(size) /\ ctIdx(layout, D[one[2]]) = ct
        BY <1>3, <1>8
    <2>3. Start(D[one[2]]) + 0 = Start(D[one[2]]) /\ 0 \in Off(1)
        <3>1. s \in Nat
            BY <1>1, Geometry
        <3> QED
            BY <2>1, <3>1, WidthsFit
    <2> QED
        BY <2>1, <2>2, <2>3
<1>9. ASSUME NEW v \in Voters(size)
      PROVE  ctIdx(layout, v) \in Cts /\ Start(v) \in Slots /\ C[ctIdx(layout, v)][Start(v)] = rec[v]
    <2> DEFINE ct == ctIdx(layout, v)
               s == Start(v)
    <2>1. ct \in Cts /\ s \in Slots /\ 0 \in 0 .. blockSize - 1
        <3>1. 0 \in 0 .. blockSize - 1
            BY <1>1, Geometry
        <3> QED
            BY <1>1, <3>1, VoterPlace, OwnBlock
    <2>2. ASSUME NEW one \in OnesOfD(ct), s = Start(D[one[2]])
          PROVE  D[one[2]] = v
        <3>1. D[one[2]] \in Voters(size) /\ ctIdx(layout, D[one[2]]) = ct
            BY <1>3, <2>1
        <3>2. Start(v) + 0 = Start(D[one[2]]) + 0
            BY <2>2
        <3> QED
            BY <1>1, <2>1, <3>1, <3>2, SlotOwner
    <2>3. CASE \A l \in Delegates(size) : D[l] # v
        <3>1. rec[v] = 0
            BY <2>3, ReceivesAre DEF rec
        <3>2. C[ct][s] = 0
            <4>1. \A one \in OnesOfD(ct) : s # Start(D[one[2]])
                BY <1>2, <2>1, <2>2, <2>3
            <4> QED
                BY <1>7, <2>1, <4>1
        <3> QED
            BY <2>1, <3>1, <3>2
    <2>4. CASE \E l \in Delegates(size) : D[l] = v
        <3>1. PICK l \in Delegates(size) : D[l] = v
            BY <2>4
        <3>2. PICK i \in 0 .. votersInCt(layout, size.n, ct) - 1 : v = Global(ct, i)
            <4>1. v \in VotersIn(ct)
                BY <1>1, <2>1, VotersOf
            <4> QED
                BY <4>1 DEF VotersIn
        <3> DEFINE it == <<i, l>>
                   f == [one \in OnesOfD(ct) |-> array(ct)[one][s]]
        <3>3. it \in OnesOfD(ct)
            BY <3>1, <3>2 DEF OnesOfD
        <3>4. ASSUME NEW one \in OnesOfD(ct) \ {it}
              PROVE  s # Start(D[one[2]])
            <4> SUFFICES ASSUME s = Start(D[one[2]]) PROVE one = it
                OBVIOUS
            <4>1. D[one[2]] = v
                BY <2>2
            <4>2. one[2] \in Delegates(size) /\ D[one[2]] = Global(ct, one[1])
                  /\ one[1] \in 0 .. votersInCt(layout, size.n, ct) - 1 /\ one = <<one[1], one[2]>>
                BY <1>2, <2>1
            <4>3. one[2] = l
                BY <3>1, <4>1, <4>2 DEF Elected
            <4>4. one[1] = i
                <5>1. PICK m \in Nat, x \in Nat : m = layout.votersPerCiphertext /\ x = ct
                    BY <1>1, <2>1, LayoutShape, FiniteParts
                <5>2. PICK j \in Int : j = one[1]
                    BY <4>2
                <5>3. x * m + j = x * m + i /\ x * m \in Nat
                    <6>1. Global(ct, one[1]) = x * m + j /\ Global(ct, i) = x * m + i
                        BY <5>1, <5>2 DEF Global
                    <6>2. Global(ct, one[1]) = Global(ct, i)
                        BY <3>2, <4>1, <4>2
                    <6>3. x * m \in Nat
                        OBVIOUS
                    <6> QED
                        BY <6>1, <6>2, <6>3
                <5> QED
                    BY <5>2, <5>3
            <4> QED
                BY <4>2, <4>3, <4>4
        <3> HIDE DEF it, ct, s
        <3>5. \A one \in OnesOfD(ct) : f[one] = array(ct)[one][s]
            OBVIOUS
        <3> HIDE DEF f
        <3>6. \A one \in OnesOfD(ct) \ {it} : f[one] = 0
            BY <1>3, <2>1, <3>4, <3>5
        <3>7. f[it] = sup[l]
            <4>1. it[2] = l
                BY DEF it
            <4>2. s = Start(D[l])
                BY <3>1 DEF s
            <4> QED
                BY <1>3, <2>1, <3>3, <3>5, <4>1, <4>2
        <3>8. PICK x \in Nat : x = sup[l] /\ x < Modulus
            BY SupportWhole DEF sup
        <3>9. SumOver(f, OnesOfD(ct)) = f[it]
            <4>1. f[it] \in Int /\ IsFiniteSet(OnesOfD(ct))
                BY <1>2, <2>1, <3>7, <3>8
            <4> QED
                BY <3>3, <3>6, <4>1, SumOfOne
        <3>10. C[ct][s] = SumOver(f, OnesOfD(ct)) % Modulus
            BY <1>2, <1>4, <2>1, <3>5, TotalIs
        <3>11. x % Modulus = x
            BY <3>8, ModulusPositive, Reduced
        <3>12. rec[v] = sup[l]
            BY <3>1, ReceivesAre DEF rec, sup
        <3> QED
            BY <2>1, <3>7, <3>8, <3>9, <3>10, <3>11, <3>12 DEF ct, s
    <2> QED
        BY <2>3, <2>4
<1>10. ASSUME NEW v \in Voters(size), NEW o \in Off(1)
       PROVE  At(C, v, o) = Everywhere(rec, 1)[v][o]
    <2>1. o = 0
        BY WidthsFit
    <2>2. Start(v) + 0 = Start(v)
        <3>2. 0 \in 0 .. blockSize - 1
            BY <1>1, Geometry
        <3>1. Start(v) \in Nat
            BY <1>1, <3>2, Address
        <3> QED
            BY <3>1
    <2>3. Everywhere(rec, 1)[v][o] = rec[v]
        BY <1>1, EverywhereIs
    <2> QED
        BY <1>9, <2>1, <2>2, <2>3 DEF At
<1> QED
    BY <1>6, <1>8, <1>10 DEF Placed, rec

(* What is true of a voter's weight in phase 5.                            *)
LEMMA WeightWhole ==
    ASSUME Elected, NEW v \in Voters(size)
    PROVE  /\ Weights(delegationTotals, q, D)[v] \in Nat
           /\ Weights(delegationTotals, q, D)[v] < Modulus
<1>1. PICK p \in Nat, m \in Nat : p = PowerSum /\ m = Modulus /\ p < m
    BY PowerIs, ModulusPositive
<1>2. PICK x \in 0 .. p : x = Weights(delegationTotals, q, D)[v]
    BY <1>1, WeightsAre
<1>3. x \in Nat /\ x < m
    BY <1>1, <1>2
<1> QED
    BY <1>1, <1>2, <1>3

(* A voter's base slot.                                                    *)
LEMMA BaseSlot ==
    ASSUME size \in Sizes, NEW v \in Voters(size)
    PROVE  /\ ctIdx(layout, v) \in Cts /\ Start(v) \in Slots /\ Start(v) \in Nat
           /\ Start(v) + 0 = Start(v) /\ 0 \in Off(1) /\ 0 \in 0 .. blockSize - 1
           /\ \A o \in Off(1) : o = 0
<1>1. 0 \in 0 .. blockSize - 1
    BY Geometry
<1>2. Start(v) \in Nat /\ Start(v) \in Slots
    BY <1>1, Address, OwnBlock
<1>3. Start(v) + 0 = Start(v)
    BY <1>2
<1>4. 0 \in Off(1) /\ \A o \in Off(1) : o = 0
    BY DEF Off
<1> QED
    BY <1>1, <1>2, <1>3, <1>4, VoterPlace

(* An array that holds the sums of two others.                             *)
Joins(C, A, B) == C = [ct \in Cts |-> Plus(A[ct], B[ct])]

(* What voters keep and what they receive add up to their weights.         *)
LEMMA WeightsPlaced ==
    ASSUME Elected, NEW A, NEW B, Placed(A, 1, Everywhere(Receives(delegationTotals, q, D), 1)),
           Placed(B, 1, Everywhere(Keeps(delegationTotals, q), 1)),
           NEW C, Joins(C, A, B)
    PROVE  Placed(C, 1, Everywhere(Weights(delegationTotals, q, D), 1))
<1> DEFINE rec == Receives(delegationTotals, q, D)
           keeps == Keeps(delegationTotals, q)
           w == Weights(delegationTotals, q, D)
<1>1. /\ size \in Sizes /\ DOMAIN rec = Voters(size) /\ DOMAIN keeps = Voters(size)
      /\ DOMAIN w = Voters(size)
    BY DEF Elected, Receives, Keeps, Weights
<1>2. \A ct \in Cts, s \in Slots :
          /\ A[ct][s] \in Nat /\ B[ct][s] \in Nat /\ C[ct][s] = (A[ct][s] + B[ct][s]) % Modulus
    BY DEF Placed, Plus, Joins
<1>3. \A ct \in Cts, s \in Slots :
          C[ct][s] \in Nat /\ (A[ct][s] = 0 /\ B[ct][s] = 0 => C[ct][s] = 0)
    <2> SUFFICES ASSUME NEW ct \in Cts, NEW s \in Slots
                 PROVE  C[ct][s] \in Nat /\ (A[ct][s] = 0 /\ B[ct][s] = 0 => C[ct][s] = 0)
        OBVIOUS
    <2>1. PICK a \in Nat, b \in Nat : a = A[ct][s] /\ b = B[ct][s]
        BY <1>2
    <2>2. (a + b) % Modulus \in Nat /\ 0 % Modulus = 0
        BY ModInteger, ModulusPositive, Reduced
    <2>3. C[ct][s] = (a + b) % Modulus
        BY <1>2, <2>1
    <2>4. a = 0 /\ b = 0 => a + b = 0
        OBVIOUS
    <2> QED
        BY <2>1, <2>2, <2>3, <2>4
<1>4. C \in [Cts -> [Slots -> Nat]]
    BY <1>3 DEF Plus, Joins
<1>5. ASSUME NEW v \in Voters(size), NEW o \in Off(1)
      PROVE  At(C, v, o) = Everywhere(w, 1)[v][o]
    <2>1. /\ Everywhere(w, 1)[v][o] = w[v] /\ Everywhere(rec, 1)[v][o] = rec[v]
          /\ Everywhere(keeps, 1)[v][o] = keeps[v]
        BY <1>1, EverywhereIs
    <2>2. At(A, v, o) = rec[v] /\ At(B, v, o) = keeps[v]
        BY <2>1 DEF Placed
    <2>3. ctIdx(layout, v) \in Cts /\ Start(v) + o \in Slots
        BY <1>1, BaseSlot
    <2>4. At(C, v, o) = (rec[v] + keeps[v]) % Modulus
        BY <1>2, <2>2, <2>3 DEF At
    <2>5. rec[v] + keeps[v] = w[v]
        <3>1. PICK p \in Nat : p = PowerSum
            BY PowerIs
        <3>2. PICK a \in 0 .. p, b \in 0 .. p : a = keeps[v] /\ b = rec[v] /\ w[v] = keeps[v] + rec[v]
            BY <3>1, WeightsAre
        <3> QED
            BY <3>2
    <2>6. PICK x \in Nat : x = w[v] /\ x < Modulus
        BY WeightWhole
    <2>7. x % Modulus = x
        BY <2>6, ModulusPositive, Reduced
    <2> QED
        BY <2>1, <2>4, <2>5, <2>6, <2>7
<1>6. ASSUME NEW ct \in Cts, NEW s \in Slots, C[ct][s] # 0
      PROVE  \E v \in Voters(size), o \in Off(1) : ct = ctIdx(layout, v) /\ s = Start(v) + o
    <2>1. A[ct][s] # 0 \/ B[ct][s] # 0
        BY <1>3, <1>6
    <2> QED
        BY <2>1 DEF Placed
<1> QED
    BY <1>4, <1>5, <1>6 DEF Placed

(* Spreading a base slot over its block brings in no other voter's slot.   *)
LEMMA SpreadIs ==
    ASSUME size \in Sizes, NEW f, DOMAIN f = Voters(size),
           NEW X, Placed(X, 1, Everywhere(f, 1)),
           NEW v \in Voters(size), f[v] \in Nat, f[v] < Modulus, NEW c \in 0 .. size.b - 1
    PROVE  Spread(X[ctIdx(layout, v)])[Start(v) + c] = f[v]
<1> DEFINE x == X[ctIdx(layout, v)]
           s == Start(v) + c
           N == 0 .. size.b - 1
           array == [shift \in N |-> RotateColumns(x, -shift)]
           g == [shift \in N |-> x[Shifted(s, -shift)]]
<1>1. PICK m \in Nat \ {0}, w \in Nat \ {0}, j \in Nat, a \in Nat, b \in Nat :
          /\ m = size.cols /\ w = blockSize /\ j = BlockOf(v) /\ a = j * w /\ a + w <= m
          /\ b = size.b /\ b <= w
    <2>1. PICK m \in Nat \ {0}, w \in Nat \ {0}, b \in Nat :
              m = size.cols /\ w = blockSize /\ b = size.b /\ b <= w
        BY Geometry
    <2>2. BlockOf(v) \in Nat /\ BlockOf(v) * w \in Nat /\ BlockOf(v) * w + w <= m
        BY <2>1, VoterPlace
    <2> QED
        BY <2>1, <2>2
<1>2. c \in Nat /\ c < b /\ c \in 0 .. blockSize - 1
    BY <1>1
<1>3. /\ s \in Slots /\ Row(s) = RowOf(v) /\ Col(s) = a + c /\ ctIdx(layout, v) \in Cts
    BY <1>1, <1>2, Address, VoterPlace
<1>4. \A shift \in N : g[shift] = array[shift][s] /\ g[shift] = x[Shifted(s, -shift)]
    BY <1>3 DEF RotateColumns, Shifted
<1>5. IsFiniteSet(N)
    <2>1. size.b - 1 \in Int
        BY Geometry
    <2> QED
        BY <2>1, FS_Interval
<1>6. g[c] = f[v]
    <2>1. (Col(s) + (-c)) % m = a
        <3>1. (a + c) + (-c) = a /\ a < m
            BY <1>1, <1>2
        <3>2. a % m = a
            BY <3>1, Reduced
        <3> QED
            BY <1>3, <3>1, <3>2
    <2>2. Shifted(s, -c) = Start(v)
        BY <1>1, <1>3, <2>1, VoterPlace DEF Shifted
    <2>3. At(X, v, 0) = f[v]
        <3>1. 0 \in Off(1)
            BY BaseSlot
        <3>2. At(X, v, 0) = Everywhere(f, 1)[v][0]
            BY <3>1 DEF Placed
        <3> QED
            BY <3>1, <3>2, EverywhereIs
    <2>4. x[Start(v)] = f[v]
        BY <2>3, BaseSlot DEF At
    <2>5. c \in N
        OBVIOUS
    <2> QED
        BY <1>4, <2>2, <2>4, <2>5
<1>7. ASSUME NEW shift \in N, shift # c
      PROVE  g[shift] = 0
    <2>1. shift \in Nat /\ shift < b /\ -shift \in Int
        BY <1>1
    <2> DEFINE y == Shifted(s, -shift)
    <2>2. /\ y \in Slots /\ Row(y) = RowOf(v) /\ Col(y) = (Col(s) + (-shift)) % size.cols
        BY <1>3, <2>1, ShiftedSlot
    <2> SUFFICES ASSUME x[y] # 0 PROVE FALSE
        BY <1>4
    <2>3. PICK u \in Voters(size), o \in Off(1) : ctIdx(layout, v) = ctIdx(layout, u) /\ y = Start(u) + o
        BY <1>3, <2>2 DEF Placed
    <2>4. PICK i \in Nat, e \in Nat : i = BlockOf(u) /\ e = i * w /\ e + w <= m
        BY <1>1, VoterPlace
    <2>5. Col(y) = e
        <3>1. o = 0 /\ o \in 0 .. blockSize - 1
            BY BaseSlot
        <3>2. Col(Start(u) + o) = BlockOf(u) * blockSize + o
            BY <3>1, Address
        <3>3. e + 0 = e
            OBVIOUS
        <3> QED
            BY <1>1, <2>3, <2>4, <3>1, <3>2, <3>3
    <2>6. PICK z \in Int : z = (a + c) - shift /\ z % m = e
        <3>1. (a + c) + (-shift) = (a + c) - shift /\ (a + c) - shift \in Int
            BY <1>2, <2>1
        <3> QED
            BY <1>1, <1>3, <2>2, <2>5, <3>1
    <2>7. CASE z < 0
        <3>1. z + m \in 0 .. m - 1
            BY <1>1, <1>2, <2>1, <2>6, <2>7
        <3>2. PICK k \in Int : k = -1 /\ z = m * k + (z + m)
            OBVIOUS
        <3>3. (m * k + (z + m)) % m = z + m
            BY <3>1, ModOfMultiple
        <3>4. e = z + m
            BY <2>6, <3>2, <3>3
        <3> QED
            BY <1>1, <1>2, <2>1, <2>4, <2>6, <3>4
    <2>8. CASE z >= 0
        <3>1. z \in Nat /\ z < m
            BY <1>1, <1>2, <2>1, <2>6, <2>8
        <3>2. z % m = z
            BY <3>1, Reduced
        <3>3. e + shift = a + c
            BY <2>1, <2>6, <3>2, <1>2
        <3>4. i * w + shift = j * w + c /\ shift \in 0 .. w - 1 /\ c \in 0 .. w - 1
            BY <1>1, <1>2, <2>1, <2>4, <3>3
        <3>5. shift = c
            <4>1. PICK h \in 0 .. w - 1, d \in 0 .. w - 1 : h = shift /\ d = c
                BY <3>4
            <4>2. i * w + h = j * w + d
                BY <3>4, <4>1
            <4>3. h = d
                BY <4>2, DivisionUnique
            <4> QED
                BY <4>1, <4>3
        <3> QED
            BY <1>7, <3>5
    <2> QED
        BY <2>7, <2>8
<1>8. c \in N /\ Spread(x) = Total(array, N)
    BY DEF Spread
<1> HIDE DEF array, g, N, x, s
<1>9. Total(array, N)[s] = SumOver(g, N) % Modulus
    BY <1>3, <1>4, <1>5, TotalIs
<1>10. SumOver(g, N) = g[c]
    <2>1. g[c] \in Int /\ \A y \in N \ {c} : g[y] = 0
        BY <1>6, <1>7
    <2> QED
        BY <1>5, <1>8, <2>1, SumOfOne
<1>11. PICK n \in Nat : n = f[v] /\ n < Modulus
    OBVIOUS
<1>12. n % Modulus = n
    BY <1>11, ModulusPositive, Reduced
<1> QED
    BY <1>6, <1>8, <1>9, <1>10, <1>11, <1>12 DEF x, s

(* Spreading yields whole numbers.                                         *)
LEMMA SpreadInteger ==
    ASSUME size \in Sizes, NEW x \in [Slots -> Int]
    PROVE  Spread(x) \in [Slots -> Int]
<1> DEFINE N == 0 .. size.b - 1
           array == [shift \in N |-> RotateColumns(x, -shift)]
<1>1. IsFiniteSet(N)
    <2>1. size.b - 1 \in Int
        BY Geometry
    <2> QED
        BY <2>1, FS_Interval
<1>2. ASSUME NEW s \in Slots, NEW shift \in N
      PROVE  array[shift][s] \in Int
    <2>1. PICK by \in Int : by = -shift
        OBVIOUS
    <2>2. Shifted(s, by) \in Slots
        BY ShiftedSlot
    <2>3. array[shift][s] = x[Shifted(s, by)]
        BY <2>1 DEF RotateColumns, Shifted
    <2> QED
        BY <2>2, <2>3
<1>3. Spread(x) = Total(array, N)
    BY DEF Spread
<1> HIDE DEF array, N
<1>4. \A s \in Slots : Total(array, N)[s] \in Int
    <2> SUFFICES ASSUME NEW s \in Slots PROVE Total(array, N)[s] \in Int
        OBVIOUS
    <2>1. \A i \in N : array[i][s] \in Int
        BY <1>2
    <2>2. Total(array, N)[s] \in Nat
        BY <1>1, <2>1, TotalNatural
    <2> QED
        BY <2>2
<1>5. Total(array, N) = [s \in Slots |-> Total(array, N)[s]]
    BY DEF Total
<1> QED
    BY <1>3, <1>4, <1>5

(* Weights times marks, at the candidates of every block.                  *)
LEMMA ProductPlaced ==
    ASSUME Elected, NEW X, NEW B, Placed(X, 1, Everywhere(Weights(delegationTotals, q, D), 1)),
           Placed(B, size.b, Marks(candidateTotals)),
           NEW C, C = [ct \in Cts |-> Times(Spread(X[ct]), B[ct])]
    PROVE  Placed(C, size.b, Weighs(candidateTotals, Weights(delegationTotals, q, D)))
<1> DEFINE w == Weights(delegationTotals, q, D)
           A == [ct \in Cts |-> Spread(X[ct])]
<1>1. size \in Sizes /\ DOMAIN w = Voters(size) /\ X \in [Cts -> [Slots -> Nat]]
    BY DEF Elected, Placed, Weights
<1>2. A \in [Cts -> [Slots -> Int]]
    <2>1. \A ct \in Cts : X[ct] \in [Slots -> Int]
        BY <1>1
    <2>2. \A ct \in Cts : Spread(X[ct]) \in [Slots -> Int]
        BY <1>1, <2>1, SpreadInteger
    <2> QED
        BY <2>2
<1>3. \A v \in Voters(size) : w[v] \in Nat /\ w[v] < Modulus
    BY WeightWhole
<1>4. \A ct \in Cts : A[ct] = Spread(X[ct])
    OBVIOUS
<1> HIDE DEF w, A
<1>5. Multiplies(A, Marks(candidateTotals), size.b, Weighs(candidateTotals, w))
    <2> SUFFICES ASSUME NEW v \in Voters(size), NEW o \in Off(size.b)
                 PROVE  (At(A, v, o) * Marks(candidateTotals)[v][o]) % Modulus
                            = Weighs(candidateTotals, w)[v][o]
        BY DEF Multiplies
    <2>1. At(A, v, o) = w[v]
        <3>1. o \in 0 .. size.b - 1 /\ ctIdx(layout, v) \in Cts
            BY <1>1, VoterPlace DEF Off
        <3>2. w[v] \in Nat /\ w[v] < Modulus /\ Placed(X, 1, Everywhere(w, 1))
            BY <1>3 DEF w
        <3>3. Spread(X[ctIdx(layout, v)])[Start(v) + o] = w[v]
            BY <1>1, <3>1, <3>2, SpreadIs
        <3> QED
            BY <1>4, <3>1, <3>3 DEF At
    <2>2. /\ Marks(candidateTotals)[v][o] = indicatorPlain(candidateTotals[v][o])
          /\ Weighs(candidateTotals, w)[v][o] = indicatorPlain(candidateTotals[v][o]) * w[v]
        BY VoterTotals DEF Marks, Weighs
    <2>3. PICK x \in Nat : x = w[v] /\ x < Modulus
        BY <1>3
    <2>4. x % Modulus = x /\ 0 % Modulus = 0
        BY <2>3, ModulusPositive, Reduced
    <2>5. CASE indicatorPlain(candidateTotals[v][o]) = 0
        <3>1. x * 0 = 0 /\ 0 * x = 0
            OBVIOUS
        <3> QED
            BY <2>1, <2>2, <2>3, <2>4, <2>5, <3>1
    <2>6. CASE indicatorPlain(candidateTotals[v][o]) = 1
        <3>1. x * 1 = x /\ 1 * x = x
            OBVIOUS
        <3> QED
            BY <2>1, <2>2, <2>3, <2>4, <2>6, <3>1
    <2> QED
        BY <2>5, <2>6, Mark
<1>6. C = [ct \in Cts |-> Times(A[ct], B[ct])]
    BY <1>4
<1>7. size.b <= blockSize /\ size.b \in Nat /\ Modulus \in Nat \ {0}
    BY WidthsFit, ModulusPositive
<1>8. PICK Z : Z = [ct \in Cts |-> Times(A[ct], B[ct])]
    OBVIOUS
<1>9. Placed(Z, size.b, Weighs(candidateTotals, w))
    BY <1>1, <1>2, <1>5, <1>7, <1>8, TimesPlaced
<1> QED
    BY <1>6, <1>8, <1>9 DEF w

(* No voter counts for two candidates.                                     *)
LEMMA ChoosesOnce ==
    ASSUME Elected, NEW v \in Voters(size), NEW w, DOMAIN w = Voters(size), w[v] \in Nat
    PROVE  /\ \A c \in Off(size.b) : /\ Weighs(candidateTotals, w)[v][c] \in Nat
                                     /\ Weighs(candidateTotals, w)[v][c]
                                           = indicatorPlain(candidateTotals[v][c]) * w[v]
           /\ SumOver(Weighs(candidateTotals, w)[v], Off(size.b)) \in Nat
           /\ SumOver(Weighs(candidateTotals, w)[v], Off(size.b)) <= w[v]
<1> DEFINE g == Weighs(candidateTotals, w)[v]
           S == Off(size.b)
<1>1. PICK p \in Nat : p = w[v]
    OBVIOUS
<1>2. \A c \in S : g[c] = indicatorPlain(candidateTotals[v][c]) * w[v]
    BY VoterTotals DEF Weighs
<1>3. IsFiniteSet(S)
    BY VoterTotals, FiniteParts DEF Elected
<1>4. \A c \in S : indicatorPlain(candidateTotals[v][c]) = 0 \/ indicatorPlain(candidateTotals[v][c]) = 1
    BY Mark
<1> HIDE DEF g, S
<1>5. \A c \in S : /\ g[c] = 0 \/ g[c] = p
                   /\ g[c] # 0 => indicatorPlain(candidateTotals[v][c]) = 1
    <2>1. 0 * p = 0 /\ 1 * p = p
        OBVIOUS
    <2> QED
        BY <1>1, <1>2, <1>4, <2>1
<1>6. \A c \in S : g[c] \in Nat
    BY <1>5
<1>7. SumOver(g, S) \in Nat
    BY <1>3, <1>6, SumOfNaturals
<1>8. SumOver(g, S) <= p
    <2>1. CASE \A c \in S : g[c] = 0
        <3>1. SumOver(g, S) = 0
            BY <1>3, <2>1, SumOfZeros
        <3> QED
            BY <3>1
    <2>2. CASE \E c \in S : g[c] # 0
        <3>1. PICK c \in S : g[c] # 0
            BY <2>2
        <3>2. \A d \in S \ {c} : g[d] = 0
            <4> SUFFICES ASSUME NEW d \in S, g[d] # 0 PROVE d = c
                OBVIOUS
            <4>1. indicatorPlain(candidateTotals[v][c]) = 1 /\ indicatorPlain(candidateTotals[v][d]) = 1
                BY <1>5, <3>1
            <4>2. candidateTotals[v] \in TotalsOf(size.b) /\ c \in 0 .. size.b - 1 /\ d \in 0 .. size.b - 1
                BY VoterTotals DEF S, Off
            <4> QED
                BY <4>1, <4>2, OneMajority DEF Elected
        <3>3. g[c] = p /\ g[c] \in Int
            BY <1>5, <3>1
        <3>4. SumOver(g, S) = g[c]
            BY <1>3, <3>2, <3>3, SumOfOne
        <3> QED
            BY <3>3, <3>4
    <2> QED
        BY <2>1, <2>2
<1> QED
    BY <1>1, <1>2, <1>6, <1>7, <1>8 DEF g, S

(* The reference of the tally counts what the products hold.               *)
LEMMA CountedFor ==
    ASSUME Elected, NEW c \in Candidates(size), NEW f,
           \A v \in Voters(size) :
               f[v] = Weighs(candidateTotals, Weights(delegationTotals, q, D))[v][c]
    PROVE  delegatedMaskedTallyPlain(c) = SumOver(f, Voters(size))
<1> DEFINE V == Voters(size)
           A == Choosing(candidateTotals, c)
           w == Weights(delegationTotals, q, D)
<1>1. IsFiniteSet(V) /\ DOMAIN w = V /\ DOMAIN candidateTotals = V
    BY FiniteParts DEF Elected, Weights
<1>2. \A v \in V : w[v] \in Nat /\ w[v] = delegatedVoterWeightsPlain(v)
    BY WeightWhole, WeightsAre
<1>3. A \in SUBSET V
    BY <1>1 DEF Choosing
<1>4. delegatedMaskedTallyPlain(c) = SumOver(w, A)
    <2> HIDE DEF w
    <2> QED
        BY <1>1, <1>2, MaskedTallyIs
<1>5. \A v \in V : (v \in A => f[v] = w[v]) /\ (v \notin A => f[v] = 0)
    <2> SUFFICES ASSUME NEW v \in V
                 PROVE  (v \in A => f[v] = w[v]) /\ (v \notin A => f[v] = 0)
        OBVIOUS
    <2>1. f[v] = indicatorPlain(candidateTotals[v][c]) * w[v]
        <3>1. c \in Off(size.b)
            BY DEF Off, Candidates
        <3> QED
            BY <1>1, <1>2, <3>1, ChoosesOnce
    <2>2. v \in A <=> indicatorPlain(candidateTotals[v][c]) = 1
        BY <1>1 DEF Choosing
    <2>3. indicatorPlain(candidateTotals[v][c]) = 0 \/ indicatorPlain(candidateTotals[v][c]) = 1
        BY Mark
    <2>4. PICK x \in Nat : x = w[v]
        BY <1>2
    <2>5. 0 * x = 0 /\ 1 * x = x
        OBVIOUS
    <2> HIDE DEF w, A
    <2> QED
        BY <2>1, <2>2, <2>3, <2>4, <2>5
<1> HIDE DEF V, A, w
<1>6. SumOver(f, V) = SumOver(f, A)
    <2>1. (\A v \in A : f[v] \in Int) /\ (\A v \in V \ A : f[v] = 0)
        BY <1>2, <1>3, <1>5
    <2> QED
        BY <1>1, <1>3, <2>1, SumOutside
<1>7. SumOver(f, A) = SumOver(w, A)
    <2>1. IsFiniteSet(A) /\ \A v \in A : w[v] \in Int /\ f[v] = w[v]
        BY <1>1, <1>2, <1>3, <1>5, FS_Subset
    <2> QED
        BY <2>1, SumSame
<1> QED
    BY <1>4, <1>6, <1>7 DEF V

(* The decrypted tally: exact for the candidates, small everywhere.        *)
LEMMA ResultIs ==
    ASSUME Elected, NEW X,
           Placed(X, size.b, Weighs(candidateTotals, Weights(delegationTotals, q, D)))
    PROVE  /\ SumBlocks(Total(X, Cts)) \in [Slots -> 0 .. PowerSum]
           /\ \A c \in Candidates(size) :
                 SumBlocks(Total(X, Cts))[c] = delegatedMaskedTallyPlain(c)
<1> DEFINE w == Weights(delegationTotals, q, D)
           val == Weighs(candidateTotals, w)
           each == [v \in Voters(size) |-> SumOver(val[v], Off(size.b))]
           F == [p \in Cts \X Slots |-> X[p[1]][p[2]]]
           r == SumBlocks(Total(X, Cts))
<1>1. /\ size \in Sizes /\ X \in [Cts -> [Slots -> Nat]] /\ DOMAIN w = Voters(size)
      /\ size.b \in Nat /\ size.b <= blockSize /\ IsFiniteSet(Voters(size))
    BY WidthsFit, FiniteParts DEF Elected, Placed, Weights
<1>2. \A v \in Voters(size) : w[v] \in Nat
    BY WeightWhole
<1>3. RowsAdd(each, val, size.b)
    BY DEF RowsAdd
<1>4. \A v \in Voters(size) : each[v] = SumOver(val[v], Off(size.b))
    OBVIOUS
<1> HIDE DEF each
<1>5. Counts(val, size.b) /\ \A v \in Voters(size) : each[v] \in Nat /\ each[v] <= w[v]
    <2>1. ASSUME NEW v \in Voters(size)
          PROVE  /\ \A o \in Off(size.b) : val[v][o] \in Nat
                 /\ each[v] \in Nat /\ each[v] <= w[v]
        <3>1. w[v] \in Nat
            BY <1>2
        <3> HIDE DEF w
        <3> QED
            BY <1>1, <1>4, <3>1, ChoosesOnce
    <2> QED
        BY <2>1 DEF Counts
<1>6. SumOver(each, Voters(size)) <= PowerSum /\ SumOver(each, Voters(size)) \in Nat
    <2>1. SumOver(w, Voters(size)) = PowerSum
        BY WeightsAre
    <2> HIDE DEF w, val
    <2>2. \A v \in Voters(size) : each[v] \in Int /\ w[v] \in Int /\ each[v] <= w[v]
        BY <1>2, <1>5
    <2>3. SumOver(each, Voters(size)) <= SumOver(w, Voters(size))
        BY <1>1, <2>2, SumMonotone
    <2>4. \A v \in Voters(size) : each[v] \in Nat
        BY <1>5
    <2>5. SumOver(each, Voters(size)) \in Nat
        BY <1>1, <2>4, SumOfNaturals
    <2> QED
        BY <2>1, <2>3, <2>5
<1>7. Placed(X, size.b, val)
    OBVIOUS
<1> HIDE DEF w, val
<1>8. ASSUME NEW s \in Slots
      PROVE  r[s] = Gathered(X, s) /\ r[s] \in 0 .. PowerSum
    <2>1. r[s] = Gathered(X, s) % Modulus
        BY <1>1, CiphertextsThenBlocks
    <2>2. Gathered(X, s) \in Nat /\ Gathered(X, s) <= SumOver(each, Voters(size))
        BY <1>1, <1>3, <1>5, <1>7, GatheredBound
    <2>3. PICK g \in Nat, e \in Nat, p \in Nat :
              /\ g = Gathered(X, s) /\ e = SumOver(each, Voters(size)) /\ p = PowerSum
              /\ g <= e /\ e <= p /\ p < Modulus
        BY <1>6, <2>2, PowerIs
    <2>4. g < Modulus /\ g \in 0 .. p
        BY <2>3, ModulusPositive
    <2>5. g % Modulus = g
        BY <2>4, ModulusPositive, Reduced
    <2> QED
        BY <2>1, <2>3, <2>4, <2>5
<1>9. r \in [Slots -> 0 .. PowerSum]
    <2>1. r = [s \in Slots |-> r[s]]
        BY DEF SumBlocks, Plus
    <2> HIDE DEF r
    <2> QED
        BY <1>8, <2>1
<1>10. ASSUME NEW c \in Candidates(size)
       PROVE  r[c] = delegatedMaskedTallyPlain(c)
    <2> DEFINE f == [v \in Voters(size) |-> val[v][c]]
    <2>1. c \in Slots /\ Col(c) = c /\ c \in Off(size.b)
        <3>1. PICK m \in Nat, b \in Nat, k \in Nat : m = size.cols /\ b = size.b /\ b <= m
            BY <1>1, Geometry, SizesAssumption
        <3>2. c \in 0 .. m - 1 /\ c \in Nat
            BY <3>1 DEF Candidates
        <3>3. PICK z \in {0, 1} : z = 0
            OBVIOUS
        <3>4. z * m + c = c
            BY <3>2, <3>3
        <3>5. z * m + c \in Slots /\ Col(z * m + c) = c
            BY <1>1, <3>1, <3>2, SlotMade
        <3> QED
            BY <3>4, <3>5 DEF Off, Candidates
    <2>2. \A v \in Voters(size) : f[v] = val[v][Col(c)] /\ f[v] = val[v][c]
        BY <2>1
    <2> HIDE DEF f, r
    <2>3. Gathered(X, c) = SumOver(f, Voters(size))
        <3>1. \A v \in Voters(size) : f[v] = val[v][Col(c)]
            BY <2>2
        <3>2. Col(c) \in Off(size.b)
            BY <2>1
        <3> QED
            BY <1>1, <1>7, <2>1, <3>1, <3>2, GatheredValue
    <2>4. delegatedMaskedTallyPlain(c) = SumOver(f, Voters(size))
        <3>1. \A v \in Voters(size) :
                  f[v] = Weighs(candidateTotals, Weights(delegationTotals, q, D))[v][c]
            BY <2>2 DEF val, w
        <3> QED
            BY <3>1, CountedFor
    <2> QED
        BY <1>8, <2>1, <2>3, <2>4
<1> QED
    BY <1>9, <1>10

(* All weight slots together hold the power of all voters.                 *)
LEMMA Conserved ==
    ASSUME Elected, Placed(voterWeights, 1, Everywhere(Weights(delegationTotals, q, D), 1))
    PROVE  MapThenSumSet(LAMBDA ct : SumFunction(voterWeights[ct]), Cts) = PowerSum
<1> DEFINE w == Weights(delegationTotals, q, D)
           val == Everywhere(w, 1)
           X == voterWeights
           f == [ct \in Cts |-> SumOver(X[ct], Slots)]
           F == [p \in Cts \X Slots |-> X[p[1]][p[2]]]
<1>1. size \in Sizes /\ X \in [Cts -> [Slots -> Nat]] /\ DOMAIN w = Voters(size)
    BY DEF Elected, Placed, Weights
<1>2. \A ct \in Cts : f[ct] = SumFunction(X[ct]) /\ f[ct] = SumOver(X[ct], Slots)
    <2> SUFFICES ASSUME NEW ct \in Cts PROVE SumOver(X[ct], Slots) = SumFunction(X[ct])
        OBVIOUS
    <2>1. DOMAIN X[ct] = Slots
        BY <1>1
    <2> QED
        BY <2>1, SumFunctionIs DEF SumFunction
<1>3. \A ct \in Cts, s \in Slots : F[<<ct, s>>] = X[ct][s] /\ F[<<ct, s>>] \in Int
    <2> SUFFICES ASSUME NEW ct \in Cts, NEW s \in Slots PROVE X[ct][s] \in Int
        OBVIOUS
    <2>1. X[ct][s] \in Nat
        BY <1>1
    <2> QED
        BY <2>1
<1>4. PICK one \in Nat : one = 1
    OBVIOUS
<1>5. ASSUME NEW v \in Voters(size)
      PROVE  w[v] = SumOver(val[v], Off(1)) /\ w[v] \in Nat /\ \A o \in Off(1) : val[v][o] = w[v]
    <2>1. \A o \in Off(1) : val[v][o] = w[v]
        BY <1>1, EverywhereIs
    <2>2. w[v] \in Nat
        BY WeightWhole
    <2> DEFINE S == {0}
               g == val[v]
    <2>3. IsFiniteSet(S) /\ 0 \in S /\ (\A y \in S \ {0} : g[y] = 0) /\ Off(1) = S /\ g[0] = w[v]
        BY <2>1, FS_Singleton, WidthsFit
    <2> HIDE DEF S, g, w
    <2>4. SumOver(g, S) = g[0]
        <3>1. PICK z \in S : z = 0
            BY <2>3
        <3>2. g[z] \in Int /\ \A y \in S \ {z} : g[y] = 0
            BY <2>2, <2>3, <3>1
        <3>3. SumOver(g, S) = g[z]
            BY <2>3, <3>2, SumOfOne
        <3> QED
            BY <3>1, <3>3
    <2> QED
        BY <2>1, <2>2, <2>3, <2>4 DEF g
<1>6. RowsAdd(w, val, one) /\ Counts(val, one) /\ Flattens(F, X) /\ Placed(X, one, val)
    <2>1. RowsAdd(w, val, 1)
        BY <1>5 DEF RowsAdd
    <2>2. Counts(val, 1)
        BY <1>5 DEF Counts
    <2>3. Flattens(F, X)
        BY <1>3 DEF Flattens
    <2> QED
        BY <1>4, <2>1, <2>2, <2>3
<1>7. one <= blockSize
    BY <1>4, WidthsFit
<1>8. SumOver(w, Voters(size)) = PowerSum
    BY WeightsAre
<1>9. IsFiniteSet(Cts) /\ IsFiniteSet(Slots)
    BY <1>1, FiniteParts
<1> HIDE DEF w, val, f, F
<1>10. SumOver(F, Cts \X Slots) = SumOver(w, Voters(size))
    BY <1>1, <1>6, <1>7, AllSlots
<1>11. SumOver(F, Cts \X Slots) = SumOver(f, Cts)
    <2>1. \A ct \in Cts, s \in Slots : F[<<ct, s>>] \in Int
        BY <1>3
    <2>2. \A ct \in Cts, s \in Slots : X[ct][s] = F[<<ct, s>>]
        BY <1>3
    <2>3. \A ct \in Cts : f[ct] = SumOver(X[ct], Slots)
        BY <1>2
    <2> HIDE DEF X
    <2> QED
        BY <1>9, <2>1, <2>2, <2>3, SumOfPairs
<1>12. MapThenSumSet(LAMBDA ct : SumFunction(voterWeights[ct]), Cts) = SumOver(f, Cts)
    BY <1>1, <1>2, ConservedIs
<1> QED
    BY <1>8, <1>10, <1>11, <1>12

----------------------------------------------------------------------------
(* The inductive invariant: what every array holds, stage by stage.        *)

(* Placed, with the size as a parameter.                                   *)
BlockFor(z) == IF z.b >= z.k THEN z.b ELSE z.k
LayoutFor(z) == computePackingLayout(z.n, BlockFor(z), z.rows, z.cols)
StartFor(z, v) == blockStart(LayoutFor(z), BlockFor(z), v)
PlacedFor(z, A, width, val) ==
    /\ A \in [Ciphertexts(LayoutFor(z)) -> [SlotsOf(LayoutFor(z)) -> Nat]]
    /\ \A v \in Voters(z), o \in Off(width) :
           A[ctIdx(LayoutFor(z), v)][StartFor(z, v) + o] = val[v][o]
    /\ \A ct \in Ciphertexts(LayoutFor(z)), s \in SlotsOf(LayoutFor(z)) : A[ct][s] # 0 =>
          \E v \in Voters(z), o \in Off(width) :
              ct = ctIdx(LayoutFor(z), v) /\ s = StartFor(z, v) + o

(* The candidate's slots hold what was counted, all others no more than    *)
(* the power there is.                                                     *)
Counted(z, x, t, w, bound) ==
    /\ x \in [0 .. 2 * z.cols - 1 -> 0 .. bound]
    /\ \A c \in Candidates(z) : x[c] = SumOver(w, Choosing(t, c))

Prepared ==
    IF stage \in {"keys", "weights"} THEN qExt = <<>> /\ qBase = <<>>
    ELSE /\ PlacedFor(size, qExt, size.k, Everywhere(q, size.k))
         /\ PlacedFor(size, qBase, 1, Everywhere(q, 1))

Echoed ==
    IF stage \in {"keys", "weights", "echo"} THEN vCts = <<>> /\ dCts = <<>>
    ELSE IF stage = "indicator"
         THEN /\ PlacedFor(size, vCts, size.b, candidateTotals)
              /\ PlacedFor(size, dCts, size.k, delegationTotals)
         ELSE /\ PlacedFor(size, vCts, size.b, Marks(candidateTotals))
              /\ PlacedFor(size, dCts, size.k, Marks(delegationTotals))

Supported ==
    IF stage \in {"keys", "weights", "echo", "indicator", "support"}
    THEN dWeighted = <<>> /\ support = <<>>
    ELSE /\ PlacedFor(size, dWeighted, size.k, Weighs(delegationTotals, q))
         /\ support = Repeated(size, Supports(delegationTotals, q, D))

Kept ==
    IF stage \in {"keys", "weights", "echo", "indicator", "support", "dTilde"}
    THEN dTilde = <<>>
    ELSE PlacedFor(size, dTilde, 1, Everywhere(Keeps(delegationTotals, q), 1))

Received ==
    IF stage \in {"product", "done"}
    THEN /\ PlacedFor(size, dw, 1, Everywhere(Receives(delegationTotals, q, D), 1))
         /\ PlacedFor(size, voterWeights, 1, Everywhere(Weights(delegationTotals, q, D), 1))
    ELSE dw = <<>> /\ voterWeights = <<>>

Tallied ==
    IF stage = "done"
    THEN Counted(size, result, candidateTotals, Weights(delegationTotals, q, D),
                 SumOver(q, Voters(size)))
    ELSE result = <<>>

TallyInv ==
    /\ Elected /\ stage \in Stages
    /\ Prepared /\ Echoed /\ Supported /\ Kept /\ Received /\ Tallied

(* Both forms of Placed agree on the size of the election.                 *)
LEMMA PlacedHere ==
    ASSUME NEW A, NEW width, NEW val
    PROVE  Placed(A, width, val) <=> PlacedFor(size, A, width, val)
<1>1. blockSize = BlockFor(size) /\ layout = LayoutFor(size)
    BY DEF blockSize, BlockFor, layout, LayoutFor
<1>2. /\ Cts = Ciphertexts(LayoutFor(size)) /\ Slots = SlotsOf(LayoutFor(size))
      /\ \A v : Start(v) = StartFor(size, v)
    BY <1>1 DEF Cts, Slots, Start, StartFor
<1> QED
    BY <1>1, <1>2 DEF Placed, PlacedFor, At

(* Every election starts with totals that stay within the periods.         *)
LEMMA InitElected == ASSUME Init PROVE Elected
<1>1. PICK p \in Powers : size \in Sizes /\ q = [v \in Voters(size) |-> p[v]]
    BY DEF Init, ElectionInit
<1>2. D \in [Delegates(size) -> Voters(size)] /\ \A l, m \in Delegates(size) : D[l] = D[m] => l = m
    BY DEF Init, ElectionInit, Injection, IsInjective
<1>3. /\ candidateTotals \in [Voters(size) -> TotalsOf(size.b)]
      /\ delegationTotals \in [Voters(size) -> TotalsOf(size.k)]
    BY DEF Init, ElectionInit
<1>4. \A v \in Voters(size) : p[v] \in Nat \ {0}
    BY <1>1, PowersAssumption DEF Voters
<1>5. q \in [Voters(size) -> Nat \ {0}]
    BY <1>1, <1>4
<1>6. SumOver(q, Voters(size)) < Modulus
    <2>1. SumFunctionOnSet(p, Voters(size)) < Modulus
        BY <1>1, ModulusAssumption
    <2>2. IsFiniteSet(Voters(size))
        BY <1>1, FiniteParts
    <2>3. \A v \in Voters(size) : p[v] \in Int /\ q[v] = p[v]
        BY <1>1, <1>4
    <2>4. SumOver(q, Voters(size)) = SumOver(p, Voters(size))
        BY <2>2, <2>3, SumSame
    <2> QED
        BY <2>1, <2>4, SumFunctionIs
<1> QED
    BY <1>1, <1>2, <1>3, <1>5, <1>6 DEF Elected

(* Nothing is computed at first.                                           *)
LEMMA TallyInit == Init => TallyInv
<1> SUFFICES ASSUME Init PROVE TallyInv
    OBVIOUS
<1> QED
    BY InitElected DEF Init, TallyInv, Stages, Prepared, Echoed, Supported, Kept, Received, Tallied

(* PrepareWeights establishes Prepared.                                    *)
LEMMA PrepareStep ==
    ASSUME TallyInv, PrepareWeights
    PROVE  /\ PlacedFor(size, qExt', size.k, Everywhere(q, size.k))
           /\ PlacedFor(size, qBase', 1, Everywhere(q, 1))
<1>1. PICK X, Y : X = qExt' /\ Y = qBase'
    OBVIOUS
<1>2. /\ X = Packed([v \in Voters(size) |-> [l \in Delegates(size) |-> q[v]]], size.k)
      /\ Y = [ct \in Cts |-> Times(X[ct], baseSlotMask)]
    BY <1>1 DEF PrepareWeights
<1>3. Elected
    BY DEF TallyInv
<1>4. Placed(X, size.k, Everywhere(q, size.k))
    BY <1>2, <1>3, ExtPlaced
<1>5. Placed(Y, 1, Everywhere(q, 1))
    BY <1>2, <1>3, <1>4, BasePlaced
<1> QED
    BY <1>1, <1>4, <1>5, PlacedHere

(* EchoTotals establishes Echoed.                                          *)
LEMMA EchoStep ==
    ASSUME TallyInv, EchoTotals
    PROVE  /\ PlacedFor(size, vCts', size.b, candidateTotals)
           /\ PlacedFor(size, dCts', size.k, delegationTotals)
<1>1. PICK X, Y : X = vCts' /\ Y = dCts'
    OBVIOUS
<1>2. X = Packed(candidateTotals, size.b) /\ Y = Packed(delegationTotals, size.k)
    BY <1>1 DEF EchoTotals
<1>3. Placed(X, size.b, candidateTotals) /\ Placed(Y, size.k, delegationTotals)
    BY <1>2, EchoPlaced DEF TallyInv
<1> QED
    BY <1>1, <1>3, PlacedHere

(* ApplyIndicator turns totals into marks.                                 *)
LEMMA IndicatorStep ==
    ASSUME TallyInv, ApplyIndicator
    PROVE  /\ PlacedFor(size, vCts', size.b, Marks(candidateTotals))
           /\ PlacedFor(size, dCts', size.k, Marks(delegationTotals))
<1>1. PICK X, Y, V, W : X = vCts' /\ Y = dCts' /\ V = vCts /\ W = dCts
    OBVIOUS
<1>2. X = [ct \in Cts |-> Indicator(V[ct])] /\ Y = [ct \in Cts |-> Indicator(W[ct])]
    BY <1>1 DEF ApplyIndicator
<1>3. Placed(V, size.b, candidateTotals) /\ Placed(W, size.k, delegationTotals)
    <2>1. PlacedFor(size, V, size.b, candidateTotals) /\ PlacedFor(size, W, size.k, delegationTotals)
        BY <1>1 DEF TallyInv, Echoed, ApplyIndicator
    <2> QED
        BY <2>1, PlacedHere
<1>4. /\ size \in Sizes /\ size.b \in Nat /\ size.b <= blockSize
      /\ size.k \in Nat /\ size.k <= blockSize
    BY WidthsFit DEF TallyInv, Elected
<1>5. /\ DOMAIN candidateTotals = Voters(size) /\ DOMAIN delegationTotals = Voters(size)
      /\ \A v \in Voters(size) : /\ DOMAIN candidateTotals[v] = Off(size.b)
                                 /\ DOMAIN delegationTotals[v] = Off(size.k)
    <2>1. Elected
        BY DEF TallyInv
    <2> QED
        BY <2>1, VoterTotals DEF Elected
<1>6. Placed(X, size.b, Marks(candidateTotals))
    BY <1>2, <1>3, <1>4, <1>5, IndicatorPlaced
<1>7. Placed(Y, size.k, Marks(delegationTotals))
    BY <1>2, <1>3, <1>4, <1>5, IndicatorPlaced
<1> QED
    BY <1>1, <1>6, <1>7, PlacedHere

(* DelegateSupport establishes Supported.                                  *)
LEMMA SupportStep ==
    ASSUME TallyInv, DelegateSupport
    PROVE  /\ PlacedFor(size, dWeighted', size.k, Weighs(delegationTotals, q))
           /\ support' = Repeated(size, Supports(delegationTotals, q, D))
<1>1. PICK X, A, B : X = dWeighted' /\ A = dCts /\ B = qExt
    OBVIOUS
<1>2. /\ X = [ct \in Cts |-> Times(A[ct], B[ct])]
      /\ support' = Times(Total([ct \in Cts |-> SumBlocks(X[ct])], Cts), delegateMask)
    BY <1>1 DEF DelegateSupport
<1>3. Placed(A, size.k, Marks(delegationTotals)) /\ Placed(B, size.k, Everywhere(q, size.k))
    <2>1. PlacedFor(size, A, size.k, Marks(delegationTotals))
        BY <1>1 DEF TallyInv, Echoed, DelegateSupport
    <2>2. PlacedFor(size, B, size.k, Everywhere(q, size.k))
        BY <1>1 DEF TallyInv, Prepared, DelegateSupport
    <2> QED
        BY <2>1, <2>2, PlacedHere
<1>4. Elected
    BY DEF TallyInv
<1>5. Placed(X, size.k, Weighs(delegationTotals, q))
    BY <1>2, <1>3, <1>4, WeightedPlaced
<1>6. support' = Repeated(size, Supports(delegationTotals, q, D))
    BY <1>2, <1>4, <1>5, SupportComputed
<1> QED
    BY <1>1, <1>5, <1>6, PlacedHere

(* SelfPower establishes Kept.                                             *)
LEMMA SelfStep ==
    ASSUME TallyInv, SelfPower
    PROVE  PlacedFor(size, dTilde', 1, Everywhere(Keeps(delegationTotals, q), 1))
<1>1. PICK X, A, B : X = dTilde' /\ A = dCts /\ B = qBase
    OBVIOUS
<1>2. X = [ct \in Cts |-> Times(SelfIndicator(A[ct]), B[ct])]
    BY <1>1 DEF SelfPower
<1>3. Placed(A, size.k, Marks(delegationTotals)) /\ Placed(B, 1, Everywhere(q, 1))
    <2>1. PlacedFor(size, A, size.k, Marks(delegationTotals))
        BY <1>1 DEF TallyInv, Echoed, SelfPower
    <2>2. PlacedFor(size, B, 1, Everywhere(q, 1))
        BY <1>1 DEF TallyInv, Prepared, SelfPower
    <2> QED
        BY <2>1, <2>2, PlacedHere
<1>4. Elected
    BY DEF TallyInv
<1>5. Placed(X, 1, Everywhere(Keeps(delegationTotals, q), 1))
    BY <1>2, <1>3, <1>4, SelfPlaced
<1> QED
    BY <1>1, <1>5, PlacedHere

(* VoterWeights establishes Received.                                      *)
LEMMA WeightStep ==
    ASSUME TallyInv, VoterWeights
    PROVE  /\ PlacedFor(size, dw', 1, Everywhere(Receives(delegationTotals, q, D), 1))
           /\ PlacedFor(size, voterWeights', 1, Everywhere(Weights(delegationTotals, q, D), 1))
<1>1. PICK X, Y, B : X = dw' /\ Y = voterWeights' /\ B = dTilde
    OBVIOUS
<1>2. /\ X = [ct \in Cts |->
                 Total([one \in OnesOfD(ct) |-> Moved(one[1], one[2])], OnesOfD(ct))]
      /\ Y = [ct \in Cts |-> Plus(X[ct], B[ct])]
    BY <1>1 DEF VoterWeights
<1>3. support = Repeated(size, Supports(delegationTotals, q, D))
    BY DEF TallyInv, Supported, VoterWeights
<1>4. Placed(B, 1, Everywhere(Keeps(delegationTotals, q), 1))
    <2>1. PlacedFor(size, B, 1, Everywhere(Keeps(delegationTotals, q), 1))
        BY <1>1 DEF TallyInv, Kept, VoterWeights
    <2> QED
        BY <2>1, PlacedHere
<1>5. Elected
    BY DEF TallyInv
<1>6. Placed(X, 1, Everywhere(Receives(delegationTotals, q, D), 1))
    <2>1. Delegated(X)
        BY <1>2 DEF Delegated
    <2> QED
        BY <2>1, <1>3, <1>5, DwPlaced
<1>7. Placed(Y, 1, Everywhere(Weights(delegationTotals, q, D), 1))
    <2>1. Joins(Y, X, B)
        BY <1>2 DEF Joins
    <2> QED
        BY <2>1, <1>4, <1>5, <1>6, WeightsPlaced
<1> QED
    BY <1>1, <1>6, <1>7, PlacedHere

(* The reference of the tally counts weights.                              *)
LEMMA TallyIs ==
    ASSUME Elected, NEW c
    PROVE  delegatedMaskedTallyPlain(c)
              = SumOver(Weights(delegationTotals, q, D), Choosing(candidateTotals, c))
<1> DEFINE w == Weights(delegationTotals, q, D)
<1>1. IsFiniteSet(DOMAIN candidateTotals) /\ DOMAIN candidateTotals = Voters(size)
    BY FiniteParts DEF Elected
<1>2. \A v \in Voters(size) : w[v] = delegatedVoterWeightsPlain(v)
    BY WeightsAre
<1> HIDE DEF w
<1>3. delegatedMaskedTallyPlain(c) = SumOver(w, Choosing(candidateTotals, c))
    BY <1>1, <1>2, MaskedTallyIs
<1> QED
    BY <1>3 DEF w

(* Product establishes Tallied.                                            *)
LEMMA ProductStep ==
    ASSUME TallyInv, Product
    PROVE  Counted(size, result', candidateTotals, Weights(delegationTotals, q, D),
                   SumOver(q, Voters(size)))
<1>1. PICK r, A, B : r = result' /\ A = voterWeights /\ B = vCts
    OBVIOUS
<1>2. PICK X : X = [ct \in Cts |-> Times(Spread(A[ct]), B[ct])]
    OBVIOUS
<1>3. r = SumBlocks(Total(X, Cts))
    BY <1>1, <1>2 DEF Product
<1>4. /\ Placed(A, 1, Everywhere(Weights(delegationTotals, q, D), 1))
      /\ Placed(B, size.b, Marks(candidateTotals))
    <2>1. PlacedFor(size, A, 1, Everywhere(Weights(delegationTotals, q, D), 1))
        BY <1>1 DEF TallyInv, Received, Product
    <2>2. PlacedFor(size, B, size.b, Marks(candidateTotals))
        BY <1>1 DEF TallyInv, Echoed, Product
    <2> QED
        BY <2>1, <2>2, PlacedHere
<1>5. Elected
    BY DEF TallyInv
<1>6. Placed(X, size.b, Weighs(candidateTotals, Weights(delegationTotals, q, D)))
    BY <1>2, <1>4, <1>5, ProductPlaced
<1>7. /\ r \in [Slots -> 0 .. PowerSum]
      /\ \A c \in Candidates(size) : r[c] = delegatedMaskedTallyPlain(c)
    BY <1>3, <1>5, <1>6, ResultIs
<1>8. Slots = 0 .. 2 * size.cols - 1 /\ PowerSum = SumOver(q, Voters(size))
    BY <1>5, Geometry, PowerIs DEF Elected
<1>9. \A c \in Candidates(size) :
          r[c] = SumOver(Weights(delegationTotals, q, D), Choosing(candidateTotals, c))
    BY <1>5, <1>7, TallyIs
<1> QED
    BY <1>1, <1>7, <1>8, <1>9 DEF Counted

(* Every phase preserves the invariant.                                    *)
LEMMA TallyStep == TallyInv /\ [Next]_vars => TallyInv'
<1> SUFFICES ASSUME TallyInv, [Next]_vars PROVE TallyInv'
    OBVIOUS
<1> USE DEF TallyInv, Prepared, Echoed, Supported, Kept, Received, Tallied, Stages
<1>1. /\ size' = size /\ D' = D /\ q' = q
      /\ candidateTotals' = candidateTotals /\ delegationTotals' = delegationTotals
    BY DEF Next, vars, inputs, GenerateKeys, PrepareWeights, EchoTotals, ApplyIndicator,
           DelegateSupport, SelfPower, VoterWeights, Product
<1>2. Elected'
    BY <1>1 DEF Elected
<1>3. CASE GenerateKeys
    BY <1>1, <1>2, <1>3 DEF GenerateKeys, phases
<1>4. CASE PrepareWeights
    BY <1>1, <1>2, <1>4, PrepareStep DEF PrepareWeights, phases
<1>5. CASE EchoTotals
    BY <1>1, <1>2, <1>5, EchoStep DEF EchoTotals
<1>6. CASE ApplyIndicator
    BY <1>1, <1>2, <1>6, IndicatorStep DEF ApplyIndicator
<1>7. CASE DelegateSupport
    BY <1>1, <1>2, <1>7, SupportStep DEF DelegateSupport
<1>8. CASE SelfPower
    BY <1>1, <1>2, <1>8, SelfStep DEF SelfPower
<1>9. CASE VoterWeights
    BY <1>1, <1>2, <1>9, WeightStep DEF VoterWeights
<1>10. CASE Product
    BY <1>1, <1>2, <1>10, ProductStep DEF Product
<1>11. CASE UNCHANGED vars
    BY <1>1, <1>2, <1>11 DEF vars, phases
<1> QED
    BY <1>3, <1>4, <1>5, <1>6, <1>7, <1>8, <1>9, <1>10, <1>11 DEF Next

----------------------------------------------------------------------------
(* What the invariant says of a state.                                     *)

Below(val, width, bound) == \A v \in Voters(size), o \in Off(width) : val[v][o] \in 0 .. bound

(* An array of bounded values is bounded in all its slots.                 *)
LEMMA PlacedArray ==
    ASSUME NEW A, NEW width, NEW val, NEW bound \in Nat, PlacedFor(size, A, width, val),
           Below(val, width, bound)
    PROVE  A \in Array(bound)
<1>1. Placed(A, width, val)
    BY PlacedHere
<1>2. \A v \in Voters(size), o \in Off(width) : val[v][o] \in 0 .. bound
    BY DEF Below
<1>3. A \in [Cts -> [Slots -> 0 .. bound]]
    BY <1>1, <1>2, PlacedBounded
<1> QED
    BY <1>3 DEF Array, Vector

(* The supports, one delegate at a time.                                   *)
LEMMA SupportOf ==
    ASSUME Elected, NEW l \in Delegates(size)
    PROVE  /\ Supports(delegationTotals, q, D)[l] = delegateSupportPlain(l)
           /\ Supports(delegationTotals, q, D)[l] \in 0 .. PowerSum
<1>1. PICK f : f = [v \in Voters(size) |-> Weighs(delegationTotals, q)[v][l]]
    OBVIOUS
<1>2. \A v \in Voters(size) : f[v] = Weighs(delegationTotals, q)[v][l]
    BY <1>1
<1> QED
    BY <1>2, SupportsAre

(* A delegate reads its support in its own column.                         *)
LEMMA SupportColumn ==
    ASSUME Elected, NEW l \in Delegates(size)
    PROVE  Repeated(size, Supports(delegationTotals, q, D))[l] = delegateSupportPlain(l)
<1>1. l \in 0 .. size.cols - 1 /\ size \in Sizes
    <2>1. PICK c \in Nat, k \in Nat : c = size.cols /\ k = size.k /\ k <= c
        BY Geometry, SizesAssumption DEF Elected
    <2> QED
        BY <2>1 DEF Delegates, Elected
<1>2. PICK c \in Nat, r \in {0, 1} : c = size.cols /\ r = 0
    BY <1>1, Geometry
<1>3. r * size.cols + l = l
    <2>1. PICK m \in Nat : m = l
        BY <1>1
    <2>2. 0 * c + m = m
        OBVIOUS
    <2> QED
        BY <1>2, <2>1, <2>2
<1>4. l \in Slots /\ Col(l) = l
    BY <1>1, <1>3, SlotMade
<1> QED
    BY <1>4, Repeats, SupportOf

(* Supports are bounded in all slots.                                      *)
LEMMA SupportVector ==
    ASSUME Elected
    PROVE  Repeated(size, Supports(delegationTotals, q, D)) \in Vector(PowerSum)
<1> DEFINE x == Repeated(size, Supports(delegationTotals, q, D))
<1>1. Slots = 0 .. 2 * size.cols - 1 /\ PowerSum \in Nat
    BY Geometry, PowerIs DEF Elected
<1>2. x = [s \in Slots |-> x[s]]
    BY <1>1 DEF Repeated
<1>3. ASSUME NEW s \in Slots PROVE x[s] \in 0 .. PowerSum
    <2>1. CASE Col(s) \in Delegates(size)
        BY <2>1, Repeats, SupportOf
    <2>2. CASE Col(s) \notin Delegates(size)
        <3>1. PICK e \in Nat, k \in Nat : e = s % size.cols /\ e = Col(s) /\ k = size.k
            BY Geometry, SlotParts DEF Elected, Col
        <3>2. ~(e < k)
            BY <2>2, <3>1 DEF Delegates
        <3>3. x[s] = 0
            BY <1>1, <3>1, <3>2 DEF Repeated
        <3> QED
            BY <1>1, <3>3
    <2> QED
        BY <2>1, <2>2
<1> HIDE DEF x
<1>4. x \in [Slots -> 0 .. PowerSum]
    BY <1>2, <1>3
<1> QED
    BY <1>4 DEF x, Vector

(* No value that is packed exceeds the periods, or the power there is.     *)
LEMMA ValuesBelow ==
    ASSUME Elected
    PROVE  /\ Below(Everywhere(q, size.k), size.k, PowerSum) /\ Below(Everywhere(q, 1), 1, PowerSum)
           /\ Below(candidateTotals, size.b, Periods) /\ Below(delegationTotals, size.k, Periods)
           /\ Below(Marks(candidateTotals), size.b, Periods)
           /\ Below(Marks(delegationTotals), size.k, Periods)
           /\ Below(Weighs(delegationTotals, q), size.k, PowerSum)
           /\ Below(Everywhere(Keeps(delegationTotals, q), 1), 1, PowerSum)
           /\ Below(Everywhere(Receives(delegationTotals, q, D), 1), 1, PowerSum)
           /\ Below(Everywhere(Weights(delegationTotals, q, D), 1), 1, PowerSum)
<1>1. /\ DOMAIN q = Voters(size) /\ DOMAIN Keeps(delegationTotals, q) = Voters(size)
      /\ DOMAIN Receives(delegationTotals, q, D) = Voters(size)
      /\ DOMAIN Weights(delegationTotals, q, D) = Voters(size)
    BY DEF Elected, Keeps, Receives, Weights
<1>2. ASSUME NEW f, DOMAIN f = Voters(size), \A v \in Voters(size) : f[v] \in 0 .. PowerSum,
             NEW width
      PROVE  Below(Everywhere(f, width), width, PowerSum)
    BY <1>2, EverywhereIs DEF Below
<1>3. \A v \in Voters(size) : q[v] \in 0 .. PowerSum
    BY PowerIs
<1>4. \A v \in Voters(size) :
          /\ Keeps(delegationTotals, q)[v] \in 0 .. PowerSum
          /\ Weights(delegationTotals, q, D)[v] \in 0 .. PowerSum
    BY WeightsAre
<1>5. ASSUME NEW v \in Voters(size)
      PROVE  Receives(delegationTotals, q, D)[v] \in 0 .. PowerSum
    <2>1. CASE \E l \in Delegates(size) : D[l] = v
        BY <2>1, SupportOf, ReceivesAre
    <2>2. CASE \A l \in Delegates(size) : D[l] # v
        <3>1. Receives(delegationTotals, q, D)[v] = 0
            BY <2>2, ReceivesAre
        <3> QED
            BY <3>1, PowerIs
    <2> QED
        BY <2>1, <2>2
<1>6. /\ Below(Everywhere(q, size.k), size.k, PowerSum) /\ Below(Everywhere(q, 1), 1, PowerSum)
    BY <1>1, <1>2, <1>3
<1>7. /\ Below(Everywhere(Keeps(delegationTotals, q), 1), 1, PowerSum)
      /\ Below(Everywhere(Weights(delegationTotals, q, D), 1), 1, PowerSum)
    BY <1>1, <1>2, <1>4
<1>8. Below(Everywhere(Receives(delegationTotals, q, D), 1), 1, PowerSum)
    BY <1>1, <1>2, <1>5
<1>9. Below(candidateTotals, size.b, Periods) /\ Below(delegationTotals, size.k, Periods)
    BY VoterTotals DEF Below
<1>10. PICK T \in Nat \ {0} : T = Periods
    BY PeriodsAssumption
<1>11. /\ Below(Marks(candidateTotals), size.b, Periods)
       /\ Below(Marks(delegationTotals), size.k, Periods)
    <2>1. 0 \in 0 .. Periods /\ 1 \in 0 .. Periods
        BY <1>10
    <2>2. \A v \in Voters(size), o \in Off(size.b) :
              Marks(candidateTotals)[v][o] = indicatorPlain(candidateTotals[v][o])
        BY VoterTotals DEF Marks
    <2>3. \A v \in Voters(size), o \in Off(size.k) :
              Marks(delegationTotals)[v][o] = indicatorPlain(delegationTotals[v][o])
        BY VoterTotals DEF Marks
    <2> QED
        BY <2>1, <2>2, <2>3 DEF Below, indicatorPlain
<1>12. Below(Weighs(delegationTotals, q), size.k, PowerSum)
    <2> SUFFICES ASSUME NEW v \in Voters(size), NEW o \in Off(size.k)
                 PROVE  Weighs(delegationTotals, q)[v][o] \in 0 .. PowerSum
        BY DEF Below
    <2>1. o \in Delegates(size)
        BY VoterTotals
    <2>2. Weighs(delegationTotals, q)[v][o] \in {0, q[v]}
        BY <2>1, KeepsOrGives
    <2> QED
        BY <1>3, <2>2, PowerIs
<1> QED
    BY <1>6, <1>7, <1>8, <1>9, <1>11, <1>12

(* Nothing wraps around the modulus.                                       *)
LEMMA TypesHold == TallyInv => TypeOK
<1> SUFFICES ASSUME TallyInv PROVE TypeOK
    OBVIOUS
<1>1. Elected /\ stage \in Stages
    BY DEF TallyInv
<1>2. Periods \in Nat /\ PowerSum \in Nat /\ <<>> \in Array(Periods) /\ <<>> \in Array(PowerSum)
    BY <1>1, PeriodsAssumption, PowerIs DEF Array
<1>3. qExt \in Array(PowerSum) /\ qBase \in Array(PowerSum)
    BY <1>1, <1>2, PlacedArray, ValuesBelow DEF TallyInv, Prepared
<1>4. vCts \in Array(Periods) /\ dCts \in Array(Periods)
    BY <1>1, <1>2, PlacedArray, ValuesBelow DEF TallyInv, Echoed
<1>5. dWeighted \in Array(PowerSum) /\ support \in Vector(PowerSum) \cup {<<>>}
    BY <1>1, <1>2, PlacedArray, ValuesBelow, SupportVector DEF TallyInv, Supported
<1>6. dTilde \in Array(PowerSum)
    BY <1>1, <1>2, PlacedArray, ValuesBelow DEF TallyInv, Kept
<1>7. dw \in Array(PowerSum) /\ voterWeights \in Array(PowerSum)
    BY <1>1, <1>2, PlacedArray, ValuesBelow DEF TallyInv, Received
<1>8. result \in Vector(PowerSum) \cup {<<>>}
    <2>1. CASE stage = "done"
        <3>1. result \in [0 .. 2 * size.cols - 1 -> 0 .. SumOver(q, Voters(size))]
            BY <2>1 DEF TallyInv, Tallied, Counted
        <3>2. SumOver(q, Voters(size)) = PowerSum /\ Slots = 0 .. 2 * size.cols - 1
            BY <1>1, PowerIs, Geometry DEF Elected
        <3> QED
            BY <3>1, <3>2 DEF Vector
    <2>2. CASE stage # "done"
        BY <2>2 DEF TallyInv, Tallied
    <2> QED
        BY <2>1, <2>2
<1> QED
    BY <1>1, <1>3, <1>4, <1>5, <1>6, <1>7, <1>8 DEF TypeOK

(* The invariant conserves power.                                          *)
LEMMA PowerHolds == TallyInv => PowerIsConserved
<1> SUFFICES ASSUME TallyInv, Computed(voterWeights)
             PROVE  MapThenSumSet(LAMBDA ct : SumFunction(voterWeights[ct]), Cts) = PowerSum
    BY DEF PowerIsConserved
<1>1. Elected
    BY DEF TallyInv
<1>2. PlacedFor(size, voterWeights, 1, Everywhere(Weights(delegationTotals, q, D), 1))
    BY DEF TallyInv, Received, Computed
<1>3. Placed(voterWeights, 1, Everywhere(Weights(delegationTotals, q, D), 1))
    <2>1. PICK A : A = voterWeights
        OBVIOUS
    <2> QED
        BY <1>2, <2>1, PlacedHere
<1> QED
    BY <1>1, <1>3, Conserved

(* The invariant makes the tally exact.                                    *)
LEMMA ExactHolds == TallyInv => TallyIsExact
<1> SUFFICES ASSUME TallyInv PROVE TallyIsExact
    OBVIOUS
<1>1. Elected
    BY DEF TallyInv
<1>2. ASSUME stage = "done", NEW c \in Candidates(size)
      PROVE  result[c] = delegatedMaskedTallyPlain(c)
    <2>1. result[c] = SumOver(Weights(delegationTotals, q, D), Choosing(candidateTotals, c))
        BY <1>2 DEF TallyInv, Tallied, Counted
    <2> QED
        BY <1>1, <2>1, TallyIs
<1> QED
    BY <1>2, TypesHold, PowerHolds DEF TallyIsExact

(* What a block holds is what is decoded from it.                          *)
LEMMA Decoded ==
    ASSUME NEW A, NEW width, NEW val, PlacedFor(size, A, width, val), NEW v \in Voters(size),
           NEW o \in Off(width)
    PROVE  A[ctIdx(layout, v)][Start(v) + o] = val[v][o]
BY PlacedHere DEF Placed, At

(* The invariant makes every intermediate check succeed.                   *)
LEMMA PhasesHold == TallyInv => PhasesMatchPlaintext
<1> SUFFICES ASSUME TallyInv, NEW v \in Voters(size)
             PROVE  /\ Computed(qBase) => At(qBase, v, 0) = q[v]
                    /\ stage \notin {"keys", "weights", "echo", "indicator"} =>
                          /\ \A c \in Candidates(size) :
                                At(vCts, v, c) = indicatorPlain(candidateTotals[v][c])
                          /\ \A l \in Delegates(size) :
                                At(dCts, v, l) = indicatorPlain(delegationTotals[v][l])
                    /\ Computed(dWeighted) => \A l \in Delegates(size) :
                          /\ At(dWeighted, v, l) = weightedDelegationIndicatorPlain(v, l)
                          /\ support[l] = delegateSupportPlain(l)
                    /\ Computed(dTilde) => At(dTilde, v, 0) = weightedSelfPowerPlain(v)
                    /\ Computed(dw) =>
                          /\ At(dw, v, 0) = delegatedPlain(v)
                          /\ At(voterWeights, v, 0) = delegatedVoterWeightsPlain(v)
    BY DEF PhasesMatchPlaintext
<1>1. Elected /\ stage \in Stages
    BY DEF TallyInv
<1>2. /\ DOMAIN q = Voters(size) /\ DOMAIN Keeps(delegationTotals, q) = Voters(size)
      /\ DOMAIN Receives(delegationTotals, q, D) = Voters(size)
      /\ DOMAIN Weights(delegationTotals, q, D) = Voters(size)
    BY <1>1 DEF Elected, Keeps, Receives, Weights
<1>3. 0 \in Off(1) /\ Off(size.b) = Candidates(size) /\ Off(size.k) = Delegates(size)
    BY <1>1, VoterTotals, WidthsFit
<1>4. ASSUME Computed(qBase) PROVE At(qBase, v, 0) = q[v]
    <2>1. PICK A : A = qBase /\ PlacedFor(size, A, 1, Everywhere(q, 1))
        BY <1>4 DEF TallyInv, Prepared, Computed
    <2> QED
        BY <1>2, <1>3, <2>1, Decoded, EverywhereIs DEF At
<1>5. ASSUME stage \notin {"keys", "weights", "echo", "indicator"}
      PROVE  /\ \A c \in Candidates(size) : At(vCts, v, c) = indicatorPlain(candidateTotals[v][c])
             /\ \A l \in Delegates(size) : At(dCts, v, l) = indicatorPlain(delegationTotals[v][l])
    <2>1. PICK A, B : /\ A = vCts /\ PlacedFor(size, A, size.b, Marks(candidateTotals))
                      /\ B = dCts /\ PlacedFor(size, B, size.k, Marks(delegationTotals))
        BY <1>5 DEF TallyInv, Echoed
    <2>2. /\ \A c \in Candidates(size) :
                Marks(candidateTotals)[v][c] = indicatorPlain(candidateTotals[v][c])
          /\ \A l \in Delegates(size) :
                Marks(delegationTotals)[v][l] = indicatorPlain(delegationTotals[v][l])
        BY <1>1, VoterTotals DEF Marks
    <2>3. /\ \A o \in Off(size.b) : At(A, v, o) = Marks(candidateTotals)[v][o]
          /\ \A o \in Off(size.k) : At(B, v, o) = Marks(delegationTotals)[v][o]
        BY <2>1, Decoded DEF At
    <2>4. /\ \A c \in Candidates(size) : At(A, v, c) = indicatorPlain(candidateTotals[v][c])
          /\ \A l \in Delegates(size) : At(B, v, l) = indicatorPlain(delegationTotals[v][l])
        BY <1>3, <2>2, <2>3
    <2> QED
        BY <2>1, <2>4 DEF At
<1>6. ASSUME Computed(dWeighted), NEW l \in Delegates(size)
      PROVE  /\ At(dWeighted, v, l) = weightedDelegationIndicatorPlain(v, l)
             /\ support[l] = delegateSupportPlain(l)
    <2>1. PICK A : /\ A = dWeighted /\ PlacedFor(size, A, size.k, Weighs(delegationTotals, q))
                   /\ support = Repeated(size, Supports(delegationTotals, q, D))
        BY <1>6 DEF TallyInv, Supported, Computed
    <2>2. Weighs(delegationTotals, q)[v][l] = indicatorPlain(delegationTotals[v][l]) * q[v]
        BY <1>1, KeepsOrGives
    <2>3. At(A, v, l) = Weighs(delegationTotals, q)[v][l]
        BY <1>3, <2>1, Decoded DEF At
    <2>4. At(dWeighted, v, l) = weightedDelegationIndicatorPlain(v, l)
        BY <2>1, <2>2, <2>3 DEF weightedDelegationIndicatorPlain, At
    <2> QED
        BY <1>1, <2>1, <2>4, SupportColumn
<1>7. ASSUME Computed(dTilde) PROVE At(dTilde, v, 0) = weightedSelfPowerPlain(v)
    <2>1. PICK A : /\ A = dTilde
                   /\ PlacedFor(size, A, 1, Everywhere(Keeps(delegationTotals, q), 1))
        BY <1>7 DEF TallyInv, Kept, Computed
    <2>2. At(A, v, 0) = Keeps(delegationTotals, q)[v]
        BY <1>2, <1>3, <2>1, Decoded, EverywhereIs DEF At
    <2> QED
        BY <1>1, <2>1, <2>2, KeepsOrGives DEF At
<1>8. ASSUME Computed(dw)
      PROVE  /\ At(dw, v, 0) = delegatedPlain(v)
             /\ At(voterWeights, v, 0) = delegatedVoterWeightsPlain(v)
    <2>1. PICK A, B :
              /\ A = dw /\ PlacedFor(size, A, 1, Everywhere(Receives(delegationTotals, q, D), 1))
              /\ B = voterWeights
              /\ PlacedFor(size, B, 1, Everywhere(Weights(delegationTotals, q, D), 1))
        BY <1>8 DEF TallyInv, Received, Computed
    <2>2. At(A, v, 0) = Receives(delegationTotals, q, D)[v]
        BY <1>2, <1>3, <2>1, Decoded, EverywhereIs DEF At
    <2>3. At(B, v, 0) = Weights(delegationTotals, q, D)[v]
        BY <1>2, <1>3, <2>1, Decoded, EverywhereIs DEF At
    <2>4. /\ Receives(delegationTotals, q, D)[v] = delegatedPlain(v)
          /\ Weights(delegationTotals, q, D)[v] = delegatedVoterWeightsPlain(v)
        BY <1>1, ReceivesAre, WeightsAre
    <2>5. At(dw, v, 0) = At(A, v, 0) /\ At(voterWeights, v, 0) = At(B, v, 0)
        BY <2>1 DEF At
    <2> QED
        BY <2>2, <2>3, <2>4, <2>5
<1> QED
    BY <1>4, <1>5, <1>6, <1>7, <1>8

(* The tally that is decrypted is the plaintext reference of the elections *)
(* configuration, for any sizes, powers, delegations and echo totals: the  *)
(* slots that phases leave behind never reach a slot that is decoded, and  *)
(* no power is lost, doubled or wrapped around the modulus on the way.     *)
THEOREM TallyIsAlwaysExact == Spec => []TallyIsExact
BY TallyInit, TallyStep, ExactHolds, PTL DEF Spec

(* Every intermediate check of main succeeds: after each phase, the slots  *)
(* that are decoded hold the plaintext reference of that phase.            *)
THEOREM PhasesAlwaysMatch == Spec => []PhasesMatchPlaintext
BY TallyInit, TallyStep, PhasesHold, PTL DEF Spec
=============================================================================
