------------------------- MODULE ArithmeticLemmas -------------------------
(***************************************************************************)
(* Facts about numbers and finite sets that several proofs need:           *)
(*                                                                         *)
(*   - arithmetic modulo the plaintext modulus, for every modulus: sums    *)
(*     and products may be reduced at any point, and the reduced           *)
(*     operations obey the ring laws the echo tree relies on;              *)
(*   - quotients with remainder, and the packing of voters into rows and   *)
(*     ciphertexts by them;                                                *)
(*   - induction over a finite set and over the natural numbers, for a     *)
(*     property given as the set W of what has it;                         *)
(*   - sums over finite sets, as the folds of the community modules define *)
(*     them: term by term, over pairs, over an image, modulo t.            *)
(***************************************************************************)
EXTENDS Integers, FiniteSetTheorems, TLAPS

(* A remainder is recovered from any multiple it is added to.              *)
LEMMA ModOfMultiple ==
    ASSUME NEW t \in Nat \ {0}, NEW k \in Int, NEW r \in 0 .. t - 1
    PROVE  (t * k + r) % t = r
<1> DEFINE z == t * k + r
           q == z \div t
<1>1. z \in Int /\ q \in Int /\ z % t \in 0 .. t - 1 /\ z = t * q + (z % t)
    OBVIOUS
<1>2. t * (q - k) = r - (z % t)
    BY <1>1
<1>3. q = k
    <2>1. CASE q > k
        <3>1. t * (q - k) >= t
            BY <2>1, <1>1
        <3> QED
            BY <3>1, <1>1, <1>2
    <2>2. CASE q < k
        <3>1. t * (q - k) <= -t
            BY <2>2, <1>1
        <3> QED
            BY <3>1, <1>1, <1>2
    <2> QED
        BY <2>1, <2>2, <1>1
<1> QED
    BY <1>1, <1>3

(* Adding a multiple of the modulus changes no residue.                    *)
LEMMA ModShift ==
    ASSUME NEW t \in Nat \ {0}, NEW x \in Int, NEW k \in Int
    PROVE  (x + t * k) % t = x % t
<1>1. x % t \in 0 .. t - 1 /\ x \div t \in Int /\ x = t * (x \div t) + (x % t)
    OBVIOUS
<1>2. x + t * k = t * (x \div t + k) + (x % t)
    BY <1>1
<1>3. (t * (x \div t + k) + (x % t)) % t = x % t
    <2>1. x \div t + k \in Int
        BY <1>1
    <2> QED
        BY <1>1, <2>1, ModOfMultiple
<1> QED
    BY <1>2, <1>3

(* A summand may be reduced first.                                         *)
LEMMA ModPlus ==
    ASSUME NEW t \in Nat \ {0}, NEW x \in Int, NEW y \in Int
    PROVE  ((x % t) + y) % t = (x + y) % t
<1>1. x % t \in Int /\ x \div t \in Int /\ x = t * (x \div t) + (x % t)
    OBVIOUS
<1>2. x + y = ((x % t) + y) + t * (x \div t)
    BY <1>1
<1>3. ((x % t) + y) \in Int
    BY <1>1
<1>4. (((x % t) + y) + t * (x \div t)) % t = ((x % t) + y) % t
    BY <1>1, <1>3, ModShift
<1> QED
    BY <1>2, <1>4

(* A factor may be reduced first.                                          *)
LEMMA ModTimes ==
    ASSUME NEW t \in Nat \ {0}, NEW x \in Int, NEW y \in Int
    PROVE  ((x % t) * y) % t = (x * y) % t
<1>1. x % t \in Int /\ x \div t \in Int /\ x = t * (x \div t) + (x % t)
    OBVIOUS
<1>2. x * y = (x % t) * y + t * ((x \div t) * y)
    <2> DEFINE q == x \div t
               m == x % t
    <2>1. x * y = (t * q + m) * y
        BY <1>1
    <2>2. \A a, b, c, d \in Int : (a * b + c) * d = c * d + a * (b * d)
        OBVIOUS
    <2>3. q \in Int /\ m \in Int
        BY <1>1
    <2> HIDE DEF q, m
    <2> QED
        BY <2>1, <2>2, <2>3 DEF q, m
<1>3. (x % t) * y \in Int /\ (x \div t) * y \in Int
    BY <1>1
<1> QED
    BY <1>2, <1>3, ModShift

(* Reduced sums are associative: each nesting reduces the plain sum.       *)
LEMMA ModPlusAssoc ==
    ASSUME NEW t \in Nat \ {0}, NEW x \in Int, NEW y \in Int, NEW z \in Int
    PROVE  /\ (((x + y) % t) + z) % t = (x + y + z) % t
           /\ (x + ((y + z) % t)) % t = (x + y + z) % t
<1>1. (((x + y) % t) + z) % t = (x + y + z) % t
    <2>1. x + y \in Int
        OBVIOUS
    <2> QED
        BY <2>1, ModPlus
<1>2. (((y + z) % t) + x) % t = (y + z + x) % t
    <2>1. y + z \in Int
        OBVIOUS
    <2> QED
        BY <2>1, ModPlus
<1>3. (y + z) % t \in Int
    OBVIOUS
<1>4. (x + ((y + z) % t)) = (((y + z) % t) + x) /\ y + z + x = x + y + z
    BY <1>3
<1> QED
    BY <1>1, <1>2, <1>4

(* Reduced products are associative.                                       *)
LEMMA ModTimesAssoc ==
    ASSUME NEW t \in Nat \ {0}, NEW x \in Int, NEW y \in Int, NEW z \in Int
    PROVE  (((x * y) % t) * z) % t = (x * ((y * z) % t)) % t
<1>1. (((x * y) % t) * z) % t = ((x * y) * z) % t
    <2>1. x * y \in Int
        OBVIOUS
    <2> QED
        BY <2>1, ModTimes
<1>2. (((y * z) % t) * x) % t = ((y * z) * x) % t
    <2>1. y * z \in Int
        OBVIOUS
    <2> QED
        BY <2>1, ModTimes
<1>3. (y * z) % t \in Int /\ y * z \in Int
    OBVIOUS
<1>4. ((y * z) % t) * x = x * ((y * z) % t)
    BY <1>3
<1>5. (y * z) * x = (x * y) * z
    OBVIOUS
<1> QED
    BY <1>1, <1>2, <1>4, <1>5

(* Reduced products distribute over reduced sums.                          *)
LEMMA ModDistributes ==
    ASSUME NEW t \in Nat \ {0}, NEW x \in Int, NEW y \in Int, NEW z \in Int
    PROVE  (x * ((y + z) % t)) % t = (((x * y) % t) + ((x * z) % t)) % t
<1> DEFINE p == x * y
           q == x * z
<1>1. p \in Int /\ q \in Int /\ p % t \in Int /\ q % t \in Int /\ (y + z) % t \in Int
    OBVIOUS
<1>2. (x * ((y + z) % t)) % t = (p + q) % t
    <2>1. y + z \in Int
        OBVIOUS
    <2>2. (((y + z) % t) * x) % t = ((y + z) * x) % t
        BY <2>1, ModTimes
    <2>3. ((y + z) % t) * x = x * ((y + z) % t)
        BY <1>1
    <2>4. (y + z) * x = p + q
        OBVIOUS
    <2> QED
        BY <2>2, <2>3, <2>4
<1> HIDE DEF p, q
<1>3. ((p % t) + (q % t)) % t = (p + q) % t
    <2>1. ((p % t) + (q % t)) % t = (p + (q % t)) % t
        BY <1>1, ModPlus
    <2>2. ((q % t) + p) % t = (q + p) % t
        BY <1>1, ModPlus
    <2>3. (q % t) + p = p + (q % t) /\ q + p = p + q
        BY <1>1
    <2> QED
        BY <2>1, <2>2, <2>3
<1> QED
    BY <1>2, <1>3 DEF p, q

----------------------------------------------------------------------------
(* Quotient and remainder.                                                 *)

(* Products of natural numbers grow with their factors.                    *)
LEMMA TimesMonotone ==
    ASSUME NEW a \in Nat, NEW b \in Nat, NEW d \in Nat, a <= b
    PROVE  a * d <= b * d /\ a * d \in Nat
<1>1. PICK e \in Nat : b = a + e
    <2>1. b - a \in Nat /\ b = a + (b - a)
        OBVIOUS
    <2> QED
        BY <2>1
<1>2. b * d = a * d + e * d
    BY <1>1
<1>3. e * d \in Nat /\ a * d \in Nat
    OBVIOUS
<1> QED
    BY <1>2, <1>3

(* A quotient and its remainder, in one fact.                              *)
LEMMA Division ==
    ASSUME NEW x \in Nat, NEW d \in Nat \ {0}
    PROVE  /\ x \div d \in Nat /\ x % d \in 0 .. d - 1
           /\ x = (x \div d) * d + (x % d)
    OBVIOUS

(* Quotient and remainder are unique.                                      *)
LEMMA DivisionUnique ==
    ASSUME NEW d \in Nat \ {0}, NEW p \in Nat, NEW q \in Nat,
           NEW e \in 0 .. d - 1, NEW f \in 0 .. d - 1,
           p * d + e = q * d + f
    PROVE  p = q /\ e = f
<1>1. ASSUME NEW a \in Nat, NEW b \in Nat, a < b,
             NEW g \in 0 .. d - 1, NEW h \in 0 .. d - 1
      PROVE  a * d + g # b * d + h
    <2>1. (a + 1) * d <= b * d
        BY <1>1, TimesMonotone
    <2>2. (a + 1) * d = a * d + d
        OBVIOUS
    <2>3. a * d \in Nat /\ b * d \in Nat
        OBVIOUS
    <2> QED
        BY <2>1, <2>2, <2>3
<1>2. p * d + e = q * d + f => ~(p < q)
    BY <1>1
<1>3. p * d + e = q * d + f => ~(q < p)
    BY <1>1
<1> QED
    BY <1>2, <1>3

(* A multiple of d that fits into x bounds x's quotient from below.        *)
LEMMA QuotientAtLeast ==
    ASSUME NEW x \in Nat, NEW d \in Nat \ {0}, NEW a \in Nat, a * d <= x
    PROVE  a <= x \div d
<1>1. x \div d \in Nat /\ x % d \in 0 .. d - 1 /\ x = (x \div d) * d + (x % d)
    BY Division
<1>2. SUFFICES ASSUME x \div d + 1 <= a PROVE FALSE
    BY <1>1
<1>3. (x \div d + 1) * d <= a * d
    BY <1>1, <1>2, TimesMonotone
<1>4. (x \div d + 1) * d = (x \div d) * d + d
    BY <1>1
<1> QED
    BY <1>1, <1>3, <1>4

(* A row holds at least one block, and its blocks fit into it.             *)
LEMMA RowShape ==
    ASSUME NEW w \in Nat \ {0}, NEW rows \in Nat \ {0}, NEW cols \in Nat \ {0}, w <= cols
    PROVE  /\ cols \div w \in Nat \ {0}
           /\ (cols \div w) * w <= cols
           /\ rows * (cols \div w) \in Nat \ {0}
<1>1. cols \div w \in Nat /\ cols % w \in 0 .. w - 1 /\ cols = (cols \div w) * w + (cols % w)
    BY Division
<1>2. 1 <= cols \div w
    <2>1. 1 * w <= cols
        OBVIOUS
    <2> QED
        BY <2>1, QuotientAtLeast
<1>3. (cols \div w) * w <= cols
    <2>1. (cols \div w) * w \in Nat
        BY <1>1
    <2> QED
        BY <1>1, <2>1
<1>4. rows * (cols \div w) \in Nat \ {0}
    <2>1. 1 * (cols \div w) <= rows * (cols \div w) /\ rows * (cols \div w) \in Nat
        BY <1>1, TimesMonotone
    <2>2. 1 * (cols \div w) = cols \div w
        BY <1>1
    <2> QED
        BY <1>1, <1>2, <2>1, <2>2
<1> QED
    BY <1>1, <1>2, <1>3, <1>4

----------------------------------------------------------------------------
(* Voters packed into blocks of w slots, perRow blocks to a row, several   *)
(* rows to a ciphertext.                                                   *)

(* Where a voter is: the i-th block of row r of ciphertext c.              *)
LEMMA Place ==
    ASSUME NEW w \in Nat \ {0}, NEW rows \in Nat \ {0}, NEW cols \in Nat \ {0}, w <= cols,
           NEW v \in Nat,
           NEW perRow, perRow = cols \div w,
           NEW r, r = (v % (rows * perRow)) \div perRow,
           NEW i, i = (v % (rows * perRow)) % perRow
    PROVE  /\ r \in 0 .. rows - 1 /\ i \in 0 .. perRow - 1
           /\ v % (rows * perRow) = r * perRow + i
           /\ r * cols \in Nat /\ i * w \in Nat
           /\ i * w + w <= cols
<1>1. perRow \in Nat \ {0} /\ perRow * w <= cols /\ rows * perRow \in Nat \ {0}
    BY RowShape
<1> DEFINE l == v % (rows * perRow)
<1>2. l \in 0 .. (rows * perRow) - 1
    <2>1. v % (rows * perRow) \in 0 .. (rows * perRow) - 1
        BY <1>1, Division
    <2> QED
        BY <2>1
<1>3. r = l \div perRow /\ i = l % perRow
    OBVIOUS
<1> HIDE DEF l
<1>4. r \in Nat /\ i \in 0 .. perRow - 1 /\ l = r * perRow + i
    <2>1. l \in Nat
        BY <1>1, <1>2
    <2>2. /\ l \div perRow \in Nat /\ l % perRow \in 0 .. perRow - 1
          /\ l = (l \div perRow) * perRow + (l % perRow)
        BY <1>1, <2>1, Division
    <2> QED
        BY <1>3, <2>2
<1>5. r < rows
    <2> SUFFICES ASSUME rows <= r PROVE FALSE
        BY <1>4
    <2>1. rows * perRow <= r * perRow /\ r * perRow \in Nat
        BY <1>1, <1>4, TimesMonotone
    <2> QED
        BY <1>1, <1>2, <1>4, <2>1
<1>6. i * w + w <= cols /\ i * w \in Nat
    <2>1. (i + 1) * w <= perRow * w /\ perRow * w \in Nat
        BY <1>1, <1>4, TimesMonotone
    <2>2. (i + 1) * w = i * w + w /\ i * w \in Nat
        BY <1>4
    <2> QED
        BY <1>1, <2>1, <2>2
<1>7. r * cols \in Nat
    BY <1>4
<1> QED
    BY <1>4, <1>5, <1>6, <1>7 DEF l

(* A slot determines the row and the block it belongs to.                  *)
LEMMA SlotAddress ==
    ASSUME NEW cols \in Nat \ {0}, NEW w \in Nat \ {0},
           NEW r1 \in Nat, NEW r2 \in Nat, NEW i1 \in Nat, NEW i2 \in Nat,
           NEW o1 \in 0 .. w - 1, NEW o2 \in 0 .. w - 1,
           i1 * w \in Nat, i2 * w \in Nat, i1 * w + w <= cols, i2 * w + w <= cols,
           r1 * cols + i1 * w + o1 = r2 * cols + i2 * w + o2
    PROVE  r1 = r2 /\ i1 = i2
<1> DEFINE e == i1 * w + o1
           f == i2 * w + o2
<1>1. e \in 0 .. cols - 1 /\ f \in 0 .. cols - 1
    OBVIOUS
<1>2. r1 * cols + e = r2 * cols + f
    <2>1. r1 * cols \in Nat /\ r2 * cols \in Nat
        OBVIOUS
    <2> QED
        BY <2>1
<1>3. e = f => i1 = i2
    BY DivisionUnique
<1> HIDE DEF e, f
<1>4. r1 = r2 /\ e = f
    BY <1>1, <1>2, DivisionUnique
<1> QED
    BY <1>3, <1>4

(* Of the groups of d that n > 0 elements need, element m is in group      *)
(* m div d.                                                                *)
LEMMA GroupExists ==
    ASSUME NEW n \in Nat \ {0}, NEW d \in Nat \ {0}, NEW m \in 0 .. n - 1
    PROVE  /\ 1 + (n - 1) \div d \in Nat \ {0}
           /\ m \div d \in 0 .. (1 + (n - 1) \div d) - 1
<1>1. n - 1 \in Nat /\ m \in Nat
    OBVIOUS
<1>2. (n - 1) \div d \in Nat
    BY <1>1, Division
<1>3. m \div d \in Nat /\ m % d \in 0 .. d - 1 /\ m = (m \div d) * d + (m % d)
    BY <1>1, Division
<1>4. (m \div d) * d <= n - 1
    <2>1. (m \div d) * d \in Nat
        BY <1>3
    <2> QED
        BY <1>1, <1>3, <2>1
<1>5. m \div d <= (n - 1) \div d
    BY <1>1, <1>3, <1>4, QuotientAtLeast
<1> QED
    BY <1>2, <1>3, <1>5

(* A voter's ciphertext is one that the layout allocates.                  *)
LEMMA CiphertextExists ==
    ASSUME NEW n \in Nat \ {0}, NEW rows \in Nat \ {0}, NEW perRow \in Nat \ {0},
           NEW v \in 0 .. n - 1,
           NEW total, total = 1 + (n - 1) \div perRow,
           NEW count, count = 1 + (total - 1) \div rows
    PROVE  /\ total \in Nat \ {0} /\ count \in Nat \ {0}
           /\ v \div (rows * perRow) \in 0 .. count - 1
<1>1. v \in Nat /\ rows * perRow \in Nat \ {0}
    <2>1. 1 * perRow <= rows * perRow /\ rows * perRow \in Nat
        BY TimesMonotone
    <2> QED
        BY <2>1
<1> DEFINE ct == v \div (rows * perRow)
           rest == v % (rows * perRow)
<1>2. ct \in Nat /\ rest \in Nat /\ v = ct * (rows * perRow) + rest
    <2>1. /\ v \div (rows * perRow) \in Nat
          /\ v % (rows * perRow) \in 0 .. (rows * perRow) - 1
          /\ v = (v \div (rows * perRow)) * (rows * perRow) + (v % (rows * perRow))
        BY <1>1, Division
    <2> QED
        BY <1>1, <2>1
<1>3. total \in Nat \ {0} /\ v \div perRow \in 0 .. total - 1
    BY GroupExists
<1> HIDE DEF ct, rest
<1>4. (ct * rows) * perRow <= v
    <2>1. ct * (rows * perRow) = (ct * rows) * perRow
        BY <1>2
    <2>2. ct * (rows * perRow) \in Nat
        BY <1>1, <1>2
    <2> QED
        BY <1>1, <1>2, <2>1, <2>2
<1>5. ct * rows \in Nat
    BY <1>2
<1>6. ct * rows <= v \div perRow
    BY <1>1, <1>4, <1>5, QuotientAtLeast
<1>7. v \div perRow \in Nat
    BY <1>1, Division
<1>8. ct <= (v \div perRow) \div rows
    BY <1>2, <1>6, <1>7, QuotientAtLeast
<1>9. count \in Nat \ {0} /\ (v \div perRow) \div rows \in 0 .. count - 1
    BY <1>3, GroupExists
<1> QED
    BY <1>2, <1>3, <1>8, <1>9 DEF ct

----------------------------------------------------------------------------
(* Induction.                                                              *)

(* Every non-empty family of subsets of a finite set has a smallest one.   *)
LEMMA SmallestSubset ==
    ASSUME NEW S, IsFiniteSet(S), NEW W, W \subseteq SUBSET S, W # {}
    PROVE  \E s \in W : \A u \in W : ~(u \subseteq s /\ u # s)
<1>1. IsWellFoundedOn(StrictSubsetOrdering(S), FiniteSubsetsOf(S))
    BY FS_StrictSubsetOrderingWellFounded
<1>2. W \subseteq FiniteSubsetsOf(S)
    BY FS_FiniteSubsetsOfFinite
<1>3. PICK s \in W : \A u \in W : ~(<<u, s>> \in StrictSubsetOrdering(S))
    BY <1>1, <1>2, WFMin
<1> QED
    BY <1>3 DEF StrictSubsetOrdering

(* Induction over a finite set: W stands for the subsets with a property.  *)
LEMMA SetInduction ==
    ASSUME NEW S, IsFiniteSet(S), NEW W, {} \in W,
           \A T \in SUBSET S : \A x \in S \ T : T \in W => T \cup {x} \in W
    PROVE  S \in W
<1> DEFINE Bad == {T \in SUBSET S : T \notin W}
<1> SUFFICES ASSUME Bad # {} PROVE FALSE
    OBVIOUS
<1>1. PICK s \in Bad : \A u \in Bad : ~(u \subseteq s /\ u # s)
    <2>1. Bad \subseteq SUBSET S
        OBVIOUS
    <2> HIDE DEF Bad
    <2> QED
        BY <2>1, SmallestSubset
<1>2. PICK x \in s : TRUE
    BY <1>1
<1>3. s \ {x} \in SUBSET S /\ s \ {x} \notin Bad
    BY <1>1, <1>2
<1>4. (s \ {x}) \cup {x} \in W
    BY <1>2, <1>3
<1> QED
    BY <1>1, <1>2, <1>4

(* Induction over the natural numbers, likewise.                           *)
LEMMA NumberInduction ==
    ASSUME NEW W, 0 \in W, \A m \in Nat : m \in W => m + 1 \in W, NEW n \in Nat
    PROVE  n \in W
<1> DEFINE S == 0 .. n
           Below(m) == {x \in S : x < m}
           Bad == {Below(m) : m \in {m \in S : m \notin W}}
<1> SUFFICES ASSUME n \notin W PROVE FALSE
    OBVIOUS
<1>1. IsFiniteSet(S) /\ Bad \subseteq SUBSET S /\ Bad # {}
    <2>1. IsFiniteSet(S)
        BY FS_Interval
    <2>2. Below(n) \in Bad
        OBVIOUS
    <2> QED
        BY <2>1, <2>2
<1>2. PICK s \in Bad : \A u \in Bad : ~(u \subseteq s /\ u # s)
    <2> HIDE DEF Bad, S
    <2> QED
        BY <1>1, SmallestSubset
<1>3. PICK m \in S : m \notin W /\ s = Below(m)
    BY <1>2
<1>4. m # 0 /\ m - 1 \in S /\ m - 1 \notin W
    <2>1. m # 0 /\ m - 1 \in Nat /\ m - 1 \in S
        BY <1>3
    <2>2. m - 1 \in W => (m - 1) + 1 \in W
        BY <2>1
    <2> QED
        BY <1>3, <2>1, <2>2
<1>5. Below(m - 1) \subseteq Below(m) /\ m - 1 \in Below(m) /\ m - 1 \notin Below(m - 1)
    BY <1>4
<1> QED
    BY <1>2, <1>3, <1>4, <1>5

----------------------------------------------------------------------------
(* Sums over finite sets, as the folds of the community modules define     *)
(* them.                                                                   *)

SumOver(f, S) ==
    LET iter[s \in SUBSET S] ==
            IF s = {} THEN 0
            ELSE f[CHOOSE x \in s : TRUE] + iter[s \ {CHOOSE x \in s : TRUE}]
    IN  iter[S]

(* h adds up f over the subsets of S.                                      *)
Adds(h, f, S) ==
    h = [s \in SUBSET S |->
            IF s = {} THEN 0
            ELSE f[CHOOSE x \in s : TRUE] + h[s \ {CHOOSE x \in s : TRUE}]]

LEMMA AddsAlike ==
    ASSUME NEW f, NEW S, IsFiniteSet(S), NEW g, NEW h, Adds(g, f, S), Adds(h, f, S)
    PROVE  g = h
<1> DEFINE Bad == {s \in SUBSET S : g[s] # h[s]}
<1>1. CASE Bad = {}
    BY <1>1 DEF Adds
<1>2. CASE Bad # {}
    <2>1. PICK s \in Bad : \A u \in Bad : ~(u \subseteq s /\ u # s)
        <3>1. Bad \subseteq SUBSET S
            OBVIOUS
        <3> HIDE DEF Bad
        <3> QED
            BY <1>2, <3>1, SmallestSubset
    <2>2. s # {}
        BY <2>1 DEF Adds
    <2> DEFINE x == CHOOSE x \in s : TRUE
    <2>3. x \in s
        BY <2>2
    <2>4. s \ {x} \in SUBSET S /\ s \ {x} \notin Bad
        BY <2>1, <2>3
    <2> HIDE DEF x
    <2>5. g[s \ {x}] = h[s \ {x}]
        BY <2>4
    <2>6. g[s] = f[x] + g[s \ {x}] /\ h[s] = f[x] + h[s \ {x}]
        BY <2>1, <2>2 DEF Adds, x
    <2> QED
        BY <2>1, <2>5, <2>6
<1> QED
    BY <1>1, <1>2

LEMMA AddsRestricted ==
    ASSUME NEW f, NEW S, NEW h, Adds(h, f, S), NEW T \in SUBSET S
    PROVE  Adds([s \in SUBSET T |-> h[s]], f, T)
<1> DEFINE k == [s \in SUBSET T |-> h[s]]
<1>1. ASSUME NEW s \in SUBSET T
      PROVE  k[s] = IF s = {} THEN 0
                    ELSE f[CHOOSE x \in s : TRUE] + k[s \ {CHOOSE x \in s : TRUE}]
    <2>1. s \ {CHOOSE x \in s : TRUE} \in SUBSET T /\ s \in SUBSET S
        OBVIOUS
    <2>2. h[s] = IF s = {} THEN 0
                 ELSE f[CHOOSE x \in s : TRUE] + h[s \ {CHOOSE x \in s : TRUE}]
        BY <2>1 DEF Adds
    <2> QED
        BY <2>1, <2>2
<1> QED
    BY <1>1 DEF Adds

LEMMA AddsExists ==
    ASSUME NEW f, NEW S, IsFiniteSet(S)
    PROVE  \E h : Adds(h, f, S)
<1> DEFINE Bad == {T \in SUBSET S : ~\E h : Adds(h, f, T)}
<1> SUFFICES ASSUME Bad # {} PROVE FALSE
    OBVIOUS
<1>1. PICK T \in Bad : \A u \in Bad : ~(u \subseteq T /\ u # T)
    <2>1. Bad \subseteq SUBSET S
        OBVIOUS
    <2> HIDE DEF Bad
    <2> QED
        BY <2>1, SmallestSubset
<1>2. IsFiniteSet(T) /\ \A s \in SUBSET T : IsFiniteSet(s)
    BY <1>1, FS_Subset
<1> DEFINE H(s) == CHOOSE h : Adds(h, f, s)
           P(s) == CHOOSE x \in s : TRUE
<1>3. \A s \in SUBSET T : s # T => Adds(H(s), f, s)
    <2> SUFFICES ASSUME NEW s \in SUBSET T, s # T PROVE Adds(H(s), f, s)
        OBVIOUS
    <2>1. s \notin Bad
        BY <1>1
    <2>2. \E h : Adds(h, f, s)
        BY <1>1, <2>1
    <2> QED
        BY <2>2
<1> HIDE DEF H
<1> DEFINE k == [s \in SUBSET T |-> IF s = {} THEN 0 ELSE f[P(s)] + H(s \ {P(s)})[s \ {P(s)}]]
<1>4. \A s \in SUBSET T : s # {} => P(s) \in s
    OBVIOUS
<1>5. ASSUME NEW s \in SUBSET T, s # T
      PROVE  k[s] = H(s)[s]
    <2>1. CASE s = {}
        BY <1>3, <1>5, <2>1 DEF Adds
    <2>2. CASE s # {}
        <3> DEFINE u == s \ {P(s)}
        <3>1. u \in SUBSET s /\ u \in SUBSET T /\ u # T
            BY <1>4, <1>5, <2>2
        <3>2. H(s)[s] = f[P(s)] + H(s)[u]
            BY <1>3, <1>5, <2>2 DEF Adds
        <3>3. Adds([v \in SUBSET u |-> H(s)[v]], f, u)
            BY <1>3, <1>5, <3>1, AddsRestricted
        <3>4. Adds(H(u), f, u) /\ IsFiniteSet(u)
            BY <1>2, <1>3, <3>1
        <3>5. H(u) = [v \in SUBSET u |-> H(s)[v]]
            BY <3>3, <3>4, AddsAlike
        <3>6. H(u)[u] = H(s)[u]
            BY <3>5
        <3>7. k[s] = f[P(s)] + H(u)[u]
            BY <2>2
        <3> QED
            BY <3>2, <3>6, <3>7
    <2> QED
        BY <2>1, <2>2
<1>6. ASSUME NEW s \in SUBSET T
      PROVE  k[s] = IF s = {} THEN 0 ELSE f[P(s)] + k[s \ {P(s)}]
    <2>1. CASE s = {}
        BY <2>1
    <2>2. CASE s # {}
        <3>1. s \ {P(s)} \in SUBSET T /\ s \ {P(s)} # T
            BY <1>4, <2>2
        <3>2. k[s \ {P(s)}] = H(s \ {P(s)})[s \ {P(s)}]
            BY <1>5, <3>1
        <3>3. k[s] = f[P(s)] + H(s \ {P(s)})[s \ {P(s)}]
            BY <2>2
        <3> QED
            BY <2>2, <3>2, <3>3
    <2> QED
        BY <2>1, <2>2
<1>7. Adds(k, f, T)
    BY <1>6 DEF Adds
<1> QED
    BY <1>1, <1>7

(* A sum is what any of these functions says of its set.                   *)
LEMMA SumAdds ==
    ASSUME NEW f, NEW S, IsFiniteSet(S), NEW h, Adds(h, f, S), NEW T \in SUBSET S
    PROVE  SumOver(f, T) = h[T]
<1> DEFINE k == [s \in SUBSET T |-> h[s]]
<1>1. IsFiniteSet(T) /\ Adds(k, f, T)
    <2>1. IsFiniteSet(T)
        BY FS_Subset
    <2>2. Adds(k, f, T)
        BY AddsRestricted
    <2> QED
        BY <2>1, <2>2
<1> DEFINE c == CHOOSE g : Adds(g, f, T)
<1>2. Adds(c, f, T)
    BY <1>1
<1> HIDE DEF c
<1>3. c = k
    BY <1>1, <1>2, AddsAlike
<1>4. SumOver(f, T) = c[T]
    BY DEF SumOver, Adds, c
<1> QED
    BY <1>3, <1>4

LEMMA SumEmpty ==
    ASSUME NEW f
    PROVE  SumOver(f, {}) = 0
<1>1. PICK h : Adds(h, f, {})
    BY AddsExists, FS_EmptySet
<1>2. SumOver(f, {}) = h[{}]
    BY <1>1, SumAdds, FS_EmptySet
<1> QED
    BY <1>1, <1>2 DEF Adds

LEMMA SumPick ==
    ASSUME NEW f, NEW S, IsFiniteSet(S), S # {}
    PROVE  \E x \in S : SumOver(f, S) = f[x] + SumOver(f, S \ {x})
<1> DEFINE x == CHOOSE x \in S : TRUE
<1>1. x \in S
    OBVIOUS
<1>2. PICK h : Adds(h, f, S)
    BY AddsExists
<1>3. h[S] = f[x] + h[S \ {x}]
    BY <1>2 DEF Adds
<1> HIDE DEF x
<1>4. SumOver(f, S) = h[S] /\ SumOver(f, S \ {x}) = h[S \ {x}]
    BY <1>2, SumAdds
<1> QED
    BY <1>1, <1>3, <1>4

LEMMA SumInteger ==
    ASSUME NEW f, NEW S, IsFiniteSet(S), \A x \in S : f[x] \in Int
    PROVE  SumOver(f, S) \in Int
<1> DEFINE Bad == {T \in SUBSET S : SumOver(f, T) \notin Int}
<1> SUFFICES ASSUME Bad # {} PROVE FALSE
    OBVIOUS
<1>1. PICK T \in Bad : \A u \in Bad : ~(u \subseteq T /\ u # T)
    <2>1. Bad \subseteq SUBSET S
        OBVIOUS
    <2> HIDE DEF Bad
    <2> QED
        BY <2>1, SmallestSubset
<1>2. T # {} /\ IsFiniteSet(T)
    <2>1. T # {}
        <3>1. SumOver(f, {}) \in Int
            BY SumEmpty
        <3>2. SumOver(f, T) \notin Int
            BY <1>1
        <3> QED
            BY <3>1, <3>2
    <2>2. T \in SUBSET S
        BY <1>1
    <2> QED
        BY <2>1, <2>2, FS_Subset
<1>3. PICK x \in T : SumOver(f, T) = f[x] + SumOver(f, T \ {x})
    BY <1>2, SumPick
<1>4. SumOver(f, T \ {x}) \in Int
    BY <1>1, <1>3
<1> QED
    BY <1>1, <1>3, <1>4

(* Any element may be added first.                                         *)
LEMMA SumRemove ==
    ASSUME NEW f, NEW S, IsFiniteSet(S), \A x \in S : f[x] \in Int, NEW x \in S
    PROVE  SumOver(f, S) = f[x] + SumOver(f, S \ {x})
<1> DEFINE Good(T) == \A y \in T : SumOver(f, T) = f[y] + SumOver(f, T \ {y})
           Bad == {T \in SUBSET S : ~Good(T)}
<1> SUFFICES ASSUME Bad # {} PROVE FALSE
    OBVIOUS
<1>1. PICK T \in Bad : \A u \in Bad : ~(u \subseteq T /\ u # T)
    <2>1. Bad \subseteq SUBSET S
        OBVIOUS
    <2> HIDE DEF Bad
    <2> QED
        BY <2>1, SmallestSubset
<1>2. PICK y \in T : SumOver(f, T) # f[y] + SumOver(f, T \ {y})
    BY <1>1
<1>3. IsFiniteSet(T) /\ T \in SUBSET S
    BY <1>1, FS_Subset
<1>4. PICK z \in T : SumOver(f, T) = f[z] + SumOver(f, T \ {z})
    BY <1>2, <1>3, SumPick
<1>5. y # z
    BY <1>2, <1>4
<1>6. SumOver(f, T \ {z}) = f[y] + SumOver(f, (T \ {z}) \ {y})
    <2>1. T \ {z} \in SUBSET S /\ T \ {z} \notin Bad
        BY <1>1
    <2> QED
        BY <1>2, <1>5, <2>1
<1>7. SumOver(f, T \ {y}) = f[z] + SumOver(f, (T \ {y}) \ {z})
    <2>1. T \ {y} \in SUBSET S /\ T \ {y} \notin Bad
        BY <1>1, <1>2
    <2> QED
        BY <1>4, <1>5, <2>1
<1>8. (T \ {y}) \ {z} = (T \ {z}) \ {y}
    OBVIOUS
<1>9. f[y] \in Int /\ f[z] \in Int /\ SumOver(f, (T \ {z}) \ {y}) \in Int
    <2>1. IsFiniteSet((T \ {z}) \ {y})
        BY <1>3, FS_Subset
    <2>2. \A v \in (T \ {z}) \ {y} : f[v] \in Int
        BY <1>3
    <2> QED
        BY <1>3, <2>1, <2>2, SumInteger
<1>10. SumOver(f, T) = f[z] + (f[y] + SumOver(f, (T \ {z}) \ {y}))
    BY <1>4, <1>6
<1>11. SumOver(f, T) # f[y] + (f[z] + SumOver(f, (T \ {z}) \ {y}))
    BY <1>2, <1>7, <1>8
<1> QED
    BY <1>9, <1>10, <1>11

LEMMA SumAdd ==
    ASSUME NEW f, NEW T, IsFiniteSet(T), NEW x, x \notin T, \A y \in T \cup {x} : f[y] \in Int
    PROVE  SumOver(f, T \cup {x}) = f[x] + SumOver(f, T)
<1>1. IsFiniteSet(T \cup {x}) /\ (T \cup {x}) \ {x} = T
    BY FS_AddElement
<1> QED
    BY <1>1, SumRemove

(* Sums of naturals, term by term.                                         *)
LEMMA SumMonotone ==
    ASSUME NEW f, NEW g, NEW S, IsFiniteSet(S),
           \A x \in S : f[x] \in Int /\ g[x] \in Int /\ f[x] <= g[x]
    PROVE  SumOver(f, S) <= SumOver(g, S)
<1> DEFINE W == {T \in SUBSET S : SumOver(f, T) <= SumOver(g, T)}
<1>1. {} \in W
    BY SumEmpty
<1>2. \A T \in SUBSET S : \A x \in S \ T : T \in W => T \cup {x} \in W
    <2> SUFFICES ASSUME NEW T \in SUBSET S, NEW x \in S \ T,
                        SumOver(f, T) <= SumOver(g, T)
                 PROVE  SumOver(f, T \cup {x}) <= SumOver(g, T \cup {x})
        OBVIOUS
    <2>1. IsFiniteSet(T)
        BY FS_Subset
    <2>2. /\ SumOver(f, T \cup {x}) = f[x] + SumOver(f, T)
          /\ SumOver(g, T \cup {x}) = g[x] + SumOver(g, T)
        BY <2>1, SumAdd
    <2>3. SumOver(f, T) \in Int /\ SumOver(g, T) \in Int
        BY <2>1, SumInteger
    <2> QED
        BY <2>2, <2>3
<1> HIDE DEF W
<1>3. S \in W
    BY <1>1, <1>2, SetInduction
<1> QED
    BY <1>3 DEF W

LEMMA SumSame ==
    ASSUME NEW f, NEW g, NEW S, IsFiniteSet(S),
           \A x \in S : f[x] \in Int /\ g[x] = f[x]
    PROVE  SumOver(g, S) = SumOver(f, S)
<1>1. SumOver(f, S) <= SumOver(g, S) /\ SumOver(g, S) <= SumOver(f, S)
    BY SumMonotone
<1>2. SumOver(f, S) \in Int /\ SumOver(g, S) \in Int
    BY SumInteger
<1> QED
    BY <1>1, <1>2

LEMMA SumPlus ==
    ASSUME NEW f, NEW g, NEW h, NEW S, IsFiniteSet(S),
           \A x \in S : f[x] \in Int /\ g[x] \in Int /\ h[x] = f[x] + g[x]
    PROVE  SumOver(h, S) = SumOver(f, S) + SumOver(g, S)
<1> DEFINE W == {T \in SUBSET S : SumOver(h, T) = SumOver(f, T) + SumOver(g, T)}
<1>1. {} \in W
    BY SumEmpty
<1>2. \A T \in SUBSET S : \A x \in S \ T : T \in W => T \cup {x} \in W
    <2> SUFFICES ASSUME NEW T \in SUBSET S, NEW x \in S \ T,
                        SumOver(h, T) = SumOver(f, T) + SumOver(g, T)
                 PROVE  SumOver(h, T \cup {x}) = SumOver(f, T \cup {x}) + SumOver(g, T \cup {x})
        OBVIOUS
    <2>1. IsFiniteSet(T) /\ \A y \in S : h[y] \in Int
        BY FS_Subset
    <2>2. /\ SumOver(f, T \cup {x}) = f[x] + SumOver(f, T)
          /\ SumOver(g, T \cup {x}) = g[x] + SumOver(g, T)
          /\ SumOver(h, T \cup {x}) = h[x] + SumOver(h, T)
        BY <2>1, SumAdd
    <2>3. SumOver(f, T) \in Int /\ SumOver(g, T) \in Int
        BY <2>1, SumInteger
    <2> QED
        BY <2>2, <2>3
<1> HIDE DEF W
<1>3. S \in W
    BY <1>1, <1>2, SetInduction
<1> QED
    BY <1>3 DEF W

LEMMA SumOfZeros ==
    ASSUME NEW f, NEW S, IsFiniteSet(S), \A x \in S : f[x] = 0
    PROVE  SumOver(f, S) = 0
<1> DEFINE W == {T \in SUBSET S : SumOver(f, T) = 0}
<1>1. {} \in W
    BY SumEmpty
<1>2. \A T \in SUBSET S : \A x \in S \ T : T \in W => T \cup {x} \in W
    <2> SUFFICES ASSUME NEW T \in SUBSET S, NEW x \in S \ T, SumOver(f, T) = 0
                 PROVE  SumOver(f, T \cup {x}) = 0
        OBVIOUS
    <2>1. IsFiniteSet(T)
        BY FS_Subset
    <2> QED
        BY <2>1, SumAdd
<1> HIDE DEF W
<1>3. S \in W
    BY <1>1, <1>2, SetInduction
<1> QED
    BY <1>3 DEF W

(* Only one term counts.                                                   *)
LEMMA SumOfOne ==
    ASSUME NEW f, NEW S, IsFiniteSet(S), NEW x \in S, f[x] \in Int,
           \A y \in S \ {x} : f[y] = 0
    PROVE  SumOver(f, S) = f[x]
<1>1. SumOver(f, S) = f[x] + SumOver(f, S \ {x})
    <2>1. \A y \in S : f[y] \in Int
        OBVIOUS
    <2> QED
        BY <2>1, SumRemove
<1>2. SumOver(f, S \ {x}) = 0
    BY SumOfZeros, FS_Subset
<1> QED
    BY <1>1, <1>2

(* A term is no greater than the sum.                                      *)
LEMMA SumOfNaturals ==
    ASSUME NEW f, NEW S, IsFiniteSet(S), \A x \in S : f[x] \in Nat
    PROVE  /\ SumOver(f, S) \in Nat
           /\ \A x \in S : f[x] <= SumOver(f, S)
           /\ SumOver(f, S) = 0 => \A x \in S : f[x] = 0
<1> DEFINE zero == [x \in S |-> 0]
<1>1. \A T \in SUBSET S : IsFiniteSet(T) /\ SumOver(f, T) \in Nat
    <2> SUFFICES ASSUME NEW T \in SUBSET S
                 PROVE  IsFiniteSet(T) /\ SumOver(f, T) \in Nat
        OBVIOUS
    <2>1. IsFiniteSet(T)
        BY FS_Subset
    <2>2. SumOver(zero, T) = 0
        BY <2>1, SumOfZeros
    <2>3. SumOver(zero, T) <= SumOver(f, T)
        BY <2>1, SumMonotone
    <2>4. SumOver(f, T) \in Int
        BY <2>1, SumInteger
    <2> QED
        BY <2>1, <2>2, <2>3, <2>4
<1>2. ASSUME NEW x \in S
      PROVE  f[x] <= SumOver(f, S)
    <2>1. SumOver(f, S) = f[x] + SumOver(f, S \ {x})
        BY SumRemove
    <2>2. SumOver(f, S \ {x}) \in Nat
        BY <1>1
    <2> QED
        BY <2>1, <2>2
<1> QED
    BY <1>1, <1>2

----------------------------------------------------------------------------
(* Sums over unions, products and images.                                  *)

LEMMA SumDisjoint ==
    ASSUME NEW f, NEW A, NEW B, IsFiniteSet(A), IsFiniteSet(B), A \cap B = {},
           \A x \in A \cup B : f[x] \in Int
    PROVE  SumOver(f, A \cup B) = SumOver(f, A) + SumOver(f, B)
<1> DEFINE W == {T \in SUBSET B : SumOver(f, A \cup T) = SumOver(f, A) + SumOver(f, T)}
<1>1. {} \in W
    <2>1. A \cup {} = A /\ SumOver(f, {}) = 0 /\ SumOver(f, A) \in Int
        BY SumEmpty, SumInteger
    <2> QED
        BY <2>1
<1>2. \A T \in SUBSET B : \A x \in B \ T : T \in W => T \cup {x} \in W
    <2> SUFFICES ASSUME NEW T \in SUBSET B, NEW x \in B \ T,
                        SumOver(f, A \cup T) = SumOver(f, A) + SumOver(f, T)
                 PROVE  SumOver(f, A \cup (T \cup {x})) = SumOver(f, A) + SumOver(f, T \cup {x})
        OBVIOUS
    <2>1. IsFiniteSet(T) /\ IsFiniteSet(A \cup T)
        BY FS_Subset, FS_Union
    <2>2. SumOver(f, T \cup {x}) = f[x] + SumOver(f, T)
        BY <2>1, SumAdd
    <2>3. SumOver(f, (A \cup T) \cup {x}) = f[x] + SumOver(f, A \cup T)
        <3>1. x \notin A \cup T /\ \A y \in (A \cup T) \cup {x} : f[y] \in Int
            OBVIOUS
        <3> QED
            BY <2>1, <3>1, SumAdd
    <2>4. (A \cup T) \cup {x} = A \cup (T \cup {x})
        OBVIOUS
    <2>5. PICK a \in Int, b \in Int, c \in Int :
              a = SumOver(f, A) /\ b = SumOver(f, T) /\ c = f[x]
        BY <2>1, SumInteger
    <2>6. SumOver(f, T \cup {x}) = c + b /\ SumOver(f, A \cup (T \cup {x})) = c + (a + b)
        BY <2>2, <2>3, <2>4, <2>5
    <2>7. c + (a + b) = a + (c + b)
        OBVIOUS
    <2> QED
        BY <2>5, <2>6, <2>7
<1> HIDE DEF W
<1>3. B \in W
    BY <1>1, <1>2, SetInduction
<1> QED
    BY <1>3 DEF W

(* Terms that are zero may be left out.                                    *)
LEMMA SumOutside ==
    ASSUME NEW f, NEW S, IsFiniteSet(S), NEW A \in SUBSET S,
           \A x \in A : f[x] \in Int, \A x \in S \ A : f[x] = 0
    PROVE  SumOver(f, S) = SumOver(f, A)
<1>1. IsFiniteSet(A) /\ IsFiniteSet(S \ A) /\ A \cap (S \ A) = {} /\ A \cup (S \ A) = S
    <2>1. S \ A \in SUBSET S
        OBVIOUS
    <2> QED
        BY <2>1, FS_Subset
<1>2. \A x \in A \cup (S \ A) : f[x] \in Int
    OBVIOUS
<1>3. SumOver(f, S) = SumOver(f, A) + SumOver(f, S \ A)
    <2>1. SumOver(f, A \cup (S \ A)) = SumOver(f, A) + SumOver(f, S \ A)
        BY <1>1, <1>2, SumDisjoint
    <2> QED
        BY <1>1, <2>1
<1>4. SumOver(f, S \ A) = 0 /\ SumOver(f, A) \in Int
    BY <1>1, SumOfZeros, SumInteger
<1> QED
    BY <1>3, <1>4

(* A sum over an image without repetition, and over what contains it when  *)
(* all other terms are zero.                                               *)
LEMMA SumTransport ==
    ASSUME NEW f, NEW g, NEW e, NEW S, NEW T, IsFiniteSet(S), IsFiniteSet(T),
           \A x \in S : f[x] \in Int,
           \A y \in T : e[y] \in S /\ g[y] = f[e[y]],
           \A y, z \in T : e[y] = e[z] => y = z,
           \A x \in S : f[x] # 0 => \E y \in T : e[y] = x
    PROVE  SumOver(f, S) = SumOver(g, T)
<1> DEFINE Img(U) == {e[y] : y \in U}
           W == {U \in SUBSET T : SumOver(f, Img(U)) = SumOver(g, U)}
<1>1. {} \in W
    <2>1. Img({}) = {}
        OBVIOUS
    <2> QED
        BY <2>1, SumEmpty
<1>2. \A U \in SUBSET T : \A y \in T \ U : U \in W => U \cup {y} \in W
    <2> SUFFICES ASSUME NEW U \in SUBSET T, NEW y \in T \ U,
                        SumOver(f, Img(U)) = SumOver(g, U)
                 PROVE  SumOver(f, Img(U \cup {y})) = SumOver(g, U \cup {y})
        OBVIOUS
    <2>1. Img(U \cup {y}) = Img(U) \cup {e[y]} /\ e[y] \notin Img(U)
        OBVIOUS
    <2>2. IsFiniteSet(U) /\ IsFiniteSet(Img(U)) /\ Img(U) \in SUBSET S
        <3>1. Img(U) \in SUBSET S
            OBVIOUS
        <3> QED
            BY <3>1, FS_Subset
    <2>3. \A z \in U \cup {y} : g[z] \in Int
        OBVIOUS
    <2>4. \A x \in Img(U) \cup {e[y]} : f[x] \in Int
        OBVIOUS
    <2> HIDE DEF Img
    <2>5. SumOver(g, U \cup {y}) = g[y] + SumOver(g, U)
        BY <2>2, <2>3, SumAdd
    <2>6. SumOver(f, Img(U) \cup {e[y]}) = f[e[y]] + SumOver(f, Img(U))
        BY <2>1, <2>2, <2>4, SumAdd
    <2> QED
        BY <2>1, <2>5, <2>6
<1> HIDE DEF W
<1>3. T \in W
    BY <1>1, <1>2, SetInduction
<1>4. SumOver(f, Img(T)) = SumOver(g, T)
    BY <1>3 DEF W
<1>5. Img(T) \in SUBSET S /\ \A x \in Img(T) : f[x] \in Int
    OBVIOUS
<1>6. \A x \in S \ Img(T) : f[x] = 0
    OBVIOUS
<1> HIDE DEF Img
<1>7. SumOver(f, S) = SumOver(f, Img(T))
    BY <1>5, <1>6, SumOutside
<1> QED
    BY <1>4, <1>7

(* A sum over a part of the terms.                                         *)
LEMMA SumOfSome ==
    ASSUME NEW f, NEW S, IsFiniteSet(S), \A x \in S : f[x] \in Nat, NEW A \in SUBSET S
    PROVE  SumOver(f, A) <= SumOver(f, S)
<1>1. IsFiniteSet(A) /\ IsFiniteSet(S \ A) /\ A \cap (S \ A) = {} /\ A \cup (S \ A) = S
    <2>1. S \ A \in SUBSET S
        OBVIOUS
    <2> QED
        BY <2>1, FS_Subset
<1>2. SumOver(f, A \cup (S \ A)) = SumOver(f, A) + SumOver(f, S \ A)
    <2>1. \A x \in A \cup (S \ A) : f[x] \in Int
        OBVIOUS
    <2> QED
        BY <1>1, <2>1, SumDisjoint
<1>3. SumOver(f, A) \in Nat /\ SumOver(f, S \ A) \in Nat
    <2>1. (\A x \in A : f[x] \in Nat) /\ \A x \in S \ A : f[x] \in Nat
        OBVIOUS
    <2> QED
        BY <1>1, <2>1, SumOfNaturals
<1>4. SumOver(f, S) = SumOver(f, A) + SumOver(f, S \ A)
    BY <1>1, <1>2
<1>5. PICK a \in Nat, b \in Nat : a = SumOver(f, A) /\ b = SumOver(f, S \ A)
    BY <1>3
<1> QED
    BY <1>4, <1>5

(* Different terms of a sum, picked out by e, are together no greater.     *)
LEMMA SumInjected ==
    ASSUME NEW f, NEW g, NEW e, NEW S, NEW T, IsFiniteSet(S), IsFiniteSet(T),
           \A x \in S : f[x] \in Nat,
           \A y \in T : e[y] \in S /\ g[y] = f[e[y]],
           \A y, z \in T : e[y] = e[z] => y = z
    PROVE  SumOver(g, T) <= SumOver(f, S)
<1> DEFINE A == {e[y] : y \in T}
<1>1. A \in SUBSET S
    OBVIOUS
<1>2. IsFiniteSet(A) /\ SumOver(f, A) <= SumOver(f, S)
    <2> HIDE DEF A
    <2> QED
        BY <1>1, FS_Subset, SumOfSome
<1>3. \A x \in A : f[x] \in Int
    OBVIOUS
<1>4. \A y \in T : e[y] \in A /\ g[y] = f[e[y]]
    OBVIOUS
<1>5. \A x \in A : f[x] # 0 => \E y \in T : e[y] = x
    OBVIOUS
<1> HIDE DEF A
<1>6. SumOver(f, A) = SumOver(g, T)
    BY <1>2, <1>3, <1>4, <1>5, SumTransport
<1> QED
    BY <1>2, <1>6

(* A sum over pairs, first component by first component.                   *)
LEMMA SumOfPairs ==
    ASSUME NEW f, NEW S, NEW T, IsFiniteSet(S), IsFiniteSet(T),
           \A x \in S, y \in T : f[<<x, y>>] \in Int,
           NEW row, \A x \in S, y \in T : row[x][y] = f[<<x, y>>],
           NEW F, \A x \in S : F[x] = SumOver(row[x], T)
    PROVE  SumOver(f, S \X T) = SumOver(F, S)
<1> DEFINE W == {U \in SUBSET S : SumOver(f, U \X T) = SumOver(F, U)}
<1>1. {} \in W
    <2>1. {} \X T = {}
        OBVIOUS
    <2> QED
        BY <2>1, SumEmpty
<1>2. \A x \in S : SumOver(f, {x} \X T) = F[x] /\ F[x] \in Int
    <2> SUFFICES ASSUME NEW x \in S
                 PROVE  SumOver(f, {x} \X T) = F[x] /\ F[x] \in Int
        OBVIOUS
    <2> DEFINE e == [y \in T |-> <<x, y>>]
               P == {x} \X T
               g == row[x]
    <2>1. IsFiniteSet(P)
        BY FS_Singleton, FS_Product
    <2>2. \A p \in P : f[p] \in Int /\ \E y \in T : e[y] = p
        OBVIOUS
    <2>3. \A y \in T : e[y] \in P /\ g[y] = f[e[y]]
        OBVIOUS
    <2>4. \A y, z \in T : e[y] = e[z] => y = z
        OBVIOUS
    <2>5. F[x] = SumOver(g, T) /\ \A y \in T : g[y] \in Int
        OBVIOUS
    <2> HIDE DEF e, P, g
    <2>6. SumOver(f, P) = SumOver(g, T)
        BY <2>1, <2>2, <2>3, <2>4, SumTransport
    <2>7. SumOver(g, T) \in Int
        BY <2>5, SumInteger
    <2> QED
        BY <2>5, <2>6, <2>7 DEF P
<1>3. \A U \in SUBSET S : \A x \in S \ U : U \in W => U \cup {x} \in W
    <2> SUFFICES ASSUME NEW U \in SUBSET S, NEW x \in S \ U,
                        SumOver(f, U \X T) = SumOver(F, U)
                 PROVE  SumOver(f, (U \cup {x}) \X T) = SumOver(F, U \cup {x})
        OBVIOUS
    <2> DEFINE A == U \X T
               B == {x} \X T
    <2>1. (U \cup {x}) \X T = A \cup B /\ A \cap B = {}
        OBVIOUS
    <2>2. IsFiniteSet(U) /\ IsFiniteSet(A) /\ IsFiniteSet(B)
        BY FS_Subset, FS_Singleton, FS_Product
    <2>3. \A p \in A \cup B : f[p] \in Int
        OBVIOUS
    <2>4. SumOver(f, A \cup B) = SumOver(f, A) + SumOver(f, B)
        <3> HIDE DEF A, B
        <3> QED
            BY <2>1, <2>2, <2>3, SumDisjoint
    <2>5. SumOver(F, U \cup {x}) = F[x] + SumOver(F, U)
        BY <1>2, <2>2, SumAdd
    <2>6. SumOver(F, U) \in Int
        BY <1>2, <2>2, SumInteger
    <2>7. SumOver(f, B) = F[x] /\ F[x] \in Int
        BY <1>2
    <2>8. SumOver(f, A) = SumOver(F, U)
        OBVIOUS
    <2> HIDE DEF A, B
    <2>9. PICK a \in Int, b \in Int : a = SumOver(F, U) /\ b = F[x]
        BY <2>6, <2>7
    <2>10. SumOver(f, (U \cup {x}) \X T) = a + b
        BY <2>1, <2>4, <2>7, <2>8, <2>9
    <2>11. SumOver(F, U \cup {x}) = b + a
        BY <2>5, <2>9
    <2> QED
        BY <2>10, <2>11
<1> HIDE DEF W
<1>4. S \in W
    BY <1>1, <1>3, SetInduction
<1> QED
    BY <1>4 DEF W

(* And second component by second component.                               *)
LEMMA SumOfPairsSwapped ==
    ASSUME NEW f, NEW S, NEW T, IsFiniteSet(S), IsFiniteSet(T),
           \A x \in S, y \in T : f[<<x, y>>] \in Int,
           NEW col, \A x \in S, y \in T : col[y][x] = f[<<x, y>>],
           NEW F, \A y \in T : F[y] = SumOver(col[y], S)
    PROVE  SumOver(f, S \X T) = SumOver(F, T)
<1> DEFINE e == [p \in T \X S |-> <<p[2], p[1]>>]
           g == [p \in T \X S |-> f[<<p[2], p[1]>>]]
           P == S \X T
           Q == T \X S
<1>1. IsFiniteSet(P) /\ IsFiniteSet(Q)
    BY FS_Product
<1>2. \A p \in P : f[p] \in Int
    OBVIOUS
<1>3. \A p \in Q : e[p] \in P /\ g[p] = f[e[p]]
    OBVIOUS
<1>4. \A p, r \in Q : e[p] = e[r] => p = r
    OBVIOUS
<1>5. \A p \in P : \E r \in Q : e[r] = p
    <2> SUFFICES ASSUME NEW p \in P PROVE \E r \in Q : e[r] = p
        OBVIOUS
    <2>1. <<p[2], p[1]>> \in Q /\ e[<<p[2], p[1]>>] = p
        OBVIOUS
    <2> QED
        BY <2>1
<1>6. \A y \in T, x \in S : g[<<y, x>>] \in Int /\ col[y][x] = g[<<y, x>>]
    OBVIOUS
<1> HIDE DEF e, g, P, Q
<1>7. SumOver(f, P) = SumOver(g, Q)
    BY <1>1, <1>2, <1>3, <1>4, <1>5, SumTransport
<1>8. SumOver(g, T \X S) = SumOver(F, T)
    BY <1>6, SumOfPairs
<1> QED
    BY <1>7, <1>8 DEF P, Q

(* The terms of a sum may be reduced modulo t before they are added.       *)
LEMMA SumReduced ==
    ASSUME NEW t \in Nat \ {0}, NEW f, NEW g, NEW S, IsFiniteSet(S),
           \A x \in S : f[x] \in Int /\ g[x] = f[x] % t
    PROVE  SumOver(g, S) % t = SumOver(f, S) % t
<1> DEFINE W == {T \in SUBSET S : SumOver(g, T) % t = SumOver(f, T) % t}
<1>1. {} \in W
    BY SumEmpty
<1>2. \A T \in SUBSET S : \A x \in S \ T : T \in W => T \cup {x} \in W
    <2> SUFFICES ASSUME NEW T \in SUBSET S, NEW x \in S \ T,
                        SumOver(g, T) % t = SumOver(f, T) % t
                 PROVE  SumOver(g, T \cup {x}) % t = SumOver(f, T \cup {x}) % t
        OBVIOUS
    <2>1. IsFiniteSet(T) /\ \A y \in S : f[y] \in Int /\ g[y] \in Int
        BY FS_Subset
    <2>2. /\ SumOver(f, T \cup {x}) = f[x] + SumOver(f, T)
          /\ SumOver(g, T \cup {x}) = g[x] + SumOver(g, T)
        BY <2>1, SumAdd
    <2>3. PICK a \in Int, b \in Int, c \in Int :
              a = SumOver(f, T) /\ b = SumOver(g, T) /\ c = f[x]
        BY <2>1, SumInteger
    <2>4. ((c % t) + b) % t = (c + b) % t
        BY ModPlus
    <2>5. (b + c) % t = ((b % t) + c) % t /\ (a + c) % t = ((a % t) + c) % t
        BY ModPlus
    <2>6. b % t = a % t
        BY <2>3
    <2>7. (c + b) % t = (c + a) % t
        BY <2>5, <2>6
    <2> QED
        BY <2>2, <2>3, <2>4, <2>7
<1> HIDE DEF W
<1>3. S \in W
    BY <1>1, <1>2, SetInduction
<1> QED
    BY <1>3 DEF W
----------------------------------------------------------------------------
(* Divisibility, powers, least numbers.                                    *)

(* What is not empty has a least member.                                   *)
LEMMA SmallestNumber ==
    ASSUME NEW W, W \subseteq Nat, W # {}
    PROVE  \E x \in W : \A y \in W : x <= y
<1> DEFINE Low == {m \in Nat : \A y \in W : m <= y}
<1> SUFFICES ASSUME \A x \in W : \E y \in W : ~(x <= y) PROVE FALSE
    OBVIOUS
<1>1. 0 \in Low
    OBVIOUS
<1>2. ASSUME NEW m \in Nat, m \in Low
      PROVE  m + 1 \in Low
    <2>1. m \notin W
        BY <1>2
    <2>2. \A y \in W : m <= y /\ m # y /\ y \in Nat
        BY <1>2, <2>1
    <2> QED
        BY <2>2
<1>3. PICK x \in W : x \in Nat
    OBVIOUS
<1>4. x + 1 \in Low
    <2> HIDE DEF Low
    <2> QED
        BY <1>1, <1>2, <1>3, NumberInduction
<1> QED
    BY <1>3, <1>4

LEMMA MultipleOrNot ==
    ASSUME NEW t \in Nat \ {0}, NEW x \in Int
    PROVE  /\ x % t = 0 => \E k \in Int : x = t * k
           /\ \A k \in Int : (t * k) % t = 0
<1>1. x \div t \in Int /\ x = t * (x \div t) + (x % t) /\ x % t \in 0 .. t - 1
    OBVIOUS
<1>2. x % t = 0 => x = t * (x \div t)
    BY <1>1
<1>3. ASSUME NEW k \in Int
      PROVE  (t * k) % t = 0
    <2>1. (t * k + 0) % t = 0
        BY ModOfMultiple
    <2>2. t * k + 0 = t * k
        OBVIOUS
    <2> QED
        BY <2>1, <2>2
<1> QED
    BY <1>1, <1>2, <1>3

(* Multiples are closed under the step of Euclid's algorithm.              *)
LEMMA MultipleMinus ==
    ASSUME NEW t \in Nat \ {0}, NEW x \in Int, NEW y \in Int, NEW c \in Int,
           x % t = 0, y % t = 0
    PROVE  (x - c * y) % t = 0 /\ (x + c * y) % t = 0
<1>1. PICK k \in Int, l \in Int : x = t * k /\ y = t * l
    BY MultipleOrNot
<1>2. x - c * y = t * (k - c * l) /\ x + c * y = t * (k + c * l)
    BY <1>1
<1>3. k - c * l \in Int /\ k + c * l \in Int
    BY <1>1
<1> QED
    BY <1>2, <1>3, MultipleOrNot

(* A prime does not divide the product of two residues.                    *)
LEMMA PrimeDividesNoProduct ==
    ASSUME NEW m \in Nat, m > 1, \A d \in 2 .. m - 1 : m % d # 0,
           NEW a \in 1 .. m - 1, NEW b \in 1 .. m - 1
    PROVE  (a * b) % m # 0
<1> DEFINE Bad == {x \in 1 .. m - 1 : (x * b) % m = 0}
<1> SUFFICES ASSUME Bad # {} PROVE FALSE
    OBVIOUS
<1>1. PICK x \in Bad : \A y \in Bad : x <= y
    <2>1. Bad \subseteq Nat
        OBVIOUS
    <2> HIDE DEF Bad
    <2> QED
        BY <2>1, SmallestNumber
<1>2. x \in 1 .. m - 1 /\ (x * b) % m = 0
    BY <1>1
<1>3. CASE x = 1
    <2>1. x * b = b
        BY <1>3
    <2>2. b % m = b
        OBVIOUS
    <2> QED
        BY <1>2, <2>1, <2>2
<1>4. CASE x # 1
    <2> DEFINE q == m \div x
               s == m % x
    <2>1. q \in Int /\ s \in 0 .. x - 1 /\ m = x * q + s
        <3>1. x \in Nat \ {0}
            BY <1>2
        <3> QED
            BY <3>1
    <2>2. s # 0
        <3>1. x \in 2 .. m - 1
            BY <1>2, <1>4
        <3>2. m % x # 0
            BY <3>1
        <3> QED
            BY <3>2
    <2> HIDE DEF q, s
    <2>3. s * b = b * m - q * (x * b)
        <3>1. s = m - x * q
            BY <1>2, <2>1
        <3>2. (m - x * q) * b = b * m - q * (x * b)
            BY <1>2, <2>1
        <3> QED
            BY <3>1, <3>2
    <2>4. (b * m) % m = 0
        <3>1. b * m = m * b
            OBVIOUS
        <3> QED
            BY <3>1, MultipleOrNot
    <2>5. PICK u \in Int, v \in Int : u = b * m /\ v = x * b
        <3>1. b * m \in Int /\ x * b \in Int
            BY <1>2
        <3> QED
            BY <3>1
    <2>6. (u - q * v) % m = 0
        <3>1. u % m = 0 /\ v % m = 0 /\ q \in Int /\ m \in Nat \ {0}
            BY <1>2, <2>1, <2>4, <2>5
        <3> QED
            BY <2>5, <3>1, MultipleMinus
    <2>7. (s * b) % m = 0
        BY <2>3, <2>5, <2>6
    <2>8. s \in Bad /\ s < x
        BY <1>2, <2>1, <2>2, <2>7
    <2> QED
        BY <1>1, <1>2, <2>1, <2>8
<1> QED
    BY <1>3, <1>4

LEMMA SumScaled ==
    ASSUME NEW f, NEW g, NEW c \in Int, NEW S, IsFiniteSet(S),
           \A x \in S : f[x] \in Int /\ g[x] = c * f[x]
    PROVE  SumOver(g, S) = c * SumOver(f, S)
<1> DEFINE W == {U \in SUBSET S : SumOver(g, U) = c * SumOver(f, U)}
<1>1. {} \in W
    BY SumEmpty
<1>2. ASSUME NEW U \in SUBSET S, NEW x \in S \ U, U \in W
      PROVE  U \cup {x} \in W
    <2>1. IsFiniteSet(U) /\ x \notin U /\ U \cup {x} \in SUBSET S
        BY FS_Subset
    <2>2. (\A y \in U \cup {x} : f[y] \in Int) /\ (\A y \in U \cup {x} : g[y] \in Int)
        OBVIOUS
    <2>3. SumOver(f, U \cup {x}) = f[x] + SumOver(f, U)
        BY <2>1, <2>2, SumAdd
    <2>4. SumOver(g, U \cup {x}) = g[x] + SumOver(g, U)
        BY <2>1, <2>2, SumAdd
    <2>5. SumOver(f, U) \in Int
        BY <2>1, <2>2, SumInteger
    <2>6. PICK a \in Int, b \in Int : a = f[x] /\ b = SumOver(f, U)
        BY <2>5
    <2>7. g[x] = c * a /\ SumOver(g, U) = c * b
        BY <1>2, <2>6
    <2>8. c * a + c * b = c * (a + b)
        OBVIOUS
    <2> QED
        BY <2>1, <2>3, <2>4, <2>6, <2>7, <2>8
<1> HIDE DEF W
<1>3. S \in W
    BY <1>1, <1>2, SetInduction
<1> QED
    BY <1>3 DEF W

(* h repeats the function G, starting from a.                              *)
Iterates(h, a, G, S) == \A e \in S : h[e] = IF e = 0 THEN a ELSE G[h[e - 1]]

LEMMA IterationTo ==
    ASSUME NEW a, NEW G, NEW m \in Nat
    PROVE  \E h : Iterates(h, a, G, 0 .. m)
<1> DEFINE W == {k \in Nat : \E h : Iterates(h, a, G, 0 .. k)}
<1>1. 0 \in W
    <2> DEFINE h == [e \in 0 .. 0 |-> a]
    <2>1. \A e \in 0 .. 0 : h[e] = IF e = 0 THEN a ELSE G[h[e - 1]]
        OBVIOUS
    <2> HIDE DEF h
    <2>2. Iterates(h, a, G, 0 .. 0)
        BY <2>1 DEF Iterates
    <2> QED
        BY <2>2
<1>2. ASSUME NEW k \in Nat, k \in W
      PROVE  k + 1 \in W
    <2>1. PICK g : Iterates(g, a, G, 0 .. k)
        BY <1>2
    <2> DEFINE h == [e \in 0 .. k + 1 |-> IF e = k + 1 THEN G[g[k]] ELSE g[e]]
    <2>2. ASSUME NEW e \in 0 .. k + 1
          PROVE  h[e] = IF e = 0 THEN a ELSE G[h[e - 1]]
        <3>1. CASE e = k + 1
            <4>1. e - 1 = k /\ e # 0 /\ k \in 0 .. k + 1 /\ k # k + 1
                BY <3>1
            <4> QED
                BY <3>1, <4>1
        <3>2. CASE e # k + 1
            <4>1. e \in 0 .. k /\ (e # 0 => e - 1 \in 0 .. k + 1 /\ e - 1 # k + 1)
                BY <3>2
            <4>2. g[e] = IF e = 0 THEN a ELSE G[g[e - 1]]
                BY <2>1, <4>1 DEF Iterates
            <4> QED
                BY <3>2, <4>1, <4>2
        <3> QED
            BY <3>1, <3>2
    <2> HIDE DEF h
    <2>3. Iterates(h, a, G, 0 .. k + 1)
        BY <2>2 DEF Iterates
    <2> QED
        BY <2>3
<1> HIDE DEF W
<1>3. m \in W
    BY <1>1, <1>2, NumberInduction
<1> QED
    BY <1>3 DEF W

LEMMA IterationsAgree ==
    ASSUME NEW a, NEW G, NEW m \in Nat, NEW k \in Nat, NEW g, NEW h,
           Iterates(g, a, G, 0 .. m), Iterates(h, a, G, 0 .. k), NEW e \in Nat, e <= m, e <= k
    PROVE  g[e] = h[e]
<1> DEFINE W == {d \in Nat : d <= m /\ d <= k => g[d] = h[d]}
<1>1. 0 \in W
    <2>1. 0 \in 0 .. m /\ 0 \in 0 .. k
        OBVIOUS
    <2> QED
        BY <2>1 DEF Iterates
<1>2. ASSUME NEW d \in Nat, d \in W
      PROVE  d + 1 \in W
    <2> SUFFICES ASSUME d + 1 <= m, d + 1 <= k
                 PROVE  g[d + 1] = h[d + 1]
        OBVIOUS
    <2>1. g[d] = h[d] /\ d + 1 \in 0 .. m /\ d + 1 \in 0 .. k /\ (d + 1) - 1 = d /\ d + 1 # 0
        BY <1>2
    <2>2. g[d + 1] = G[g[d]] /\ h[d + 1] = G[h[d]]
        BY <2>1 DEF Iterates
    <2> QED
        BY <2>1, <2>2
<1> HIDE DEF W
<1>3. e \in W
    BY <1>1, <1>2, NumberInduction
<1> QED
    BY <1>3 DEF W

(* A function that maps a set into itself can be repeated without end.     *)
LEMMA IterationExists ==
    ASSUME NEW V, NEW a \in V, NEW G \in [V -> V]
    PROVE  \E h \in [Nat -> V] : Iterates(h, a, G, Nat)
<1> DEFINE H(m) == CHOOSE g : Iterates(g, a, G, 0 .. m)
           h == [e \in Nat |-> H(e)[e]]
<1>1. \A m \in Nat : Iterates(H(m), a, G, 0 .. m)
    BY IterationTo
<1> HIDE DEF H
<1>2. ASSUME NEW e \in Nat
      PROVE  h[e] = IF e = 0 THEN a ELSE G[h[e - 1]]
    <2>1. H(e)[e] = IF e = 0 THEN a ELSE G[H(e)[e - 1]]
        BY <1>1 DEF Iterates
    <2>2. CASE e = 0
        BY <2>1, <2>2
    <2>3. CASE e # 0
        <3>1. PICK d \in Nat : d = e - 1 /\ d <= e
            BY <2>3
        <3>2. Iterates(H(e), a, G, 0 .. e) /\ Iterates(H(d), a, G, 0 .. d) /\ d <= d
            BY <1>1, <3>1
        <3>3. H(e)[d] = H(d)[d]
            BY <3>1, <3>2, IterationsAgree
        <3> QED
            BY <2>1, <2>3, <3>1, <3>3
    <2> QED
        BY <2>2, <2>3
<1>3. DOMAIN h = Nat /\ h = [e \in Nat |-> h[e]]
    OBVIOUS
<1> HIDE DEF h
<1>4. Iterates(h, a, G, Nat)
    BY <1>2 DEF Iterates
<1> DEFINE W == {e \in Nat : h[e] \in V}
<1>5. ASSUME NEW e \in Nat PROVE h[e] \in V
    <2>1. 0 \in W
        BY <1>2
    <2>2. ASSUME NEW d \in Nat, d \in W
          PROVE  d + 1 \in W
        <3>1. d + 1 # 0 /\ (d + 1) - 1 = d /\ d + 1 \in Nat
            OBVIOUS
        <3>2. h[d + 1] = G[h[d]]
            BY <1>2, <3>1
        <3> QED
            BY <2>2, <3>1, <3>2
    <2> HIDE DEF W
    <2>3. e \in W
        BY <2>1, <2>2, NumberInduction
    <2> QED
        BY <2>3 DEF W
<1>6. h \in [Nat -> V]
    BY <1>3, <1>5
<1> QED
    BY <1>4, <1>6

(* h holds the powers of x.                                                *)
PowersOf(h, x) == h = [e \in Nat |-> IF e = 0 THEN 1 ELSE x * h[e - 1]]

LEMMA PowersExist ==
    ASSUME NEW x \in Int
    PROVE  \E h : PowersOf(h, x)
<1> DEFINE G == [v \in Int |-> x * v]
<1>1. G \in [Int -> Int] /\ 1 \in Int
    OBVIOUS
<1> HIDE DEF G
<1>2. PICK h \in [Nat -> Int] : Iterates(h, 1, G, Nat)
    <2>1. PICK a \in Int : a = 1
        OBVIOUS
    <2> QED
        BY <1>1, <2>1, IterationExists
<1>3. ASSUME NEW e \in Nat
      PROVE  h[e] = IF e = 0 THEN 1 ELSE x * h[e - 1]
    <2>1. h[e] = IF e = 0 THEN 1 ELSE G[h[e - 1]]
        BY <1>2 DEF Iterates
    <2>2. e # 0 => h[e - 1] \in Int
        OBVIOUS
    <2> QED
        BY <2>1, <2>2 DEF G
<1>4. h = [e \in Nat |-> IF e = 0 THEN 1 ELSE x * h[e - 1]]
    BY <1>3
<1> QED
    BY <1>4 DEF PowersOf

LEMMA PowersAre ==
    ASSUME NEW x \in Int, NEW h, PowersOf(h, x)
    PROVE  /\ h[0] = 1
           /\ \A e \in Nat : h[e] \in Int /\ h[e + 1] = x * h[e]
<1> DEFINE W == {e \in Nat : h[e] \in Int}
<1>1. \A e \in Nat : h[e] = IF e = 0 THEN 1 ELSE x * h[e - 1]
    BY DEF PowersOf
<1>2. \A e \in Nat : h[e + 1] = x * h[e]
    <2> SUFFICES ASSUME NEW e \in Nat PROVE h[e + 1] = x * h[e]
        OBVIOUS
    <2>1. e + 1 \in Nat /\ e + 1 # 0 /\ (e + 1) - 1 = e
        OBVIOUS
    <2> QED
        BY <1>1, <2>1
<1>3. h[0] = 1 /\ 0 \in W
    BY <1>1
<1>4. ASSUME NEW e \in Nat, e \in W
      PROVE  e + 1 \in W
    BY <1>2, <1>4
<1>5. ASSUME NEW e \in Nat PROVE h[e] \in Int
    <2> HIDE DEF W
    <2>1. e \in W
        BY <1>3, <1>4, NumberInduction
    <2> QED
        BY <2>1 DEF W
<1> QED
    BY <1>2, <1>3, <1>5
=============================================================================
