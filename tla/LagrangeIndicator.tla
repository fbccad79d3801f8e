------------------------- MODULE LagrangeIndicator -------------------------
(***************************************************************************)
(* lagrangeIndicatorCoefficients of src/helpers.go, with the modular       *)
(* arithmetic and the extended Euclidean algorithm below it: loop by loop, *)
(* the polynomial that is one on the majorities among 0 .. T and zero on   *)
(* the other counts.  Words wrap at 2^WordBits, in modMul too, which is    *)
(* exact only if the square of the modulus fits: no modulus is left out    *)
(* for that, the properties say how far they reach.                        *)
(***************************************************************************)
EXTENDS Integers

Sets == INSTANCE FiniteSetsExt

CONSTANTS
    Moduli,      \* plaintext moduli considered
    MaxPeriods,  \* bound on T
    WordBits     \* 64 in the code

IsPrime(m) == m > 1 /\ \A d \in 2 .. m - 1 : m % d # 0

Word == 2 ^ WordBits

(* A plaintext modulus is prime and a word: no assertion bounds it further. *)
ASSUME WordAssumption == WordBits \in Nat
ASSUME ModuliAssumption == \A m \in Moduli : m \in Nat /\ IsPrime(m) /\ m < Word

VARIABLES
    modulus, T,
    i, j,              \* node of the outer loop, factor of the inner one
    basis,             \* coefficients of the product over the nodes before j
    denominator,
    coeffs,            \* coefficients of the result
    t, newT, r, newR,  \* locals of modInverse
    pc

euclid == <<t, newT, r, newR>>
lagrange == <<modulus, T, i, j, basis, denominator, coeffs, euclid, pc>>

Residue == 0 .. modulus - 1

(* The conversions of words: to an unsigned one, and to a signed one.      *)
Unsigned(v) == v % Word
Signed(v) == IF 2 * Unsigned(v) < Word THEN Unsigned(v) ELSE Unsigned(v) - Word

(* Go's division drops the fraction, and its remainder has the sign of the *)
(* dividend.                                                               *)
Magnitude(v) == IF v < 0 THEN -v ELSE v
GoQuotient(v, m) ==
    LET quotient == Magnitude(v) \div Magnitude(m)
    IN  IF (v < 0) = (m < 0) THEN quotient ELSE -quotient
GoRemainder(v, m) ==
    IF v < 0 THEN -((-v) % Magnitude(m)) ELSE v % Magnitude(m)

(* A slip: Go's remainder taken for the residue.                           *)
RemainderOnly(v) == Unsigned(GoRemainder(v, Signed(modulus)))

modReduceSigned(v) ==
    LET vm == GoRemainder(v, Signed(modulus))
    IN  Unsigned(IF vm < 0 THEN vm + Signed(modulus) ELSE vm)

(* A slip: a sum is left unreduced.                                        *)
Unreduced(a, b) == Unsigned(a + b)

modAdd(a, b) == Unsigned(a + b) % modulus

(* A slip: the product is a signed word, so it wraps at half as much.      *)
SignedProduct(a, b) == Unsigned(GoRemainder(Signed(a * b), Signed(modulus)))

modMul(a, b) == Unsigned(a * b) % modulus

(* The polynomial times (x - node).                                        *)
NextBasis(node) ==
    LET negJ == modReduceSigned(-node)
        scaled(e) == IF e \in DOMAIN basis THEN modMul(basis[e], negJ) ELSE 0
        shifted(e) == IF e - 1 \in DOMAIN basis THEN basis[e - 1] ELSE 0
    IN  [e \in DOMAIN basis \cup {Sets!Max(DOMAIN basis) + 1} |-> modAdd(scaled(e), shifted(e))]

(* A slip: half of the periods counts as a majority.                       *)
BelowHalf(node) == node < T \div 2

Skipped(node) == node <= T \div 2

(* A slip: the node itself is not left out of the product.                 *)
LeavesOutTheNext(node) == node = i + 1

LeftOut(node) == node = i

LagrangeInit ==
    /\ modulus \in Moduli /\ T \in 0 .. MaxPeriods /\ T < modulus
    /\ i = 0 /\ j = 0 /\ basis = [e \in {0} |-> 1] /\ denominator = 1
    /\ coeffs = [e \in 0 .. T |-> 0]
    /\ t = 0 /\ newT = 1 /\ r = 0 /\ newR = 0
    /\ pc = "node"

Skip ==
    /\ pc = "node" /\ i <= T /\ Skipped(i)
    /\ i' = i + 1
    /\ UNCHANGED <<modulus, T, j, basis, denominator, coeffs, euclid, pc>>

Node ==
    /\ pc = "node" /\ i <= T /\ ~Skipped(i)
    /\ j' = 0 /\ basis' = [e \in {0} |-> 1] /\ denominator' = 1
    /\ pc' = "factors"
    /\ UNCHANGED <<modulus, T, i, coeffs, euclid>>

Factor ==
    /\ pc = "factors" /\ j <= T
    /\ j' = j + 1
    /\ IF LeftOut(j)
       THEN UNCHANGED <<basis, denominator>>
       ELSE /\ basis' = NextBasis(j)
            /\ denominator' = modMul(denominator, modReduceSigned(i - j))
    /\ UNCHANGED <<modulus, T, i, coeffs, euclid, pc>>

(* modInverse(denominator) is called.                                      *)
Invert ==
    /\ pc = "factors" /\ j > T
    /\ t' = 0 /\ newT' = 1
    /\ r' = Signed(modulus) /\ newR' = Signed(denominator % modulus)
    /\ pc' = "inverse"
    /\ UNCHANGED <<modulus, T, i, j, basis, denominator, coeffs>>

(* A slip: the old cofactor is subtracted from the new one.                *)
SwappedCofactor(quotient) == Signed(newT - quotient * t)

NextCofactor(quotient) == Signed(t - quotient * newT)

Divide ==
    /\ pc = "inverse" /\ newR # 0
    /\ LET quotient == GoQuotient(r, newR)
       IN  /\ t' = newT /\ newT' = NextCofactor(quotient)
           /\ r' = newR /\ newR' = Signed(r - quotient * newR)
    /\ UNCHANGED <<modulus, T, i, j, basis, denominator, coeffs, pc>>

(* What modInverse returns.                                                *)
modInverse == Unsigned(IF t < 0 THEN t + Signed(modulus) ELSE t)

(* Past modInverse's assertion the basis polynomial is scaled and added.   *)
AddBasis ==
    /\ pc = "inverse" /\ newR = 0 /\ r = 1
    /\ coeffs' = [e \in 0 .. T |-> modAdd(coeffs[e], modMul(basis[e], modInverse))]
    /\ i' = i + 1 /\ pc' = "node"
    /\ UNCHANGED <<modulus, T, j, basis, denominator, euclid>>

Return ==
    /\ pc = "node" /\ i > T
    /\ pc' = "done"
    /\ UNCHANGED <<modulus, T, i, j, basis, denominator, coeffs, euclid>>

LagrangeNext == Skip \/ Node \/ Factor \/ Invert \/ Divide \/ AddBasis \/ Return

LagrangeSpec == LagrangeInit /\ [][LagrangeNext]_lagrange

----------------------------------------------------------------------------

(* Products of residues do not wrap; less than that, residues are the same *)
(* as signed and as unsigned words.                                        *)
ProductsFit == modulus * modulus < Word
ResiduesFit == 2 * modulus < Word

LagrangeTypeOK ==
    /\ modulus \in Moduli /\ T \in 0 .. MaxPeriods
    /\ i \in 0 .. T + 1 /\ j \in 0 .. T + 1
    /\ basis \in [DOMAIN basis -> Residue] /\ DOMAIN basis \subseteq 0 .. T
    /\ denominator \in Residue /\ coeffs \in [0 .. T -> Residue]
    /\ {t, newT} \subseteq -modulus .. modulus /\ {r, newR} \subseteq 0 .. modulus
    /\ pc \in {"node", "factors", "inverse", "done"}

(* Its powers, 0 to the power of 0 being 1.                                *)
Power(x) ==
    LET power[e \in Nat] == IF e = 0 THEN 1 ELSE x * power[e - 1]
    IN  power

Eval(polynomial, x) ==
    Sets!MapThenSumSet(LAMBDA e : polynomial[e] * Power(x)[e], DOMAIN polynomial) % modulus

(* The basis polynomial vanishes at the nodes multiplied in, and the       *)
(* denominator is its value at the node left out, which is not zero: T is  *)
(* below the modulus, so no two nodes coincide.                            *)
BasisSeparatesTheNode ==
    pc \in {"factors", "inverse"} =>
        /\ \A x \in 0 .. j - 1 : x # i => Eval(basis, x) = 0
        /\ Eval(basis, i) = denominator /\ denominator # 0

(* After every node the polynomial is the indicator of the majorities      *)
(* among the nodes done so far: when it is returned, of x > T div 2.  On   *)
(* the way each basis polynomial is a residue polynomial of its own node.  *)
(* This holds up to the largest modulus whose square fits into a word.     *)
IndicatesTheNodesDone ==
    LET done == 0 .. IF pc = "done" THEN T ELSE i - 1
    IN  ProductsFit =>
            /\ LagrangeTypeOK /\ BasisSeparatesTheNode
            /\ \A x \in 0 .. T :
                  Eval(coeffs, x) = IF x \in done /\ 2 * x > T THEN 1 ELSE 0

(* modInverse keeps the congruences that make t the inverse once r is one, *)
(* whatever it is given and up to moduli of half the words. Its assertion  *)
(* holds unless it is given zero, which it is not before products wrap.    *)
CofactorsGiveTheInverse ==
    pc = "inverse" /\ ResiduesFit =>
        /\ (t * denominator - r) % modulus = 0
        /\ (newT * denominator - newR) % modulus = 0
        /\ newR = 0 /\ (ProductsFit \/ denominator # 0) => r = 1
=============================================================================
