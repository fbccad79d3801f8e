-------------------------- MODULE CiphertextProofs --------------------------
(***************************************************************************)
(* Proofs about what ciphertexts hold.  First the multiparty protocols,    *)
(* for any number of parties, any commutative ring and any list of Galois  *)
(* elements: the aggregates, the keys, decryption, and that the parties    *)
(* act as the dealer of CollectiveKey; and the accounting of a run that    *)
(* uses them within main's phases: where the time of protocols and server  *)
(* is reported.  Then the packing layout, what the reception of a period   *)
(* takes for granted about it, and what the reception leaves in the        *)
(* accumulators, for every number of voters, every width of the two        *)
(* components, every shape of a ciphertext, and every schedule, sampled or *)
(* not.                                                                    *)
(***************************************************************************)
EXTENDS MCMultiparty, PeriodInputs, ArithmeticLemmas

(* Laws that follow from those of a commutative ring.                      *)
LEMMA Closed ==
    ASSUME NEW x \in R, NEW y \in R
    PROVE  /\ zero \in R /\ w \in R /\ Plus(x, y) \in R /\ Times(x, y) \in R
           /\ Minus(x) \in R /\ Sub(x, y) \in R
BY ClosureAssumption DEF Sub

LEMMA LeftZero ==
    ASSUME NEW x \in R
    PROVE  Plus(zero, x) = x /\ Plus(x, zero) = x
BY ClosureAssumption, PlusAssumption

LEMMA Cancel ==
    ASSUME NEW x \in R, NEW y \in R, NEW z \in R, Plus(x, z) = Plus(y, z)
    PROVE  x = y
<1>1. Plus(Plus(x, z), Minus(z)) = x
    BY ClosureAssumption, PlusAssumption
<1>2. Plus(Plus(y, z), Minus(z)) = y
    BY ClosureAssumption, PlusAssumption
<1> QED
    BY <1>1, <1>2

LEMMA Interchange ==
    ASSUME NEW a \in R, NEW b \in R, NEW c \in R, NEW d \in R
    PROVE  Plus(Plus(a, b), Plus(c, d)) = Plus(Plus(a, c), Plus(b, d))
<1>1. Plus(Plus(a, b), Plus(c, d)) = Plus(a, Plus(b, Plus(c, d)))
    BY ClosureAssumption, PlusAssumption
<1>2. Plus(b, Plus(c, d)) = Plus(Plus(b, c), d)
    BY PlusAssumption
<1>3. Plus(b, c) = Plus(c, b)
    BY PlusAssumption
<1>4. Plus(Plus(c, b), d) = Plus(c, Plus(b, d))
    BY PlusAssumption
<1>5. Plus(a, Plus(c, Plus(b, d))) = Plus(Plus(a, c), Plus(b, d))
    BY ClosureAssumption, PlusAssumption
<1> QED
    BY <1>1, <1>2, <1>3, <1>4, <1>5

LEMMA MinusUnique ==
    ASSUME NEW x \in R, NEW y \in R, Plus(x, y) = zero
    PROVE  y = Minus(x)
<1>1. Plus(y, x) = zero /\ Plus(Minus(x), x) = zero /\ Minus(x) \in R
    BY ClosureAssumption, PlusAssumption
<1> QED
    BY <1>1, Cancel

LEMMA MinusPlus ==
    ASSUME NEW x \in R, NEW y \in R
    PROVE  Minus(Plus(x, y)) = Plus(Minus(x), Minus(y))
<1>1. Minus(x) \in R /\ Minus(y) \in R /\ Plus(x, y) \in R /\ Plus(Minus(x), Minus(y)) \in R
    BY ClosureAssumption
<1>2. Plus(Plus(x, y), Plus(Minus(x), Minus(y)))
        = Plus(Plus(x, Minus(x)), Plus(y, Minus(y)))
    BY <1>1, Interchange
<1>3. Plus(Plus(x, y), Plus(Minus(x), Minus(y))) = zero
    BY <1>2, ClosureAssumption, PlusAssumption
<1> QED
    BY <1>1, <1>3, MinusUnique

LEMMA TimesZero ==
    ASSUME NEW x \in R
    PROVE  Times(x, zero) = zero /\ Times(zero, x) = zero
<1>1. Times(x, zero) \in R /\ zero \in R
    BY ClosureAssumption
<1>2. Plus(Times(x, zero), Times(x, zero)) = Times(x, Plus(zero, zero))
    BY <1>1, TimesAssumption
<1>3. Plus(Times(x, zero), Times(x, zero)) = Plus(zero, Times(x, zero))
    BY <1>1, <1>2, LeftZero
<1>4. Times(x, zero) = zero
    BY <1>1, <1>3, Cancel
<1> QED
    BY <1>1, <1>4, TimesAssumption

LEMMA MinusZero == Minus(zero) = zero
BY ClosureAssumption, PlusAssumption, MinusUnique

LEMMA TimesMinus ==
    ASSUME NEW x \in R, NEW y \in R
    PROVE  Times(x, Minus(y)) = Minus(Times(x, y)) /\ Times(Minus(y), x) = Minus(Times(x, y))
<1>1. Minus(y) \in R /\ Times(x, y) \in R /\ Times(x, Minus(y)) \in R
    BY ClosureAssumption
<1>2. Plus(Times(x, y), Times(x, Minus(y))) = Times(x, Plus(y, Minus(y)))
    BY <1>1, TimesAssumption
<1>3. Times(x, Plus(y, Minus(y))) = zero
    BY PlusAssumption, TimesZero
<1>4. Times(x, Minus(y)) = Minus(Times(x, y))
    BY <1>1, <1>2, <1>3, MinusUnique
<1> QED
    BY <1>1, <1>4, TimesAssumption

LEMMA Distribute ==
    ASSUME NEW x \in R, NEW y \in R, NEW z \in R
    PROVE  /\ Times(x, Plus(y, z)) = Plus(Times(x, y), Times(x, z))
           /\ Times(Plus(y, z), x) = Plus(Times(y, x), Times(z, x))
           /\ Times(x, Sub(y, z)) = Sub(Times(x, y), Times(x, z))
           /\ Times(Sub(y, z), x) = Sub(Times(y, x), Times(z, x))
<1>1. Minus(z) \in R /\ Plus(y, z) \in R /\ Sub(y, z) \in R
    BY ClosureAssumption DEF Sub
<1>2. Times(x, Plus(y, z)) = Plus(Times(x, y), Times(x, z))
    BY TimesAssumption
<1>3. Times(x, Sub(y, z)) = Sub(Times(x, y), Times(x, z))
    BY <1>1, TimesAssumption, TimesMinus DEF Sub
<1>4. /\ Times(Plus(y, z), x) = Times(x, Plus(y, z)) /\ Times(Sub(y, z), x) = Times(x, Sub(y, z))
      /\ Times(y, x) = Times(x, y) /\ Times(z, x) = Times(x, z)
    BY <1>1, TimesAssumption
<1> QED
    BY <1>2, <1>3, <1>4

LEMMA SubSub ==
    ASSUME NEW a \in R, NEW b \in R, NEW c \in R, NEW d \in R
    PROVE  Plus(Sub(a, b), Sub(c, d)) = Sub(Plus(a, c), Plus(b, d))
<1>1. Minus(b) \in R /\ Minus(d) \in R
    BY ClosureAssumption
<1> QED
    BY <1>1, Interchange, MinusPlus DEF Sub

LEMMA AtZero ==
    ASSUME NEW a \in R, NEW g \in R
    PROVE  /\ Times(a, zero) = zero /\ Minus(Times(a, zero)) = zero
           /\ Plus(Minus(Times(a, zero)), Times(g, zero)) = zero
           /\ Times(a, Sub(zero, zero)) = zero
<1>1. zero \in R /\ Sub(zero, zero) = zero /\ Plus(zero, zero) = zero
    BY ClosureAssumption, MinusZero, LeftZero DEF Sub
<1> QED
    BY <1>1, TimesZero, MinusZero

LEMMA ImageOfZero ==
    ASSUME NEW n \in DOMAIN GalEls
    PROVE  Image(GalEls[n], zero) = zero
<1>1. zero \in R /\ Image(GalEls[n], zero) \in R
    BY ClosureAssumption, ImageAssumption
<1>2. Plus(Image(GalEls[n], zero), Image(GalEls[n], zero)) = Plus(zero, Image(GalEls[n], zero))
    BY <1>1, ImageAssumption, LeftZero
<1> QED
    BY <1>1, <1>2, Cancel

(* What two shares of each protocol add up to.                             *)
LEMMA SumOfMasks ==
    ASSUME NEW a \in R, NEW s \in R, NEW x \in R
    PROVE  Plus(Minus(Times(a, s)), Minus(Times(a, x))) = Minus(Times(a, Plus(s, x)))
BY ClosureAssumption, MinusPlus, Distribute

LEMMA SumOfMasked ==
    ASSUME NEW a \in R, NEW g \in R, NEW u \in R, NEW v \in R, NEW s \in R, NEW x \in R
    PROVE  Plus(Plus(Minus(Times(a, u)), Times(g, s)), Plus(Minus(Times(a, v)), Times(g, x)))
             = Plus(Minus(Times(a, Plus(u, v))), Times(g, Plus(s, x)))
<1>1. /\ Minus(Times(a, u)) \in R /\ Minus(Times(a, v)) \in R
      /\ Times(g, s) \in R /\ Times(g, x) \in R
    BY ClosureAssumption
<1>2. Plus(Plus(Minus(Times(a, u)), Times(g, s)), Plus(Minus(Times(a, v)), Times(g, x)))
        = Plus(Plus(Minus(Times(a, u)), Minus(Times(a, v))), Plus(Times(g, s), Times(g, x)))
    BY <1>1, Interchange
<1>3. Plus(Times(g, s), Times(g, x)) = Times(g, Plus(s, x))
    BY Distribute
<1> QED
    BY <1>2, <1>3, SumOfMasks

LEMMA SumOfDifferences ==
    ASSUME NEW h \in R, NEW u \in R, NEW v \in R, NEW s \in R, NEW x \in R
    PROVE  Plus(Times(h, Sub(u, s)), Times(h, Sub(v, x))) = Times(h, Sub(Plus(u, v), Plus(s, x)))
<1>1. Sub(u, s) \in R /\ Sub(v, x) \in R
    BY Closed
<1> QED
    BY <1>1, Distribute, SubSub

LEMMA RefreshShareSum ==
    ASSUME NEW c \in R, NEW a \in R, NEW s \in R, NEW m \in R
    PROVE  Plus(Sub(Times(c, s), m), Sub(m, Times(a, s))) = Times(Sub(c, a), s)
<1>1. Times(c, s) \in R /\ Times(a, s) \in R
    BY ClosureAssumption
<1>2. Plus(Sub(Times(c, s), m), Sub(m, Times(a, s))) = Sub(Plus(Times(c, s), m), Plus(m, Times(a, s)))
    BY <1>1, SubSub
<1>3. Sub(Plus(Times(c, s), m), Plus(m, Times(a, s)))
        = Plus(Plus(Times(c, s), m), Plus(Minus(Times(a, s)), Minus(m)))
    BY <1>1, MinusPlus, PlusAssumption, ClosureAssumption DEF Sub
<1>4. Plus(Plus(Times(c, s), m), Plus(Minus(Times(a, s)), Minus(m)))
        = Plus(Plus(Times(c, s), Minus(Times(a, s))), Plus(m, Minus(m)))
    BY <1>1, Interchange, ClosureAssumption
<1>5. Plus(Plus(Times(c, s), Minus(Times(a, s))), Plus(m, Minus(m))) = Sub(Times(c, s), Times(a, s))
    BY <1>1, PlusAssumption, ClosureAssumption DEF Sub
<1> QED
    BY <1>2, <1>3, <1>4, <1>5, Distribute

(* What the sums of all shares are good for.                               *)
LEMMA PublicKeyHides ==
    ASSUME NEW a \in R, NEW s \in R
    PROVE  Plus(Minus(Times(a, s)), Times(a, s)) = zero
BY ClosureAssumption, PlusAssumption

LEMMA GaloisKeyHides ==
    ASSUME NEW a \in R, NEW t \in R, NEW x \in R
    PROVE  Plus(Plus(Minus(Times(a, t)), x), Times(a, t)) = x
<1>1. Times(a, t) \in R /\ Minus(Times(a, t)) \in R
    BY ClosureAssumption
<1>2. Plus(Plus(Minus(Times(a, t)), x), Times(a, t)) = Plus(Plus(x, Minus(Times(a, t))), Times(a, t))
    BY <1>1, PlusAssumption
<1>3. Plus(Plus(x, Minus(Times(a, t))), Times(a, t)) = Plus(x, Plus(Minus(Times(a, t)), Times(a, t)))
    BY <1>1, PlusAssumption
<1> QED
    BY <1>1, <1>2, <1>3, PublicKeyHides, LeftZero

LEMMA RelinKeyHides ==
    ASSUME NEW a \in R, NEW U \in R, NEW S \in R, NEW h \in R, NEW k \in R,
           h = Plus(Minus(Times(a, U)), Times(w, S)), k = Times(a, S)
    PROVE  Plus(Plus(Times(h, S), Times(k, Sub(U, S))), Times(k, S)) = Times(Times(S, S), w)
<1>1. /\ w \in R /\ Times(a, U) \in R /\ Times(w, S) \in R /\ Times(k, U) \in R /\ Times(k, S) \in R
      /\ Times(h, S) \in R /\ Minus(Times(a, U)) \in R /\ Minus(Times(k, S)) \in R
    BY ClosureAssumption
<1>2. Plus(Times(k, Sub(U, S)), Times(k, S)) = Times(k, U)
    <2>1. Times(k, Sub(U, S)) = Plus(Times(k, U), Minus(Times(k, S)))
        BY Distribute DEF Sub
    <2>2. Plus(Plus(Times(k, U), Minus(Times(k, S))), Times(k, S))
            = Plus(Times(k, U), Plus(Minus(Times(k, S)), Times(k, S)))
        BY <1>1, PlusAssumption
    <2> QED
        BY <1>1, <2>1, <2>2, PublicKeyHides, LeftZero
<1>3. Times(h, S) = Plus(Minus(Times(k, U)), Times(Times(S, S), w))
    <2>1. Times(h, S) = Plus(Times(Minus(Times(a, U)), S), Times(Times(w, S), S))
        BY <1>1, Distribute
    <2>2. Times(Minus(Times(a, U)), S) = Minus(Times(Times(a, U), S))
        BY <1>1, TimesMinus, TimesAssumption
    <2>3. Times(Times(a, U), S) = Times(k, U)
        BY TimesAssumption
    <2>4. Times(Times(w, S), S) = Times(Times(S, S), w)
        BY <1>1, TimesAssumption, ClosureAssumption
    <2> QED
        BY <2>1, <2>2, <2>3, <2>4
<1>4. Times(k, Sub(U, S)) \in R
    BY Closed
<1>5. Plus(Plus(Times(h, S), Times(k, Sub(U, S))), Times(k, S)) = Plus(Times(h, S), Times(k, U))
    BY <1>1, <1>2, <1>4, PlusAssumption
<1>6. Times(Times(S, S), w) \in R
    BY <1>1, ClosureAssumption
<1> QED
    BY <1>3, <1>5, <1>6, GaloisKeyHides

LEMMA EncryptionOpens ==
    ASSUME NEW p \in R, NEW q \in R, NEW S \in R, NEW v \in R, NEW m \in R,
           Plus(p, Times(q, S)) = zero
    PROVE  Plus(Plus(Times(v, p), m), Times(Times(v, q), S)) = m
<1>1. Times(v, p) \in R /\ Times(q, S) \in R /\ Times(v, Times(q, S)) \in R
    BY ClosureAssumption
<1>2. Times(Times(v, q), S) = Times(v, Times(q, S))
    BY TimesAssumption
<1>3. Plus(Plus(Times(v, p), m), Times(v, Times(q, S)))
        = Plus(m, Plus(Times(v, p), Times(v, Times(q, S))))
    BY <1>1, PlusAssumption
<1>4. Plus(Times(v, p), Times(v, Times(q, S))) = Times(v, Plus(p, Times(q, S)))
    BY <1>1, Distribute
<1> QED
    BY <1>2, <1>3, <1>4, TimesZero, LeftZero

LEMMA RefreshOpens ==
    ASSUME NEW c \in R, NEW d \in R, NEW a \in R, NEW S \in R, NEW A \in R, NEW B \in R,
           Plus(A, B) = Times(Sub(d, a), S)
    PROVE  Plus(Plus(Plus(c, A), B), Times(a, S)) = Plus(c, Times(d, S))
<1>1. Times(a, S) \in R /\ Times(d, S) \in R /\ Plus(A, B) \in R /\ Minus(Times(a, S)) \in R
    BY ClosureAssumption
<1>2. Plus(Plus(c, A), B) = Plus(c, Plus(A, B))
    BY PlusAssumption
<1>3. Plus(Plus(c, Plus(A, B)), Times(a, S)) = Plus(c, Plus(Plus(A, B), Times(a, S)))
    BY <1>1, PlusAssumption
<1>4. Plus(A, B) = Plus(Times(d, S), Minus(Times(a, S)))
    BY Distribute DEF Sub
<1>5. Plus(Plus(Times(d, S), Minus(Times(a, S))), Times(a, S)) = Times(d, S)
    BY <1>1, PublicKeyHides, LeftZero, PlusAssumption
<1> QED
    BY <1>2, <1>3, <1>4, <1>5

----------------------------------------------------------------------------
(* The inductive invariant.                                                *)

InSetup == {"setup", "ckgShare", "ckgAggregate", "ckgFinish"}
InRKG == {"public", "rkgOne", "rkgAggregateOne", "rkgTwo", "rkgAggregateTwo", "rkgFinish"}
InGKG == {"gkgShare", "gkgAggregate", "gkgFinish"}
InRefresh == {"refreshShare", "refreshFirst", "refreshAggregate", "refreshFinish"}
InDecrypt == {"cksShare", "cksAggregate", "cksFinish"}

(* Which keys exist while each protocol runs.                              *)
Stage ==
    /\ (pk = NoKey) <=> (pc \in {"genparties"} \cup InSetup)
    /\ (rlk = NoKey) <=> (pc \in {"genparties"} \cup InSetup \cup InRKG)
    /\ rlk = NoKey => gks = <<>>
    /\ pc \in InGKG => Len(gks) < Len(GalEls) /\ element = galEl
    /\ pc \in {"ready"} \cup InRefresh \cup InDecrypt => Len(gks) = Len(GalEls)
    /\ pc \notin {"ready"} \cup InRefresh \cup InDecrypt => ct = NoKey
    /\ ct = NoKey => opened = NoKey
    /\ pc \in InRefresh \cup InDecrypt => ct # NoKey

LEMMA PairOrNot ==
    /\ \A x, y : <<x, y>> # NoKey
    /\ \A x \in Pair \cup {NoKey} : x # NoKey => x[1] \in R /\ x[2] \in R
BY DEF Pair, NoKey

LEMMA StepTyped ==
    ASSUME TypeOK, Stage, [Next]_vars
    PROVE  TypeOK' /\ Stage'
<1> USE PartiesAssumption, SamplesAssumption, LevelAssumption, GalElsAssumption,
        ClosureAssumption, PairOrNot
    DEF TypeOK, Stage, Party, Pair, InSetup, InRKG, InGKG, InRefresh, InDecrypt,
        Turn, Begin, Ends, NoShares, galEl, Aggregate
<1>1. CASE UNCHANGED vars
    BY <1>1 DEF vars, secrets, combined, rounds, keys, cipher
<1> USE DEF secrets, combined, rounds, keys, cipher, Sub
<1>2. CASE GenParty
    <2>1. PICK s \in Secrets : /\ sk' = [sk EXCEPT ![i] = s]
                               /\ prefix' = [prefix EXCEPT ![i] = Plus(prefix[i - 1], s)]
        BY <1>2 DEF GenParty
    <2>2. s \in R /\ i - 1 \in 0 .. N /\ i \in 0 .. N
        OBVIOUS
    <2>3. sk' \in [Party -> R]
        BY <2>1, <2>2
    <2>4. prefix' \in [0 .. N -> R]
        BY <2>1, <2>2
    <2> QED
        BY <1>2, <2>3, <2>4 DEF GenParty
<1>3. CASE SetupDone
    BY <1>3 DEF SetupDone
<1>4. CASE Encrypt
    BY <1>4 DEF Encrypt
<1>5. CASE Evaluate
    BY <1>5 DEF Evaluate
<1>6. CASE BeginCKG
    BY <1>6 DEF BeginCKG
<1>7. CASE BeginRKG
    BY <1>7 DEF BeginRKG
<1>8. CASE BeginGKG
    BY <1>8 DEF BeginGKG, ElementOfCombined
<1>9. CASE BeginRefresh
    BY <1>9 DEF BeginRefresh
<1>10. CASE BeginDecrypt
    BY <1>10 DEF BeginDecrypt
<1>11. CASE CKGShare
    BY <1>11 DEF CKGShare
<1>12. CASE CKGAggregate
    BY <1>12 DEF CKGAggregate
<1>13. CASE GenShareRoundOne
    BY <1>13 DEF GenShareRoundOne
<1>14. CASE RoundOneAggregate
    <2>1. Plus(h0, shareA[i]) \in R /\ Plus(h1, shareB[i]) \in R
        OBVIOUS
    <2>2. h0' \in R /\ h1' \in R
        BY <1>14, <2>1 DEF RoundOneAggregate
    <2>3. TypeOK'
        BY <1>14, <2>2 DEF RoundOneAggregate
    <2>4. Stage'
        BY <1>14 DEF RoundOneAggregate
    <2> QED
        BY <2>3, <2>4
<1>15. CASE GenShareRoundTwo
    <2>1. Times(h0, sk[i]) \in R /\ Times(h1, Sub(ephem[i], sk[i])) \in R
        OBVIOUS
    <2>2. shareA' \in [Party -> R] /\ shareB' \in [Party -> R]
        BY <1>15, <2>1 DEF GenShareRoundTwo, EphemeralOf
    <2> QED
        BY <1>15, <2>2 DEF GenShareRoundTwo
<1>16. CASE RoundTwoAggregate
    <2>1. Plus(combA, shareA[i]) \in R /\ Plus(combB, shareB[i]) \in R
        OBVIOUS
    <2>2. combA' \in R /\ combB' \in R
        BY <1>16, <2>1 DEF RoundTwoAggregate
    <2>3. TypeOK'
        BY <1>16, <2>2 DEF RoundTwoAggregate
    <2>4. Stage'
        BY <1>16 DEF RoundTwoAggregate
    <2> QED
        BY <2>3, <2>4
<1>17. CASE GKGShare
    <2>1. Image(galEl, sk[i]) \in R
        BY <1>17, ImageAssumption DEF GKGShare
    <2>2. Plus(Minus(Times(crp, Image(galEl, sk[i]))), Times(w, sk[i])) \in R
        BY <2>1
    <2>3. shareA' \in [Party -> R]
        BY <1>17, <2>2 DEF GKGShare
    <2>4. TypeOK'
        BY <1>17, <2>3 DEF GKGShare
    <2>5. Stage'
        BY <1>17 DEF GKGShare
    <2> QED
        BY <2>4, <2>5
<1>18. CASE GKGAggregate
    <2>1. Plus(combA, shareA[i]) \in R
        OBVIOUS
    <2>2. combA' \in R
        BY <1>18, <2>1 DEF GKGAggregate
    <2>3. TypeOK'
        BY <1>18, <2>2 DEF GKGAggregate
    <2>4. Stage'
        BY <1>18 DEF GKGAggregate
    <2> QED
        BY <2>3, <2>4
<1>19. CASE RefreshShare
    BY <1>19 DEF RefreshShare
<1>20. CASE RefreshFirst
    BY <1>20 DEF RefreshFirst, SecondShare
<1>21. CASE RefreshAggregate
    BY <1>21 DEF RefreshAggregate
<1>22. CASE CKSShare
    BY <1>22 DEF CKSShare
<1>23. CASE CKSAggregate
    BY <1>23 DEF CKSAggregate
<1>24. CASE GenPublicKey
    BY <1>24 DEF GenPublicKey
<1>25. CASE GenRelinearizationKey
    BY <1>25 DEF GenRelinearizationKey
<1>26. CASE GenGaloisKey
    BY <1>26 DEF GenGaloisKey
<1>27. CASE FinalizeRefresh
    BY <1>27 DEF FinalizeRefresh, OutputLevel
<1>28. CASE KeySwitch
    BY <1>28 DEF KeySwitch
<1> QED
    BY <1>1, <1>2, <1>3, <1>4, <1>5, <1>6, <1>7, <1>8, <1>9, <1>10, <1>11, <1>12, <1>13,
        <1>14, <1>15, <1>16, <1>17, <1>18, <1>19, <1>20, <1>21, <1>22, <1>23, <1>24, <1>25, <1>26,
        <1>27, <1>28 DEF Next, Protocols

(* The histories are the sums of the first keys.                           *)
Sums ==
    /\ prefix[0] = zero /\ ephemPrefix[0] = zero
    /\ \A n \in Party : (pc = "genparties" => n < i) =>
           prefix[n] = Plus(prefix[n - 1], sk[n])
    /\ \A n \in Party : (pc = "rkgOne" => n < i) =>
           ephemPrefix[n] = Plus(ephemPrefix[n - 1], ephem[n])

(* Party n has made its share in a loop that the aggregation follows.      *)
Made(loop, after, n) == pc \in after \/ (pc = loop /\ n < i)

Shares ==
    \A n \in Party :
        /\ Made("ckgShare", {"ckgAggregate"}, n) => shareA[n] = Minus(Times(crp, sk[n]))
        /\ Made("rkgOne", {"rkgAggregateOne"}, n) =>
               /\ shareA[n] = Plus(Minus(Times(crp, ephem[n])), Times(w, sk[n]))
               /\ shareB[n] = Times(crp, sk[n])
        /\ Made("rkgTwo", {"rkgAggregateTwo"}, n) =>
               /\ shareA[n] = Times(h0, sk[n])
               /\ shareB[n] = Times(h1, Sub(ephem[n], sk[n]))
        /\ Made("gkgShare", {"gkgAggregate"}, n) =>
               shareA[n] = Plus(Minus(Times(crp, Image(galEl, sk[n]))), Times(w, sk[n]))
        /\ Made("refreshShare", {"refreshFirst", "refreshAggregate"}, n) =>
               Plus(shareA[n], shareB[n]) = Times(Sub(ct[2], crp), sk[n])
        /\ Made("cksShare", {"cksAggregate"}, n) => shareA[n] = Times(ct[2], sk[n])

(* Nothing is aggregated before the shares are there.                      *)
Empty ==
    /\ pc \in {"ckgShare", "rkgOne", "rkgAggregateOne", "rkgTwo", "gkgShare", "cksShare"} =>
           combA = zero /\ combB = zero
    /\ pc = "rkgOne" => h0 = zero /\ h1 = zero

(* The combined share once every party is counted.                         *)
Whole ==
    LET All == ephemPrefix[N]
    IN  /\ pc = "ckgFinish" => combA = Minus(Times(crp, Secret))
        /\ pc \in {"rkgTwo", "rkgAggregateTwo", "rkgFinish"} =>
               h0 = Plus(Minus(Times(crp, All)), Times(w, Secret)) /\ h1 = Times(crp, Secret)
        /\ pc = "rkgFinish" =>
               combA = Times(h0, Secret) /\ combB = Times(h1, Sub(All, Secret))
        /\ pc = "gkgFinish" =>
               combA = Plus(Minus(Times(crp, Image(galEl, Secret))), Times(w, Secret))
        /\ pc = "refreshFinish" => Plus(combA, combB) = Times(Sub(ct[2], crp), Secret)
        /\ pc = "cksFinish" => combA = Times(ct[2], Secret)

(* What EachShareOnce says of the combined share while it grows.           *)
Growing ==
    LET s == prefix[i - 1]   u == ephemPrefix[i - 1]
    IN  /\ pc = "ckgAggregate" => combA = Minus(Times(crp, s))
        /\ pc = "rkgAggregateOne" =>
               h0 = Plus(Minus(Times(crp, u)), Times(w, s)) /\ h1 = Times(crp, s)
        /\ pc = "rkgAggregateTwo" =>
               combA = Times(h0, s) /\ combB = Times(h1, Sub(u, s))
        /\ pc = "gkgAggregate" =>
               combA = Plus(Minus(Times(crp, Image(galEl, s))), Times(w, s))
        /\ pc = "refreshAggregate" =>
               Plus(combA, combB) = Times(Sub(ct[2], crp), s)
        /\ pc = "cksAggregate" => combA = Times(ct[2], s)

IInv ==
    /\ TypeOK /\ Stage /\ Sums /\ Shares /\ Empty /\ Growing /\ Whole
    /\ KeysAreValid /\ DecryptsToTheMessage

LEMMA StepSums ==
    ASSUME TypeOK, Stage, Sums, [Next]_vars
    PROVE  Sums'
<1> USE PartiesAssumption DEF TypeOK, Sums, Party
<1>1. CASE GenParty
    <2>1. PICK s \in Secrets : /\ sk' = [sk EXCEPT ![i] = s]
                               /\ prefix' = [prefix EXCEPT ![i] = Plus(prefix[i - 1], s)]
        BY <1>1 DEF GenParty
    <2>2. UNCHANGED <<ephem, ephemPrefix>> /\ pc = "genparties" /\ pc' \in {"genparties", "setup"}
        BY <1>1 DEF GenParty, Turn
    <2>3. prefix'[0] = zero
        BY <2>1
    <2>4. ASSUME NEW n \in Party, pc' = "genparties" => n < i'
          PROVE  prefix'[n] = Plus(prefix'[n - 1], sk'[n])
        <3>1. n <= i
            BY <1>1, <2>4 DEF GenParty, Turn
        <3>2. n - 1 \in 0 .. N /\ n \in 0 .. N /\ n - 1 # i /\ i \in 0 .. N
            BY <3>1
        <3>3. prefix'[n - 1] = prefix[n - 1]
            BY <2>1, <3>2
        <3>4. CASE n = i
            BY <2>1, <3>2, <3>3, <3>4
        <3>5. CASE n < i
            BY <2>1, <2>2, <3>2, <3>3, <3>5
        <3> QED
            BY <3>1, <3>4, <3>5
    <2> QED
        BY <2>2, <2>3, <2>4
<1>2. CASE GenShareRoundOne
    <2>1. PICK v \in Secrets :
              /\ ephem' = [ephem EXCEPT ![i] = v]
              /\ ephemPrefix' = [ephemPrefix EXCEPT ![i] = Plus(ephemPrefix[i - 1], v)]
        BY <1>2 DEF GenShareRoundOne
    <2>2. UNCHANGED <<sk, prefix>> /\ pc = "rkgOne" /\ pc' \in {"rkgOne", "rkgAggregateOne"}
        BY <1>2 DEF GenShareRoundOne, Turn
    <2>3. ephemPrefix'[0] = zero
        BY <2>1
    <2>4. ASSUME NEW n \in Party, pc' = "rkgOne" => n < i'
          PROVE  ephemPrefix'[n] = Plus(ephemPrefix'[n - 1], ephem'[n])
        <3>1. n <= i
            BY <1>2, <2>4 DEF GenShareRoundOne, Turn
        <3>2. n - 1 \in 0 .. N /\ n \in 0 .. N /\ n - 1 # i /\ i \in 0 .. N
            BY <3>1
        <3>3. ephemPrefix'[n - 1] = ephemPrefix[n - 1]
            BY <2>1, <3>2
        <3>4. CASE n = i
            BY <2>1, <3>2, <3>3, <3>4
        <3>5. CASE n < i
            BY <2>1, <2>2, <3>2, <3>3, <3>5
        <3> QED
            BY <3>1, <3>4, <3>5
    <2> QED
        BY <2>2, <2>3, <2>4
<1>3. CASE BeginRKG
    BY <1>3 DEF BeginRKG, Begin, NoShares
<1>4. CASE ~GenParty /\ ~GenShareRoundOne /\ ~BeginRKG
    <2>1. UNCHANGED secrets
        BY <1>4 DEF Next, Protocols, vars, SetupDone, Encrypt, Evaluate, BeginCKG, BeginGKG,
            BeginRefresh, BeginDecrypt, CKGShare, CKGAggregate, RoundOneAggregate,
            GenShareRoundTwo, RoundTwoAggregate, GKGShare, GKGAggregate, RefreshShare,
            RefreshFirst, RefreshAggregate, CKSShare, CKSAggregate, GenPublicKey,
            GenRelinearizationKey, GenGaloisKey, FinalizeRefresh, KeySwitch
    <2>2. \/ pc \notin {"genparties", "rkgOne"} /\ pc' \notin {"genparties", "rkgOne"}
          \/ UNCHANGED <<pc, i>>
        BY <1>4 DEF Next, Protocols, vars, Turn, Begin, Ends, SetupDone, Encrypt, Evaluate,
            BeginCKG, BeginGKG, BeginRefresh, BeginDecrypt, CKGShare, CKGAggregate,
            RoundOneAggregate, GenShareRoundTwo, RoundTwoAggregate, GKGShare, GKGAggregate,
            RefreshShare, RefreshFirst, RefreshAggregate, CKSShare, CKSAggregate, GenPublicKey,
            GenRelinearizationKey, GenGaloisKey, FinalizeRefresh, KeySwitch
    <2> QED
        BY <2>1, <2>2 DEF secrets
<1> QED
    BY <1>1, <1>2, <1>3, <1>4

LEMMA StepShares ==
    ASSUME TypeOK, Stage, Shares, TypeOK', Stage', [Next]_vars
    PROVE  Shares'
<1> USE PartiesAssumption, SamplesAssumption
<1>1. CASE pc' \in {"genparties", "setup", "ckgFinish", "public", "rkgFinish", "galois",
                    "gkgFinish", "ready", "refreshFinish", "cksFinish"}
    BY <1>1 DEF Shares, Made
<1>2. CASE BeginCKG \/ BeginRKG \/ BeginGKG \/ BeginRefresh \/ BeginDecrypt
    <2>1. /\ i' = 1
          /\ pc' \in {"ckgShare", "rkgOne", "gkgShare", "refreshShare", "cksShare"}
        BY <1>2 DEF BeginCKG, BeginRKG, BeginGKG, BeginRefresh, BeginDecrypt, Begin
    <2> QED
        BY <2>1 DEF Shares, Made, Party
<1>3. CASE CKGShare
    <2>1. /\ pc = "ckgShare" /\ pc' \in {"ckgShare", "ckgAggregate"}
          /\ (pc' = "ckgShare" => i' = i + 1)
          /\ (pc' = "ckgAggregate" => i = N)
        BY <1>3 DEF CKGShare, Turn, TypeOK, Party
    <2>2. ASSUME NEW n \in Party, n <= i
          PROVE  shareA'[n] = Minus(Times(crp', sk'[n]))
        <3>1. CASE n = i
            BY <1>3, <3>1 DEF CKGShare, TypeOK, secrets, keys, cipher
        <3>2. CASE n < i
            BY <1>3, <2>1, <2>2, <3>2 DEF CKGShare, TypeOK, Shares, Made, Party, secrets,
                keys, cipher
        <3> QED
            BY <2>2, <3>1, <3>2 DEF TypeOK, Party
    <2> QED
        BY <2>1, <2>2 DEF Shares, Made, TypeOK, Party
<1>4. CASE GenShareRoundOne
    <2>1. /\ pc = "rkgOne" /\ pc' \in {"rkgOne", "rkgAggregateOne"}
          /\ (pc' = "rkgOne" => i' = i + 1)
          /\ (pc' = "rkgAggregateOne" => i = N)
        BY <1>4 DEF GenShareRoundOne, Turn, TypeOK, Party
    <2>2. ASSUME NEW n \in Party, n <= i
          PROVE  /\ shareA'[n] = Plus(Minus(Times(crp', ephem'[n])), Times(w, sk'[n]))
                 /\ shareB'[n] = Times(crp', sk'[n])
        <3>1. CASE n = i
            BY <1>4, <3>1 DEF GenShareRoundOne, TypeOK, combined, rounds, keys, cipher
        <3>2. CASE n < i
            BY <1>4, <2>1, <2>2, <3>2 DEF GenShareRoundOne, TypeOK, Shares, Made, Party,
                combined, rounds, keys, cipher
        <3> QED
            BY <2>2, <3>1, <3>2 DEF TypeOK, Party
    <2> QED
        BY <2>1, <2>2 DEF Shares, Made, TypeOK, Party
<1>5. CASE GenShareRoundTwo
    <2>1. /\ pc = "rkgTwo" /\ pc' \in {"rkgTwo", "rkgAggregateTwo"}
          /\ (pc' = "rkgTwo" => i' = i + 1)
          /\ (pc' = "rkgAggregateTwo" => i = N)
        BY <1>5 DEF GenShareRoundTwo, Turn, TypeOK, Party
    <2>2. ASSUME NEW n \in Party, n <= i
          PROVE  /\ shareA'[n] = Times(h0', sk'[n])
                 /\ shareB'[n] = Times(h1', Sub(ephem'[n], sk'[n]))
        <3>1. CASE n = i
            BY <1>5, <3>1 DEF GenShareRoundTwo, EphemeralOf, TypeOK, secrets, rounds
        <3>2. CASE n < i
            BY <1>5, <2>1, <2>2, <3>2 DEF GenShareRoundTwo, EphemeralOf, TypeOK, Shares, Made,
                Party, secrets, rounds
        <3> QED
            BY <2>2, <3>1, <3>2 DEF TypeOK, Party
    <2> QED
        BY <2>1, <2>2 DEF Shares, Made, TypeOK, Party
<1>6. CASE GKGShare
    <2>1. /\ pc = "gkgShare" /\ pc' \in {"gkgShare", "gkgAggregate"}
          /\ (pc' = "gkgShare" => i' = i + 1)
          /\ (pc' = "gkgAggregate" => i = N)
        BY <1>6 DEF GKGShare, Turn, TypeOK, Party
    <2>2. ASSUME NEW n \in Party, n <= i
          PROVE  shareA'[n] = Plus(Minus(Times(crp', Image(galEl', sk'[n]))), Times(w, sk'[n]))
        <3>1. CASE n = i
            BY <1>6, <3>1 DEF GKGShare, galEl, TypeOK, secrets, keys
        <3>2. CASE n < i
            BY <1>6, <2>1, <2>2, <3>2 DEF GKGShare, galEl, TypeOK, Shares, Made, Party,
                secrets, keys
        <3> QED
            BY <2>2, <3>1, <3>2 DEF TypeOK, Party
    <2> QED
        BY <2>1, <2>2 DEF Shares, Made, TypeOK, Party
<1>7. CASE RefreshShare
    <2>1. /\ pc = "refreshShare" /\ pc' \in {"refreshShare", "refreshFirst"}
          /\ (pc' = "refreshShare" => i' = i + 1)
          /\ (pc' = "refreshFirst" => i = N)
        BY <1>7 DEF RefreshShare, Turn, TypeOK, Party
    <2>2. ASSUME NEW n \in Party, n <= i
          PROVE  Plus(shareA'[n], shareB'[n]) = Times(Sub(ct'[2], crp'), sk'[n])
        <3>1. CASE n = i
            <4>1. ct[2] \in R /\ sk[i] \in R /\ crp \in R
                BY <1>7, PairOrNot DEF RefreshShare, Turn, TypeOK, Stage, InRefresh
            <4>2. PICK mask \in R :
                      /\ shareA'[i] = Sub(Times(ct[2], sk[i]), mask)
                      /\ shareB'[i] = Sub(mask, Times(crp, sk[i]))
                BY <1>7 DEF RefreshShare, TypeOK
            <4>3. Plus(shareA'[i], shareB'[i]) = Times(Sub(ct[2], crp), sk[i])
                BY <4>1, <4>2, RefreshShareSum
            <4> QED
                BY <1>7, <3>1, <4>3 DEF RefreshShare, secrets, cipher
        <3>2. CASE n < i
            BY <1>7, <2>1, <2>2, <3>2 DEF RefreshShare, TypeOK, Shares, Made, Party, secrets,
                cipher
        <3> QED
            BY <2>2, <3>1, <3>2 DEF TypeOK, Party
    <2> QED
        BY <2>1, <2>2 DEF Shares, Made, TypeOK, Party
<1>8. CASE CKSShare
    <2>1. /\ pc = "cksShare" /\ pc' \in {"cksShare", "cksAggregate"}
          /\ (pc' = "cksShare" => i' = i + 1)
          /\ (pc' = "cksAggregate" => i = N)
        BY <1>8 DEF CKSShare, Turn, TypeOK, Party
    <2>2. ASSUME NEW n \in Party, n <= i
          PROVE  shareA'[n] = Times(ct'[2], sk'[n])
        <3>1. CASE n = i
            <4>1. sk[i] \in R /\ Sub(sk[i], zero) = sk[i]
                BY LeftZero, MinusZero DEF Sub, TypeOK
            <4> QED
                BY <1>8, <3>1, <4>1 DEF CKSShare, TypeOK, secrets, cipher
        <3>2. CASE n < i
            BY <1>8, <2>1, <2>2, <3>2 DEF CKSShare, TypeOK, Shares, Made, Party, secrets, cipher
        <3> QED
            BY <2>2, <3>1, <3>2 DEF TypeOK, Party
    <2> QED
        BY <2>1, <2>2 DEF Shares, Made, TypeOK, Party
<1>9. CASE UNCHANGED vars
    BY <1>9 DEF vars, secrets, rounds, keys, cipher, Shares, Made, galEl
<1>10. CASE CKGAggregate
    BY <1>10 DEF CKGAggregate, Turn, Shares, Made, Party, secrets
<1>11. CASE RoundOneAggregate
    <2>1. pc = "rkgAggregateOne" /\ (pc' = "rkgAggregateOne" \/ (pc' = "rkgTwo" /\ i' = 1))
        BY <1>11 DEF RoundOneAggregate, Turn
    <2> QED
        BY <1>11, <2>1 DEF RoundOneAggregate, Shares, Made, Party, secrets
<1>12. CASE RoundTwoAggregate
    BY <1>12 DEF RoundTwoAggregate, Turn, Shares, Made, Party, secrets, rounds
<1>13. CASE GKGAggregate
    BY <1>13 DEF GKGAggregate, Turn, Shares, Made, Party, secrets, keys, galEl
<1>14. CASE RefreshFirst
    BY <1>14 DEF RefreshFirst, Turn, Shares, Made, Party, secrets, cipher
<1>15. CASE RefreshAggregate
    BY <1>15 DEF RefreshAggregate, Turn, Shares, Made, Party, secrets, cipher
<1>16. CASE CKSAggregate
    BY <1>16 DEF CKSAggregate, Turn, Shares, Made, Party, secrets, cipher
<1> QED
    BY <1>1, <1>2, <1>3, <1>4, <1>5, <1>6, <1>7, <1>8, <1>9, <1>10, <1>11, <1>12, <1>13,
        <1>14, <1>15, <1>16 DEF
        Next, Protocols, GenParty, SetupDone, Encrypt, Evaluate, GenPublicKey,
        GenRelinearizationKey, GenGaloisKey, FinalizeRefresh, KeySwitch, Turn, Ends

LEMMA StepEmpty ==
    ASSUME Empty, [Next]_vars
    PROVE  Empty'
<1>1. CASE pc' \notin {"ckgShare", "rkgOne", "rkgAggregateOne", "rkgTwo", "gkgShare", "cksShare"}
    BY <1>1 DEF Empty
<1>2. CASE BeginCKG \/ BeginRKG \/ BeginGKG \/ BeginRefresh \/ BeginDecrypt
    BY <1>2 DEF Empty, BeginCKG, BeginRKG, BeginGKG, BeginRefresh, BeginDecrypt, Begin, rounds
<1>3. CASE CKGShare \/ GenShareRoundOne \/ RoundOneAggregate \/ GenShareRoundTwo \/ GKGShare \/ CKSShare
    BY <1>3 DEF Empty, CKGShare, GenShareRoundOne, RoundOneAggregate, GenShareRoundTwo,
                GKGShare, CKSShare, Turn, combined, rounds
<1>4. CASE UNCHANGED vars
    BY <1>4 DEF Empty, vars, combined, rounds
<1> QED
    BY <1>1, <1>2, <1>3, <1>4 DEF Next, Protocols, GenParty, SetupDone, Encrypt, Evaluate,
        GenPublicKey, GenRelinearizationKey, GenGaloisKey, FinalizeRefresh, KeySwitch,
        CKGAggregate, RoundTwoAggregate, GKGAggregate, RefreshShare, RefreshFirst,
        RefreshAggregate, CKSAggregate, Turn, Ends

(* The parties' turn, in the model's terms.                                *)
LEMMA NextPrefix ==
    ASSUME TypeOK, Sums, pc \notin {"genparties", "rkgOne"}
    PROVE  /\ i \in Party /\ i - 1 \in 0 .. N /\ N \in 0 .. N /\ i \in 0 .. N
           /\ sk[i] \in R /\ ephem[i] \in R
           /\ prefix[i - 1] \in R /\ ephemPrefix[i - 1] \in R
           /\ prefix[i] = Plus(prefix[i - 1], sk[i])
           /\ ephemPrefix[i] = Plus(ephemPrefix[i - 1], ephem[i])
BY PartiesAssumption DEF TypeOK, Sums, Party

LEMMA TurnEnds ==
    ASSUME TypeOK, NEW here, NEW after, Turn(here, after)
    PROVE  /\ pc = here
           /\ \/ pc' = here /\ i' - 1 = i
              \/ pc' = after /\ i = N
BY PartiesAssumption DEF TypeOK, Turn, Party

LEMMA StepCombined ==
    ASSUME TypeOK, Stage, Sums, Shares, Empty, Growing, Whole, TypeOK', Stage', [Next]_vars
    PROVE  Growing' /\ Whole'
<1> USE PartiesAssumption
<1>1. CASE pc' \in {"genparties", "setup", "ckgShare", "public", "rkgOne", "galois", "gkgShare",
                    "ready", "refreshShare", "refreshFirst", "cksShare"}
    BY <1>1 DEF Growing, Whole
<1>2. CASE UNCHANGED vars
    BY <1>2 DEF vars, secrets, combined, rounds, keys, cipher, Growing, Whole, Secret, galEl
<1> DEFINE s == prefix[i - 1]   u == ephemPrefix[i - 1]   All == ephemPrefix[N]
<1>3. CASE CKGShare /\ pc' = "ckgAggregate"
    <2>1. i' = 1 /\ prefix'[0] = zero /\ combA' = zero /\ crp' \in R
        BY <1>3 DEF CKGShare, Turn, Empty, Sums, secrets, combined, TypeOK
    <2>2. Minus(Times(crp', zero)) = zero
        BY <2>1, AtZero
    <2> QED
        BY <1>3, <2>1, <2>2 DEF Growing, Whole
<1>4. CASE CKGAggregate
    <2>1. pc = "ckgAggregate" /\ UNCHANGED <<crp, prefix>> /\ combA' = Plus(combA, shareA[i])
          /\ crp \in R
        BY <1>4 DEF CKGAggregate, Aggregate, Turn, secrets, TypeOK
    <2>2. combA = Minus(Times(crp, s)) /\ shareA[i] = Minus(Times(crp, sk[i]))
        BY <2>1 DEF Growing, Shares, Made, TypeOK
    <2>3. combA' = Minus(Times(crp, prefix[i]))
        BY <2>1, <2>2, NextPrefix, SumOfMasks
    <2>4. \/ pc' = "ckgAggregate" /\ i' - 1 = i
          \/ pc' = "ckgFinish" /\ i = N
        BY <1>4, TurnEnds DEF CKGAggregate
    <2> QED
        BY <2>1, <2>3, <2>4 DEF Growing, Whole, Secret
<1>5. CASE GenShareRoundOne /\ pc' = "rkgAggregateOne"
    <2>1. i' = 1 /\ prefix'[0] = zero /\ ephemPrefix'[0] = zero /\ h0' = zero /\ h1' = zero
          /\ crp' \in R /\ w \in R
        <3>1. ephemPrefix'[0] = zero /\ prefix'[0] = zero
            BY StepSums DEF Sums
        <3> QED
            BY <1>5, <3>1, ClosureAssumption DEF GenShareRoundOne, Turn, Empty, rounds, TypeOK
    <2>2. Times(crp', zero) = zero /\ Plus(Minus(Times(crp', zero)), Times(w, zero)) = zero
        BY <2>1, AtZero
    <2> QED
        BY <1>5, <2>1, <2>2 DEF Growing, Whole
<1>6. CASE RoundOneAggregate
    <2>1. pc = "rkgAggregateOne" /\ UNCHANGED <<crp, prefix, ephemPrefix>>
          /\ h0' = Plus(h0, shareA[i]) /\ h1' = Plus(h1, shareB[i]) /\ crp \in R /\ w \in R
        BY <1>6, ClosureAssumption DEF RoundOneAggregate, Aggregate, Turn, secrets, TypeOK
    <2>2. /\ h0 = Plus(Minus(Times(crp, u)), Times(w, s)) /\ h1 = Times(crp, s)
          /\ shareA[i] = Plus(Minus(Times(crp, ephem[i])), Times(w, sk[i]))
          /\ shareB[i] = Times(crp, sk[i])
        BY <2>1 DEF Growing, Shares, Made, TypeOK
    <2>3. /\ h0' = Plus(Minus(Times(crp, ephemPrefix[i])), Times(w, prefix[i]))
          /\ h1' = Times(crp, prefix[i])
        <3>1. /\ Plus(h0, shareA[i]) = Plus(Minus(Times(crp, Plus(u, ephem[i]))), Times(w, Plus(s, sk[i])))
              /\ Plus(h1, shareB[i]) = Times(crp, Plus(s, sk[i]))
            <4>1. s \in R /\ u \in R /\ sk[i] \in R /\ ephem[i] \in R
                BY <2>1, NextPrefix
            <4>2. /\ Plus(h0, shareA[i]) = Plus(Plus(Minus(Times(crp, u)), Times(w, s)),
                                               Plus(Minus(Times(crp, ephem[i])), Times(w, sk[i])))
                  /\ Plus(h1, shareB[i]) = Plus(Times(crp, s), Times(crp, sk[i]))
                BY <2>2
            <4> HIDE DEF s, u
            <4>3. Plus(h1, shareB[i]) = Times(crp, Plus(s, sk[i]))
                BY <2>1, <4>1, <4>2, Distribute
            <4> DEFINE v == ephem[i]   x == sk[i]
            <4>4. v \in R /\ x \in R
                BY <4>1
            <4>5. Plus(h0, shareA[i]) = Plus(Plus(Minus(Times(crp, u)), Times(w, s)),
                                             Plus(Minus(Times(crp, v)), Times(w, x)))
                BY <4>2
            <4> HIDE DEF v, x
            <4>6. Plus(h0, shareA[i]) = Plus(Minus(Times(crp, Plus(u, v))), Times(w, Plus(s, x)))
                BY <2>1, <4>1, <4>4, <4>5, SumOfMasked
            <4> QED
                BY <4>3, <4>6 DEF v, x
        <3>2. prefix[i] = Plus(s, sk[i]) /\ ephemPrefix[i] = Plus(u, ephem[i])
            BY <2>1, NextPrefix
        <3> QED
            BY <2>1, <3>1, <3>2
    <2>4. \/ pc' = "rkgAggregateOne" /\ i' - 1 = i
          \/ pc' = "rkgTwo" /\ i = N
        BY <1>6, TurnEnds DEF RoundOneAggregate
    <2> QED
        BY <2>1, <2>3, <2>4 DEF Growing, Whole, Secret
<1>7. CASE GenShareRoundTwo
    <2>1. /\ pc = "rkgTwo" /\ UNCHANGED <<crp, prefix, ephemPrefix, h0, h1, combA, combB>>
          /\ pc' = "rkgTwo" \/ (pc' = "rkgAggregateTwo" /\ i' = 1)
          /\ h0 \in R /\ h1 \in R
        BY <1>7 DEF GenShareRoundTwo, Turn, secrets, combined, rounds, TypeOK
    <2>2. combA = zero /\ combB = zero /\ prefix[0] = zero /\ ephemPrefix[0] = zero
        BY <2>1 DEF Empty, Sums
    <2>3. Times(h0, zero) = zero /\ Times(h1, Sub(zero, zero)) = zero
        BY <2>1, AtZero
    <2>4. Whole'
        BY <2>1 DEF Whole, Secret
    <2> QED
        BY <2>1, <2>2, <2>3, <2>4 DEF Growing
<1>8. CASE RoundTwoAggregate
    <2>1. /\ pc = "rkgAggregateTwo" /\ UNCHANGED <<crp, prefix, ephemPrefix, h0, h1>>
          /\ combA' = Plus(combA, shareA[i]) /\ combB' = Plus(combB, shareB[i])
          /\ h0 \in R /\ h1 \in R
        BY <1>8 DEF RoundTwoAggregate, Aggregate, Turn, secrets, rounds, TypeOK
    <2>2. /\ combA = Times(h0, s) /\ combB = Times(h1, Sub(u, s))
          /\ shareA[i] = Times(h0, sk[i]) /\ shareB[i] = Times(h1, Sub(ephem[i], sk[i]))
        BY <2>1 DEF Growing, Shares, Made, TypeOK
    <2>3. /\ combA' = Times(h0, prefix[i])
          /\ combB' = Times(h1, Sub(ephemPrefix[i], prefix[i]))
        <3>1. /\ Plus(combA, shareA[i]) = Times(h0, Plus(s, sk[i]))
              /\ Plus(combB, shareB[i]) = Times(h1, Sub(Plus(u, ephem[i]), Plus(s, sk[i])))
            <4>1. s \in R /\ u \in R /\ sk[i] \in R /\ ephem[i] \in R
                BY <2>1, NextPrefix
            <4>2. /\ Plus(combA, shareA[i]) = Plus(Times(h0, s), Times(h0, sk[i]))
                  /\ Plus(combB, shareB[i]) = Plus(Times(h1, Sub(u, s)), Times(h1, Sub(ephem[i], sk[i])))
                BY <2>2
            <4> HIDE DEF s, u
            <4> QED
                BY <2>1, <4>1, <4>2, SumOfDifferences, Distribute
        <3>2. prefix[i] = Plus(s, sk[i]) /\ ephemPrefix[i] = Plus(u, ephem[i])
            BY <2>1, NextPrefix
        <3> QED
            BY <2>1, <3>1, <3>2
    <2>4. \/ pc' = "rkgAggregateTwo" /\ i' - 1 = i
          \/ pc' = "rkgFinish" /\ i = N
        BY <1>8, TurnEnds DEF RoundTwoAggregate
    <2> QED
        BY <2>1, <2>3, <2>4 DEF Growing, Whole, Secret
<1>9. CASE GKGShare /\ pc' = "gkgAggregate"
    <2>1. i' = 1 /\ prefix'[0] = zero /\ combA' = zero /\ crp' \in R /\ w \in R
          /\ Len(gks) + 1 \in DOMAIN GalEls /\ galEl' = galEl
        BY <1>9, ClosureAssumption, GalElsAssumption
        DEF GKGShare, Turn, Empty, Sums, secrets, combined, TypeOK, Stage, InGKG, keys, galEl
    <2>2. Image(galEl, zero) = zero /\ Plus(Minus(Times(crp', zero)), Times(w, zero)) = zero
        BY <2>1, AtZero, ImageOfZero DEF galEl
    <2> QED
        BY <1>9, <2>1, <2>2 DEF Growing, Whole
<1>10. CASE GKGAggregate
    <2>1. /\ pc = "gkgAggregate" /\ UNCHANGED <<crp, prefix, gks>> /\ galEl' = galEl
          /\ combA' = Plus(combA, shareA[i]) /\ crp \in R /\ w \in R
          /\ Len(gks) + 1 \in DOMAIN GalEls
        BY <1>10, ClosureAssumption, GalElsAssumption
        DEF GKGAggregate, Aggregate, Turn, secrets, keys, TypeOK, Stage, InGKG, galEl
    <2>2. /\ combA = Plus(Minus(Times(crp, Image(galEl, s))), Times(w, s))
          /\ shareA[i] = Plus(Minus(Times(crp, Image(galEl, sk[i]))), Times(w, sk[i]))
        BY <2>1 DEF Growing, Shares, Made, TypeOK
    <2>3. /\ Image(galEl, s) \in R /\ Image(galEl, sk[i]) \in R
          /\ Image(galEl, prefix[i]) = Plus(Image(galEl, s), Image(galEl, sk[i]))
        BY <2>1, NextPrefix, ImageAssumption DEF galEl
    <2>4. combA' = Plus(Minus(Times(crp, Image(galEl, prefix[i]))), Times(w, prefix[i]))
        <3>1. Plus(combA, shareA[i])
                = Plus(Minus(Times(crp, Plus(Image(galEl, s), Image(galEl, sk[i])))),
                       Times(w, Plus(s, sk[i])))
            <4>1. s \in R /\ sk[i] \in R
                BY <2>1, NextPrefix
            <4> DEFINE gs == Image(galEl, s)   gx == Image(galEl, sk[i])
            <4>2. Plus(combA, shareA[i]) = Plus(Plus(Minus(Times(crp, gs)), Times(w, s)),
                                                Plus(Minus(Times(crp, gx)), Times(w, sk[i])))
                BY <2>2
            <4>3. gs \in R /\ gx \in R
                BY <2>3
            <4> HIDE DEF s, gs, gx
            <4>4. Plus(combA, shareA[i]) = Plus(Minus(Times(crp, Plus(gs, gx))), Times(w, Plus(s, sk[i])))
                BY <2>1, <4>1, <4>2, <4>3, SumOfMasked
            <4> QED
                BY <4>4 DEF s, gs, gx
        <3>2. prefix[i] = Plus(s, sk[i])
            BY <2>1, NextPrefix
        <3> QED
            BY <2>1, <2>3, <3>1, <3>2
    <2>5. \/ pc' = "gkgAggregate" /\ i' - 1 = i
          \/ pc' = "gkgFinish" /\ i = N
        BY <1>10, TurnEnds DEF GKGAggregate
    <2> QED
        BY <2>1, <2>4, <2>5 DEF Growing, Whole, Secret
<1>11. CASE RefreshFirst
    <2>1. /\ pc = "refreshFirst" /\ UNCHANGED <<crp, prefix, ct>>
          /\ combA' = shareA[1] /\ combB' = shareB[1]
        BY <1>11 DEF RefreshFirst, secrets, cipher
    <2>2. Plus(combA', combB') = Times(Sub(ct[2], crp), sk[1])
        BY <2>1 DEF Shares, Made, Party
    <2>3. prefix[1] = sk[1]
        <3>1. 1 \in Party /\ sk[1] \in R
            BY DEF Party, TypeOK
        <3>2. prefix[1] = Plus(prefix[1 - 1], sk[1]) /\ prefix[0] = zero
            BY <2>1, <3>1 DEF Sums
        <3> QED
            BY <3>1, <3>2, LeftZero
    <2>4. \/ pc' = "refreshAggregate" /\ i' - 1 = 1
          \/ pc' = "refreshFinish" /\ N = 1
        BY <1>11 DEF RefreshFirst, SecondShare
    <2> QED
        BY <2>1, <2>2, <2>3, <2>4 DEF Growing, Whole, Secret
<1>12. CASE RefreshAggregate
    <2>1. /\ pc = "refreshAggregate" /\ UNCHANGED <<crp, prefix, ct>>
          /\ combA' = Plus(combA, shareA[i]) /\ combB' = Plus(combB, shareB[i])
          /\ combA \in R /\ combB \in R /\ shareA[i] \in R /\ shareB[i] \in R
          /\ Sub(ct[2], crp) \in R
        <3>1. pc = "refreshAggregate"
            BY <1>12 DEF RefreshAggregate, Turn
        <3>2. ct[2] \in R /\ crp \in R
            BY <3>1, PairOrNot DEF TypeOK, Stage, InRefresh
        <3>3. Sub(ct[2], crp) \in R
            BY <3>2, Closed
        <3> QED
            BY <1>12, <3>1, <3>3 DEF RefreshAggregate, Aggregate, secrets, cipher, TypeOK
    <2> DEFINE d == Sub(ct[2], crp)
    <2>2. Plus(combA, combB) = Times(d, s) /\ Plus(shareA[i], shareB[i]) = Times(d, sk[i])
        BY <2>1 DEF Growing, Shares, Made, TypeOK
    <2>3. Plus(combA', combB') = Plus(Plus(combA, combB), Plus(shareA[i], shareB[i]))
        BY <2>1, Interchange
    <2> HIDE DEF d
    <2>4. Plus(combA', combB') = Times(d, prefix[i])
        BY <2>1, <2>2, <2>3, NextPrefix, Distribute DEF d
    <2>5. \/ pc' = "refreshAggregate" /\ i' - 1 = i
          \/ pc' = "refreshFinish" /\ i = N
        BY <1>12, TurnEnds DEF RefreshAggregate
    <2> QED
        BY <2>1, <2>4, <2>5 DEF Growing, Whole, Secret, d
<1>13. CASE CKSShare /\ pc' = "cksAggregate"
    <2>1. i' = 1 /\ prefix'[0] = zero /\ combA' = zero /\ ct' # NoKey
        BY <1>13 DEF CKSShare, Turn, Empty, Sums, secrets, combined, Stage, InDecrypt
    <2>2. Times(ct'[2], zero) = zero
        BY <2>1, AtZero, PairOrNot, ClosureAssumption DEF TypeOK
    <2> QED
        BY <1>13, <2>1, <2>2 DEF Growing, Whole
<1>14. CASE CKSAggregate
    <2>1. pc = "cksAggregate" /\ UNCHANGED <<ct, prefix>> /\ combA' = Plus(combA, shareA[i])
          /\ ct[2] \in R
        BY <1>14, PairOrNot DEF CKSAggregate, Aggregate, Turn, secrets, cipher, TypeOK, Stage,
            InDecrypt
    <2>2. combA = Times(ct[2], s) /\ shareA[i] = Times(ct[2], sk[i])
        BY <2>1 DEF Growing, Shares, Made, TypeOK
    <2>3. combA' = Times(ct[2], prefix[i])
        BY <2>1, <2>2, NextPrefix, Distribute
    <2>4. \/ pc' = "cksAggregate" /\ i' - 1 = i
          \/ pc' = "cksFinish" /\ i = N
        BY <1>14, TurnEnds DEF CKSAggregate
    <2> QED
        BY <2>1, <2>3, <2>4 DEF Growing, Whole, Secret
<1> QED
    BY <1>1, <1>2, <1>3, <1>4, <1>5, <1>6, <1>7, <1>8, <1>9, <1>10, <1>11, <1>12, <1>13, <1>14
    DEF Next, Protocols, GenParty, SetupDone, Encrypt, Evaluate, BeginCKG, BeginRKG, BeginGKG,
        BeginRefresh, BeginDecrypt, CKGShare, GenShareRoundOne, GKGShare, RefreshShare, CKSShare,
        GenPublicKey, GenRelinearizationKey, GenGaloisKey, FinalizeRefresh, KeySwitch,
        Turn, Begin, Ends

LEMMA SecretTyped == TypeOK => Secret \in R
BY PartiesAssumption DEF TypeOK, Secret

LEMMA SecretKept ==
    ASSUME TypeOK, [Next]_vars, pc # "genparties"
    PROVE  Secret' = Secret /\ pc' # "genparties"
<1>1. UNCHANGED prefix /\ pc' # "genparties"
    BY DEF Next, Protocols, vars, secrets, GenParty, SetupDone, Encrypt, Evaluate, BeginCKG,
        BeginRKG, BeginGKG, BeginRefresh, BeginDecrypt, CKGShare, CKGAggregate,
        GenShareRoundOne, RoundOneAggregate, GenShareRoundTwo, RoundTwoAggregate, GKGShare,
        GKGAggregate, RefreshShare, RefreshFirst, RefreshAggregate, CKSShare, CKSAggregate,
        GenPublicKey, GenRelinearizationKey, GenGaloisKey, FinalizeRefresh, KeySwitch,
        Turn, Begin, Ends
<1> QED
    BY <1>1 DEF Secret

(* Only the last step of a protocol makes a key ...                        *)
LEMMA KeysKept ==
    ASSUME [Next]_vars, ~GenPublicKey, ~GenRelinearizationKey, ~GenGaloisKey
    PROVE  UNCHANGED keys
BY DEF Next, Protocols, vars, GenParty, SetupDone, Encrypt, Evaluate, BeginCKG,
    BeginRKG, BeginGKG, BeginRefresh, BeginDecrypt, CKGShare, CKGAggregate,
    GenShareRoundOne, RoundOneAggregate, GenShareRoundTwo, RoundTwoAggregate, GKGShare,
    GKGAggregate, RefreshShare, RefreshFirst, RefreshAggregate, CKSShare, CKSAggregate,
    FinalizeRefresh, KeySwitch

(* ... or changes the ciphertext.                                          *)
LEMMA CipherKept ==
    ASSUME [Next]_vars, ~Encrypt, ~Evaluate, ~FinalizeRefresh, ~KeySwitch
    PROVE  UNCHANGED cipher
BY DEF Next, Protocols, vars, cipher, GenParty, SetupDone, BeginCKG,
    BeginRKG, BeginGKG, BeginRefresh, BeginDecrypt, CKGShare, CKGAggregate,
    GenShareRoundOne, RoundOneAggregate, GenShareRoundTwo, RoundTwoAggregate, GKGShare,
    GKGAggregate, RefreshShare, RefreshFirst, RefreshAggregate, CKSShare, CKSAggregate,
    GenPublicKey, GenRelinearizationKey, GenGaloisKey

LEMMA StepKeys ==
    ASSUME TypeOK, Stage, Whole, KeysAreValid, TypeOK', Stage', [Next]_vars
    PROVE  KeysAreValid'
<1>1. CASE pc = "genparties"
    <2>1. pk' = NoKey /\ rlk' = NoKey /\ gks' = <<>>
        BY <1>1, KeysKept DEF Stage, GenPublicKey, GenRelinearizationKey, GenGaloisKey, Ends,
            keys, InSetup, InRKG
    <2> QED
        BY <2>1 DEF KeysAreValid
<1>2. CASE pc # "genparties"
    <2>1. Secret' = Secret /\ Secret \in R /\ crp \in R /\ w \in R
        BY <1>2, SecretKept, SecretTyped, ClosureAssumption DEF TypeOK
    <2>2. CASE GenPublicKey
        <3>1. pk' = <<Minus(Times(crp, Secret)), crp>> /\ UNCHANGED <<rlk, gks>>
            BY <2>2 DEF GenPublicKey, Ends, Whole
        <3>2. Plus(Minus(Times(crp, Secret)), Times(crp, Secret)) = zero
            BY <2>1, PublicKeyHides
        <3> QED
            BY <2>1, <3>1, <3>2 DEF KeysAreValid
    <2>3. CASE GenRelinearizationKey
        <3>1. /\ rlk' = <<Plus(Times(h0, Secret), Times(h1, Sub(ephemPrefix[N], Secret))), h1>>
              /\ UNCHANGED <<pk, gks>>
              /\ h0 = Plus(Minus(Times(crp, ephemPrefix[N])), Times(w, Secret))
              /\ h1 = Times(crp, Secret)
            BY <2>3 DEF GenRelinearizationKey, Ends, Whole
        <3>2. h0 \in R /\ h1 \in R /\ ephemPrefix[N] \in R
            BY PartiesAssumption DEF TypeOK
        <3>3. Plus(Plus(Times(h0, Secret), Times(h1, Sub(ephemPrefix[N], Secret))), Times(h1, Secret))
                = Times(Times(Secret, Secret), w)
            <4> DEFINE U == ephemPrefix[N]
            <4>1. U \in R /\ h0 = Plus(Minus(Times(crp, U)), Times(w, Secret))
                BY <3>1, <3>2
            <4> HIDE DEF U
            <4>2. Plus(Plus(Times(h0, Secret), Times(h1, Sub(U, Secret))), Times(h1, Secret))
                    = Times(Times(Secret, Secret), w)
                BY <2>1, <3>1, <3>2, <4>1, RelinKeyHides
            <4> QED
                BY <4>2 DEF U
        <3> QED
            BY <2>1, <3>1, <3>3 DEF KeysAreValid
    <2>4. CASE GenGaloisKey
        <3> DEFINE n == Len(gks) + 1
                   key == <<Plus(Minus(Times(crp, Image(galEl, Secret))), Times(w, Secret)), crp>>
        <3>1. gks' = Append(gks, key) /\ UNCHANGED <<pk, rlk>> /\ galEl = GalEls[n]
            BY <2>4 DEF GenGaloisKey, Ends, Whole, galEl
        <3>2. n \in DOMAIN GalEls
            BY <2>4, GalElsAssumption DEF GenGaloisKey, Ends, TypeOK, Stage, InGKG
        <3>3. Image(galEl, Secret) \in R /\ Times(w, Secret) \in R /\ Times(w, Secret) = Times(Secret, w)
            BY <2>1, <3>1, <3>2, ImageAssumption, ClosureAssumption, TimesAssumption
        <3>4. Plus(key[1], Times(key[2], Image(galEl, Secret))) = Times(Secret, w)
            BY <2>1, <3>3, GaloisKeyHides
        <3>5. gks \in Seq(Pair)
            BY DEF TypeOK
        <3>6. key \in Pair
            BY <2>1, <3>3, ClosureAssumption DEF Pair
        <3> HIDE DEF key
        <3>7. /\ DOMAIN gks' = 1 .. n /\ gks'[n] = key
              /\ \A g \in DOMAIN gks' : g # n => g \in DOMAIN gks /\ gks'[g] = gks[g]
            BY <3>1, <3>5, <3>6
        <3> QED
            BY <2>1, <3>1, <3>4, <3>7 DEF KeysAreValid
    <2> QED
        BY <2>1, <2>2, <2>3, <2>4, KeysKept DEF KeysAreValid, keys
<1> QED
    BY <1>1, <1>2

LEMMA StepDecrypts ==
    ASSUME TypeOK, Stage, Whole, KeysAreValid, DecryptsToTheMessage, TypeOK', Stage', [Next]_vars
    PROVE  DecryptsToTheMessage'
<1>1. CASE pc = "genparties"
    <2>1. ct' = NoKey /\ opened' = NoKey
        BY <1>1, CipherKept DEF Stage, Encrypt, Evaluate, FinalizeRefresh, KeySwitch, Ends,
            cipher,
            InRefresh, InDecrypt
    <2> QED
        BY <2>1 DEF DecryptsToTheMessage
<1>2. CASE pc # "genparties"
    <2>1. Secret' = Secret /\ Secret \in R /\ crp \in R
        BY <1>2, SecretKept, SecretTyped DEF TypeOK
    <2>2. CASE Encrypt
        <3>1. pk # NoKey /\ pk[1] \in R /\ pk[2] \in R
            BY <2>2, PairOrNot DEF Encrypt, Ends, Stage, InSetup, TypeOK
        <3>2. PICK m \in Messages, v \in Secrets :
                  /\ ct' = <<Plus(Times(v, pk[1]), m), Times(v, pk[2])>>
                  /\ message' = m
            BY <2>2 DEF Encrypt
        <3>3. m \in R /\ v \in R
            BY SamplesAssumption
        <3>4. opened' = NoKey
            BY <2>2 DEF Encrypt, Stage
        <3>5. Plus(ct'[1], Times(ct'[2], Secret)) = m
            BY <2>1, <3>1, <3>2, <3>3, EncryptionOpens DEF KeysAreValid
        <3> QED
            BY <2>1, <3>2, <3>4, <3>5 DEF DecryptsToTheMessage
    <2>3. CASE FinalizeRefresh
        <3>1. ct # NoKey /\ ct[1] \in R /\ ct[2] \in R /\ combA \in R /\ combB \in R
            BY <2>3, PairOrNot DEF FinalizeRefresh, Ends, Stage, InRefresh, TypeOK
        <3>2. /\ ct' = <<Plus(Plus(ct[1], combA), combB), crp>>
              /\ Plus(combA, combB) = Times(Sub(ct[2], crp), Secret)
            BY <2>3 DEF FinalizeRefresh, Ends, Whole
        <3>3. opened' = opened /\ message' = message
            BY <2>3 DEF FinalizeRefresh
        <3>4. Plus(ct'[1], Times(ct'[2], Secret)) = Plus(ct[1], Times(ct[2], Secret))
            <4>1. PICK c \in R, d \in R, a \in R, S \in R, A \in R, B \in R :
                      c = ct[1] /\ d = ct[2] /\ a = crp /\ S = Secret /\ A = combA /\ B = combB
                BY <2>1, <3>1 DEF TypeOK
            <4>2. Plus(A, B) = Times(Sub(d, a), S)
                BY <3>2, <4>1
            <4>3. Plus(Plus(Plus(c, A), B), Times(a, S)) = Plus(c, Times(d, S))
                BY <4>2, RefreshOpens
            <4>4. ct'[1] = Plus(Plus(c, A), B) /\ ct'[2] = a
                BY <3>2, <4>1
            <4> QED
                BY <4>1, <4>3, <4>4
        <3>5. Plus(ct'[1], Times(ct'[2], Secret')) = message'
            BY <2>1, <3>1, <3>3, <3>4 DEF DecryptsToTheMessage
        <3> QED
            BY <3>3, <3>5 DEF DecryptsToTheMessage
    <2>4. CASE KeySwitch
        BY <2>1, <2>4 DEF KeySwitch, Ends, Stage, InDecrypt, Whole, DecryptsToTheMessage
    <2>5. CASE Evaluate
        BY <2>1, <2>5 DEF Evaluate, DecryptsToTheMessage
    <2> QED
        BY <2>1, <2>2, <2>3, <2>4, <2>5, CipherKept DEF DecryptsToTheMessage, cipher
<1> QED
    BY <1>1, <1>2

LEMMA InitIInv == Init => IInv
<1> SUFFICES ASSUME Init
             PROVE  IInv
    OBVIOUS
<1> USE PartiesAssumption, LevelAssumption, ClosureAssumption, GalElsAssumption
    DEF Init, Party, NoShares
<1>1. TypeOK
    BY DEF TypeOK
<1>2. Stage
    BY DEF Stage, InSetup, InRKG, InGKG, InRefresh, InDecrypt
<1>3. Sums
    BY LeftZero DEF Sums
<1>4. Shares /\ Empty /\ Growing /\ Whole
    BY DEF Shares, Made, Empty, Growing, Whole
<1>5. KeysAreValid /\ DecryptsToTheMessage
    BY DEF KeysAreValid, DecryptsToTheMessage
<1> QED
    BY <1>1, <1>2, <1>3, <1>4, <1>5 DEF IInv

LEMMA StepIInv == IInv /\ [Next]_vars => IInv'
BY StepTyped, StepSums, StepShares, StepEmpty, StepCombined, StepKeys, StepDecrypts DEF IInv

(* Every part of the invariant is kept by every step of every protocol.    *)
THEOREM InductiveInvariant == Spec => []IInv
BY InitIInv, StepIInv, PTL DEF Spec

(* However many parties there are and whatever the ring: each is counted   *)
(* once in every aggregate, and the keys of the protocols are those of the *)
(* sum of the secrets.                                                     *)
THEOREM EachShareIsCountedOnce == Spec => []EachShareOnce
<1>1. IInv => EachShareOnce
    BY DEF IInv, EachShareOnce, Growing, Whole
<1> QED
    BY <1>1, InductiveInvariant, PTL

(* What the parties decrypt together is what was encrypted, after any      *)
(* number of refreshes.                                                    *)
THEOREM DecryptionIsCorrect == Spec => []DecryptsToTheMessage
<1>1. IInv => DecryptsToTheMessage
    BY DEF IInv
<1> QED
    BY <1>1, InductiveInvariant, PTL

----------------------------------------------------------------------------
(* The parties act as the dealer does.                                     *)

LEMMA InitDealer == Init => Dealer!Init
BY DEF Init, Dealer!Init, NoKey, Dealer!NoKey

LEMMA StepDealer ==
    ASSUME IInv, IInv', [Next]_vars
    PROVE  [Dealer!Next]_(Dealer!vars)
<1> DEFINE secret == IF pc = "genparties" THEN NoKey ELSE Secret
<1>1. TypeOK /\ Stage /\ TypeOK' /\ Stage' /\ KeysAreValid' /\ DecryptsToTheMessage
      /\ DecryptsToTheMessage'
    BY DEF IInv
<1>2. Secret \in R /\ Secret' \in R
    BY <1>1, PartiesAssumption DEF TypeOK, Secret
<1>3. pc # "genparties" => secret = Secret /\ secret' = Secret /\ secret # NoKey /\ Secret' = Secret
    BY <1>1, <1>2, SecretKept, NoKeyAssumption
<1> USE DEF NoKey, Dealer!NoKey, Dealer!Next, Dealer!vars
<1>4. CASE GenParty
    <2>1. pc = "genparties" /\ UNCHANGED <<pk, rlk, gks, ct, level, opened>>
        BY <1>4 DEF GenParty, Turn, keys, cipher
    <2>2. CASE pc' = "genparties"
        BY <2>1, <2>2
    <2>3. CASE pc' # "genparties"
        <3>1. Dealer!Agree
            BY <1>2, <2>1, <2>3 DEF Dealer!Agree
        <3> QED
            BY <3>1
    <2> QED
        BY <2>2, <2>3
<1>5. CASE GenPublicKey
    <2>1. pc # "genparties" /\ pk = NoKey /\ pk' # NoKey /\ UNCHANGED <<rlk, gks, ct, level, opened>>
        BY <1>1, <1>5, PairOrNot DEF GenPublicKey, Ends, Stage, InSetup, cipher
    <2>2. pk' \in R \X R /\ Plus(pk'[1], Times(pk'[2], Secret)) = zero
        BY <1>1, <1>3, <2>1 DEF KeysAreValid, TypeOK, Pair
    <2>3. Dealer!PublishPublicKey
        BY <1>3, <2>1, <2>2 DEF Dealer!PublishPublicKey, Dealer!Hides
    <2> QED
        BY <2>3
<1>6. CASE GenRelinearizationKey
    <2>1. pc # "genparties" /\ pk # NoKey /\ rlk = NoKey /\ rlk' # NoKey
          /\ UNCHANGED <<pk, gks, ct, level, opened>>
        BY <1>1, <1>6, PairOrNot DEF GenRelinearizationKey, Ends, Stage, InSetup, InRKG, cipher
    <2>2. /\ rlk' \in R \X R
          /\ Plus(rlk'[1], Times(rlk'[2], Secret)) = Times(Times(Secret, Secret), w)
        BY <1>1, <1>3, <2>1 DEF KeysAreValid, TypeOK, Pair
    <2>3. Dealer!PublishRelinKey
        BY <1>3, <2>1, <2>2 DEF Dealer!PublishRelinKey, Dealer!Hides
    <2> QED
        BY <2>3
<1>7. CASE GenGaloisKey
    <2> DEFINE n == Len(gks) + 1   key == <<combA, crp>>
    <2>1. pc # "genparties" /\ rlk # NoKey /\ Len(gks) < Len(GalEls) /\ gks' = Append(gks, key)
          /\ UNCHANGED <<pk, rlk, ct, level, opened>>
        BY <1>1, <1>7 DEF GenGaloisKey, Ends, Stage, InSetup, InRKG, InGKG, cipher
    <2>2. key \in R \X R /\ gks \in Seq(R \X R)
        BY <1>1 DEF TypeOK, Pair
    <2> HIDE DEF key
    <2>3. n \in DOMAIN gks' /\ gks'[n] = key
        BY <2>1, <2>2
    <2>4. Plus(key[1], Times(key[2], Image(GalEls[n], Secret))) = Times(Secret, w)
        BY <1>1, <1>3, <2>1, <2>3 DEF KeysAreValid
    <2>5. Dealer!Hides(key, Image(GalEls[Len(gks) + 1], secret), Times(secret, w))
        BY <1>3, <2>1, <2>2, <2>4 DEF Dealer!Hides
    <2>6. Dealer!PublishGaloisKey
        BY <1>3, <2>1, <2>2, <2>5 DEF Dealer!PublishGaloisKey
    <2> QED
        BY <2>6
<1>8. CASE Encrypt
    <2>1. pc # "genparties" /\ Len(gks) = Len(GalEls) /\ ct = NoKey
          /\ UNCHANGED <<pk, rlk, gks, level, opened>>
        BY <1>1, <1>8 DEF Encrypt, Ends, Stage, keys
    <2>2. ct' \in R \X R
        BY <1>1, <1>8, PairOrNot DEF Encrypt, TypeOK, Pair
    <2>3. Dealer!Encrypt
        BY <1>3, <2>1, <2>2 DEF Dealer!Encrypt
    <2> QED
        BY <2>3
<1>9. CASE Evaluate
    <2>1. pc # "genparties" /\ ct # NoKey /\ level' \in 0 .. level
          /\ UNCHANGED <<pk, rlk, gks, ct, opened>>
        BY <1>1, <1>9, LevelAssumption DEF Evaluate, Ends, TypeOK, keys
    <2>2. Dealer!Evaluate
        BY <1>3, <2>1 DEF Dealer!Evaluate
    <2> QED
        BY <2>2
<1>10. CASE FinalizeRefresh
    <2>1. pc # "genparties" /\ ct # NoKey /\ ct' # NoKey /\ level' = MaxLevel
          /\ UNCHANGED <<pk, rlk, gks, opened, message>>
        BY <1>1, <1>10, PairOrNot DEF FinalizeRefresh, Ends, Stage, InRefresh, OutputLevel, keys
    <2>2. ct' \in R \X R
        BY <1>1, <2>1 DEF TypeOK, Pair
    <2>3. Plus(ct'[1], Times(ct'[2], Secret)) = Plus(ct[1], Times(ct[2], Secret))
        BY <1>1, <1>3, <2>1 DEF DecryptsToTheMessage
    <2>4. Dealer!Refresh
        BY <1>3, <2>1, <2>2, <2>3 DEF Dealer!Refresh, Dealer!Plaintext
    <2> QED
        BY <2>4
<1>11. CASE KeySwitch
    <2>1. pc # "genparties" /\ ct # NoKey /\ UNCHANGED <<pk, rlk, gks, ct, level, message>>
        BY <1>1, <1>11 DEF KeySwitch, Ends, Stage, InDecrypt, keys
    <2>2. opened' # NoKey
        <3>1. Plus(ct[1], combA) \in R
            BY <1>1, <2>1, PairOrNot, ClosureAssumption DEF TypeOK
        <3> QED
            BY <1>11, <3>1, NoKeyAssumption DEF KeySwitch
    <2>3. opened' = Plus(ct[1], Times(ct[2], Secret))
        BY <1>1, <2>1, <2>2 DEF DecryptsToTheMessage
    <2>4. Dealer!Decrypt
        BY <1>3, <2>1, <2>3 DEF Dealer!Decrypt, Dealer!Plaintext
    <2> QED
        BY <2>4
<1>12. CASE /\ ~GenParty /\ ~GenPublicKey /\ ~GenRelinearizationKey /\ ~GenGaloisKey
            /\ ~Encrypt /\ ~Evaluate /\ ~FinalizeRefresh /\ ~KeySwitch
    <2>1. UNCHANGED <<pk, rlk, gks, ct, level, opened>>
        BY <1>12, KeysKept, CipherKept DEF keys, cipher
    <2>2. UNCHANGED secret
        <3>1. CASE pc = "genparties"
            <4>1. UNCHANGED vars
                BY <1>12, <3>1 DEF Next, Protocols, SetupDone, BeginCKG, BeginRKG, BeginGKG,
                    BeginRefresh, BeginDecrypt, CKGShare, CKGAggregate, GenShareRoundOne,
                    RoundOneAggregate, GenShareRoundTwo, RoundTwoAggregate, GKGShare,
                    GKGAggregate, RefreshShare, RefreshFirst, RefreshAggregate, CKSShare,
                    CKSAggregate, Turn, Begin, Ends
            <4> QED
                BY <4>1 DEF vars, secrets, Secret
        <3>2. CASE pc # "genparties"
            BY <1>3, <3>2
        <3> QED
            BY <3>1, <3>2
    <2> QED
        BY <2>1, <2>2
<1> QED
    BY <1>4, <1>5, <1>6, <1>7, <1>8, <1>9, <1>10, <1>11, <1>12

(* The protocols of the parties implement the dealer's specification.      *)
THEOREM PartiesActAsDealer == Spec => ActsAsDealer
<1>1. IInv /\ IInv' /\ [Next]_vars => [Dealer!Next]_(Dealer!vars)
    BY StepDealer
<1> QED
    BY <1>1, InitDealer, InductiveInvariant, PTL DEF Spec, ActsAsDealer, Dealer!Spec
----------------------------------------------------------------------------
(* The accounting of a run.                                                *)

NoPhase == Accounting!NoPhase
NoProtocol == Accounting!NoProtocol

Open == phase # NoPhase

(* Time the running protocol will be charged with.                         *)
Pending == IF protocol = NoProtocol THEN 0 ELSE clock - protocol.wallStart

Record == [name : Nat, wall : Nat, multipartyWall : Nat, server : Nat]

(* Time is charged once: an open phase's is its protocols', ended or       *)
(* running, and its server's; so is a recorded one's.                      *)
Balanced ==
    /\ clock \in Nat /\ multipartyWall \in Nat /\ server \in Nat
    /\ phase \in [name : Nat, startWall : Nat, startMultipartyWall : Nat]
    /\ protocol.wallStart \in Nat /\ protocol.wallStart <= clock
    /\ Open => /\ phase.startMultipartyWall <= multipartyWall
               /\ clock = phase.startWall + (multipartyWall - phase.startMultipartyWall)
                             + server + Pending
    /\ phases \in Seq(Record)
    /\ \A k \in DOMAIN phases : phases[k].wall = phases[k].multipartyWall + phases[k].server

AccountingActions ==
    \/ \E name \in Nat \ {0} : Accounting!StartPhase(name)
    \/ Accounting!Stop
    \/ \E counts \in BOOLEAN : Accounting!Work(counts)
    \/ \E name : Accounting!timeMultiparty(name)
    \/ Accounting!EndOfProtocol
    \/ Accounting!Panic

(* What the composition does with the accounts.                            *)
LEMMA AccountsStep ==
    ASSUME CNext
    PROVE  AccountingActions \/ UNCHANGED accounts
<1>1. CASE Phases
    <2>1. CASE Accounting!Stop
        BY <2>1 DEF AccountingActions
    <2>2. ASSUME NEW name \in Follows(LastPhase), Accounting!StartPhase(name)
          PROVE  AccountingActions
        <3>1. name \in Nat \ {0}
            BY DEF Follows, SetupPhase, EchoPhase, SupportPhase, ResultPhase
        <3> QED
            BY <2>2, <3>1 DEF AccountingActions
    <2> QED
        BY <1>1, <2>1, <2>2 DEF Phases
<1>2. CASE Begins
    <2>1. (\E name : Accounting!timeMultiparty(name)) \/ UNCHANGED accounts
        BY <1>2 DEF Begins
    <2> QED
        BY <2>1 DEF AccountingActions
<1>3. CASE Works
    <2>1. Accounting!Work(FALSE) \/ Accounting!Work(TRUE)
          \/ Accounting!Work(pc \in {"refreshShare", "refreshAggregate"})
        BY <1>3 DEF Works
    <2>2. (pc \in {"refreshShare", "refreshAggregate"}) \in BOOLEAN
        OBVIOUS
    <2> QED
        BY <2>1, <2>2 DEF AccountingActions
<1>4. CASE Finishes
    BY <1>4 DEF Finishes, AccountingActions
<1>5. CASE Panics
    BY <1>5 DEF Panics, AccountingActions
<1> QED
    BY <1>1, <1>2, <1>3, <1>4, <1>5 DEF CNext

LEMMA InitBalanced == Accounting!Init => Balanced
BY DEF Accounting!Init, Balanced, Open, NoPhase, NoProtocol, Accounting!NoPhase,
       Accounting!NoProtocol, Accounting!init

LEMMA KeepsBalance ==
    ASSUME Balanced, AccountingActions \/ UNCHANGED accounts
    PROVE  Balanced'
<1> USE DEF NoPhase, NoProtocol
<1>1. CASE \E name \in Nat \ {0} : Accounting!StartPhase(name)
    <2>1. PICK name \in Nat \ {0} : Accounting!StartPhase(name)
        BY <1>1
    <2>2. phase' = [name |-> name, startWall |-> clock, startMultipartyWall |-> multipartyWall]
          /\ protocol = NoProtocol /\ server' = 0
          /\ UNCHANGED <<clock, protocol, multipartyWall, phases>>
        BY <2>1 DEF Accounting!StartPhase, Accounting!ProtocolTimeSoFar
    <2> QED
        BY <2>2 DEF Balanced, Open, Pending
<1>2. CASE Accounting!Stop
    <2> DEFINE record == [name |-> phase.name, wall |-> clock - phase.startWall,
                          multipartyWall |-> multipartyWall - phase.startMultipartyWall,
                          server |-> server]
    <2>1. /\ phase # NoPhase /\ protocol = NoProtocol /\ phases' = Append(phases, record)
          /\ phase' = NoPhase /\ UNCHANGED <<clock, protocol, multipartyWall, server>>
        BY <1>2 DEF Accounting!Stop
    <2>2. /\ record \in Record /\ record.wall = record.multipartyWall + record.server
        BY <2>1 DEF Balanced, Open, Pending, Record
    <2> HIDE DEF record
    <2>3. phases' \in Seq(Record)
        BY <2>1, <2>2 DEF Balanced
    <2>4. \A k \in DOMAIN phases' : phases'[k].wall = phases'[k].multipartyWall + phases'[k].server
        <3> SUFFICES ASSUME NEW k \in DOMAIN phases'
                     PROVE  phases'[k].wall = phases'[k].multipartyWall + phases'[k].server
            OBVIOUS
        <3>1. phases'[k] = record \/ (k \in DOMAIN phases /\ phases'[k] = phases[k])
            BY <2>1, <2>2 DEF Balanced
        <3> QED
            BY <2>2, <3>1 DEF Balanced
    <2>5. phase' \in [name : Nat, startWall : Nat, startMultipartyWall : Nat] /\ ~Open'
        BY <2>1 DEF Accounting!NoPhase, Accounting!init, Open
    <2> QED
        BY <2>1, <2>3, <2>4, <2>5 DEF Balanced
<1>3. CASE \E counts \in BOOLEAN : Accounting!Work(counts)
    <2>1. /\ clock' = clock + 1
          /\ server' = IF phase # NoPhase /\ protocol = NoProtocol THEN server + 1 ELSE server
          /\ UNCHANGED <<phase, protocol, multipartyWall, phases>>
        BY <1>3 DEF Accounting!Work
    <2>2. /\ clock' \in Nat /\ server' \in Nat /\ protocol'.wallStart \in Nat
          /\ protocol'.wallStart <= clock'
        BY <2>1 DEF Balanced
    <2>3. Open' => /\ phase'.startMultipartyWall <= multipartyWall'
                   /\ clock' = phase'.startWall + (multipartyWall' - phase'.startMultipartyWall)
                                  + server' + Pending'
        <3> SUFFICES ASSUME Open'
                     PROVE  /\ phase'.startMultipartyWall <= multipartyWall'
                            /\ clock' = phase'.startWall
                                   + (multipartyWall' - phase'.startMultipartyWall)
                                   + server' + Pending'
            OBVIOUS
        <3>1. PICK a \in Nat, b \in Nat, c \in Nat, d \in Nat, e \in Nat, start \in Nat :
                  /\ a = clock /\ b = phase.startWall /\ c = phase.startMultipartyWall
                  /\ d = multipartyWall /\ e = server /\ start = protocol.wallStart
                  /\ c <= d /\ a = b + (d - c) + e + Pending
            BY <2>1 DEF Balanced, Open
        <3>2. CASE protocol = NoProtocol
            BY <2>1, <3>1, <3>2 DEF Pending, Open
        <3>3. CASE protocol # NoProtocol
            BY <2>1, <3>1, <3>3 DEF Pending, Open
        <3> QED
            BY <3>2, <3>3
    <2> QED
        BY <2>1, <2>2, <2>3 DEF Balanced
<1>4. CASE \E name : Accounting!timeMultiparty(name)
    <2>1. /\ protocol = NoProtocol /\ protocol'.wallStart = clock
          /\ UNCHANGED <<clock, phase, multipartyWall, phases, server>>
        BY <1>4 DEF Accounting!timeMultiparty
    <2> QED
        BY <2>1 DEF Balanced, Open, Pending
<1>5. ASSUME Accounting!Timed, protocol # NoProtocol, UNCHANGED <<clock, phase, phases, server>>
      PROVE  Balanced'
    <2>1. multipartyWall' = multipartyWall + (clock - protocol.wallStart) /\ protocol' = NoProtocol
        BY <1>5 DEF Accounting!Timed
    <2>2. protocol'.wallStart = 0
        BY <2>1 DEF Accounting!NoProtocol
    <2>3. PICK a \in Nat, d \in Nat, start \in Nat :
              a = clock /\ d = multipartyWall /\ start = protocol.wallStart /\ start <= a
        BY DEF Balanced
    <2>4. multipartyWall' = d + (a - start) /\ multipartyWall' \in Nat /\ d <= multipartyWall'
        BY <2>1, <2>3
    <2>5. Open => /\ phase.startMultipartyWall <= multipartyWall'
                  /\ clock = phase.startWall + (multipartyWall' - phase.startMultipartyWall)
                                + server + 0
        <3> SUFFICES ASSUME Open
                     PROVE  /\ phase.startMultipartyWall <= multipartyWall'
                            /\ clock = phase.startWall
                                   + (multipartyWall' - phase.startMultipartyWall) + server + 0
            OBVIOUS
        <3>1. PICK b \in Nat, c \in Nat, e \in Nat :
                  b = phase.startWall /\ c = phase.startMultipartyWall /\ e = server
            BY DEF Balanced
        <3>2. Pending = a - start
            BY <1>5, <2>3 DEF Pending
        <3>3. c <= d /\ a = b + (d - c) + e + (a - start)
            BY <2>3, <3>1, <3>2 DEF Balanced
        <3>4. PICK x \in Nat : x = multipartyWall' /\ x = d + (a - start)
            BY <2>4
        <3>5. c <= x /\ a = b + (x - c) + e + 0
            BY <2>3, <3>1, <3>3, <3>4
        <3> QED
            BY <2>3, <3>1, <3>4, <3>5
    <2> QED
        BY <1>5, <2>1, <2>2, <2>4, <2>5 DEF Balanced, Open, Pending
<1>6. CASE Accounting!EndOfProtocol
    BY <1>5, <1>6 DEF Accounting!EndOfProtocol
<1>7. CASE Accounting!Panic
    <2>1. CASE protocol # NoProtocol
        BY <1>5, <1>7, <2>1 DEF Accounting!Panic
    <2>2. CASE protocol = NoProtocol
        BY <1>7, <2>2 DEF Accounting!Panic, Balanced, Open, Pending
    <2> QED
        BY <2>1, <2>2
<1>8. CASE UNCHANGED accounts
    BY <1>8 DEF accounts, Balanced, Open, Pending
<1> QED
    BY <1>1, <1>2, <1>3, <1>4, <1>6, <1>7, <1>8 DEF AccountingActions

(* The sums of summarize.py, over functions.                               *)
LEMMA SumOfWalls ==
    ASSUME NEW S, IsFiniteSet(S), NEW f, \A k \in S : f[k] = phases[k].wall
    PROVE  Accounting!MapThenSumSet(LAMBDA k : phases[k].wall, S) = SumOver(f, S)
<1> DEFINE Adding(h) ==
               h = [u \in SUBSET S |->
                       IF u = {} THEN 0
                       ELSE phases[CHOOSE x \in u : TRUE].wall + h[u \ {CHOOSE x \in u : TRUE}]]
           sum == CHOOSE h : Adding(h)
<1>1. Accounting!MapThenSumSet(LAMBDA k : phases[k].wall, S) = sum[S]
    BY DEF Accounting!MapThenSumSet, Accounting!MapThenFoldSet
<1>2. PICK h : Adds(h, f, S)
    BY AddsExists
<1>3. \A u \in SUBSET S : u # {} =>
          f[CHOOSE x \in u : TRUE] = phases[CHOOSE x \in u : TRUE].wall
    OBVIOUS
<1>4. Adding(h)
    BY <1>2, <1>3 DEF Adds
<1> HIDE DEF Adding
<1>5. Adding(sum)
    BY <1>4
<1> HIDE DEF sum
<1>6. Adds(sum, f, S)
    BY <1>3, <1>5 DEF Adds, Adding
<1>7. sum[S] = SumOver(f, S)
    BY <1>6, SumAdds
<1> QED
    BY <1>1, <1>7

LEMMA SumOfMultipartyWalls ==
    ASSUME NEW S, IsFiniteSet(S), NEW f, \A k \in S : f[k] = phases[k].multipartyWall
    PROVE  Accounting!MapThenSumSet(LAMBDA k : phases[k].multipartyWall, S) = SumOver(f, S)
<1> DEFINE Adding(h) ==
               h = [u \in SUBSET S |->
                       IF u = {} THEN 0
                       ELSE phases[CHOOSE x \in u : TRUE].multipartyWall + h[u \ {CHOOSE x \in u : TRUE}]]
           sum == CHOOSE h : Adding(h)
<1>1. Accounting!MapThenSumSet(LAMBDA k : phases[k].multipartyWall, S) = sum[S]
    BY DEF Accounting!MapThenSumSet, Accounting!MapThenFoldSet
<1>2. PICK h : Adds(h, f, S)
    BY AddsExists
<1>3. \A u \in SUBSET S : u # {} =>
          f[CHOOSE x \in u : TRUE] = phases[CHOOSE x \in u : TRUE].multipartyWall
    OBVIOUS
<1>4. Adding(h)
    BY <1>2, <1>3 DEF Adds
<1> HIDE DEF Adding
<1>5. Adding(sum)
    BY <1>4
<1> HIDE DEF sum
<1>6. Adds(sum, f, S)
    BY <1>3, <1>5 DEF Adds, Adding
<1>7. sum[S] = SumOver(f, S)
    BY <1>6, SumAdds
<1> QED
    BY <1>1, <1>7

LEMMA SumOfServers ==
    ASSUME NEW S, IsFiniteSet(S), NEW f, \A k \in S : f[k] = phases[k].server
    PROVE  Accounting!MapThenSumSet(LAMBDA k : phases[k].server, S) = SumOver(f, S)
<1> DEFINE Adding(h) ==
               h = [u \in SUBSET S |->
                       IF u = {} THEN 0
                       ELSE phases[CHOOSE x \in u : TRUE].server + h[u \ {CHOOSE x \in u : TRUE}]]
           sum == CHOOSE h : Adding(h)
<1>1. Accounting!MapThenSumSet(LAMBDA k : phases[k].server, S) = sum[S]
    BY DEF Accounting!MapThenSumSet, Accounting!MapThenFoldSet
<1>2. PICK h : Adds(h, f, S)
    BY AddsExists
<1>3. \A u \in SUBSET S : u # {} =>
          f[CHOOSE x \in u : TRUE] = phases[CHOOSE x \in u : TRUE].server
    OBVIOUS
<1>4. Adding(h)
    BY <1>2, <1>3 DEF Adds
<1> HIDE DEF Adding
<1>5. Adding(sum)
    BY <1>4
<1> HIDE DEF sum
<1>6. Adds(sum, f, S)
    BY <1>3, <1>5 DEF Adds, Adding
<1>7. sum[S] = SumOver(f, S)
    BY <1>6, SumAdds
<1> QED
    BY <1>1, <1>7

(* A recorded phase's wall time is its protocols' and its server's, so what*)
(* summarize.py subtracts leaves the server's.                             *)
LEMMA BalanceSeparates == Balanced => ServerTimeIsSeparated
<1> SUFFICES ASSUME Balanced PROVE ServerTimeIsSeparated
    OBVIOUS
<1> DEFINE S == {k \in DOMAIN phases : phases[k].name \in MCTallyPhases}
           walls == [k \in S |-> phases[k].wall]
           protocols == [k \in S |-> phases[k].multipartyWall]
           servers == [k \in S |-> phases[k].server]
<1>1. IsFiniteSet(S)
    <2>1. PICK n \in Nat : DOMAIN phases = 1 .. n
        BY DEF Balanced
    <2>2. IsFiniteSet(1 .. n)
        BY FS_Interval
    <2> QED
        BY <2>1, <2>2, FS_Subset
<1>2. \A k \in S : /\ walls[k] = phases[k].wall /\ protocols[k] = phases[k].multipartyWall
                  /\ servers[k] = phases[k].server
                  /\ protocols[k] \in Nat /\ servers[k] \in Nat
                  /\ walls[k] = protocols[k] + servers[k]
    <2> SUFFICES ASSUME NEW k \in S
                 PROVE  /\ phases[k].multipartyWall \in Nat /\ phases[k].server \in Nat
                        /\ phases[k].wall = phases[k].multipartyWall + phases[k].server
        OBVIOUS
    <2>1. k \in DOMAIN phases /\ phases \in Seq(Record)
        BY DEF Balanced
    <2>2. phases[k] \in Record
        BY <2>1
    <2> QED
        BY <2>1, <2>2 DEF Balanced, Record
<1>3. /\ Accounting!MapThenSumSet(LAMBDA k : phases[k].server, S) = SumOver(servers, S)
      /\ Accounting!serverDownstream
            = Accounting!Larger(0, SumOver(walls, S) - SumOver(protocols, S))
    <2> HIDE DEF walls, protocols, servers
    <2>1. /\ Accounting!MapThenSumSet(LAMBDA k : phases[k].wall, S) = SumOver(walls, S)
          /\ Accounting!MapThenSumSet(LAMBDA k : phases[k].multipartyWall, S)
                = SumOver(protocols, S)
          /\ Accounting!MapThenSumSet(LAMBDA k : phases[k].server, S) = SumOver(servers, S)
        BY <1>1, <1>2, SumOfWalls, SumOfMultipartyWalls, SumOfServers
    <2>2. Accounting!TallyRecords = S
        BY DEF Accounting!TallyRecords
    <2> QED
        BY <2>1, <2>2 DEF Accounting!serverDownstream
<1> HIDE DEF walls, protocols, servers
<1>4. SumOver(walls, S) = SumOver(protocols, S) + SumOver(servers, S)
    BY <1>1, <1>2, SumPlus
<1>5. PICK a \in Nat, b \in Nat : a = SumOver(protocols, S) /\ b = SumOver(servers, S)
    BY <1>1, <1>2, SumOfNaturals
<1>6. Accounting!serverDownstream = SumOver(servers, S)
    <2>1. (a + b) - a = b /\ (0 < b \/ b = 0)
        OBVIOUS
    <2> QED
        BY <1>3, <1>4, <1>5, <2>1 DEF Accounting!Larger
<1> QED
    BY <1>3, <1>6 DEF ServerTimeIsSeparated, Accounting!ServerTimeIsSeparated

(* server_downstream of summarize.py is the time the server itself spent in*)
(* the tally's phases, and its floor at zero never hides a wrong           *)
(* difference, for all constants and however main runs or panics.          *)
THEOREM ServerTimeIsAlwaysSeparated == CSpec => []ServerTimeIsSeparated
<1>1. CInit => Balanced
    BY InitBalanced DEF CInit
<1>2. Balanced /\ [CNext]_<<vars, accounts>> => Balanced'
    BY AccountsStep, KeepsBalance
<1> QED
    BY <1>1, <1>2, BalanceSeparates, PTL DEF CSpec

----------------------------------------------------------------------------
(* Which protocols and phases the time is charged to.                      *)

Claims == [k \in DOMAIN phases |-> phases[k].multipartyWall]

(* The components hold all the protocols' time, and the recorded phases    *)
(* none that the open one will claim.                                      *)
Attributed ==
    /\ IsFiniteSet(DOMAIN components) /\ \A n \in DOMAIN components : components[n] \in Nat
    /\ SumOver(components, DOMAIN components) = multipartyWall
    /\ SumOver(Claims, DOMAIN phases)
          <= IF Open THEN phase.startMultipartyWall ELSE multipartyWall

LEMMA InitAttributed == Accounting!Init => Attributed
<1> SUFFICES ASSUME Accounting!Init PROVE Attributed
    OBVIOUS
<1>1. /\ components = <<>> /\ phases = <<>> /\ multipartyWall = 0 /\ ~Open
    BY DEF Accounting!Init, Open, NoPhase
<1>2. DOMAIN components = {} /\ DOMAIN phases = {}
    BY <1>1
<1>3. SumOver(components, {}) = 0 /\ SumOver(Claims, {}) = 0
    BY SumEmpty
<1> QED
    BY <1>1, <1>2, <1>3, FS_EmptySet DEF Attributed

(* g is f with more at n, which need not be in f's domain S.               *)
Raised(g, f, S, n, more) ==
    /\ \A x \in S : f[x] \in Nat
    /\ g[n] = IF n \in S THEN f[n] + more ELSE more
    /\ \A x \in S \ {n} : g[x] = f[x]

(* A sum grows by what one of its terms grows by, or a new one is.         *)
LEMMA SumRaised ==
    ASSUME NEW f, NEW S, IsFiniteSet(S), NEW g, NEW n, NEW more \in Nat,
           Raised(g, f, S, n, more)
    PROVE  SumOver(g, S \cup {n}) = SumOver(f, S) + more
<1> USE DEF Raised
<1>1. IsFiniteSet(S \ {n}) /\ IsFiniteSet(S \cup {n}) /\ (S \cup {n}) \ {n} = S \ {n}
    BY FS_RemoveElement, FS_AddElement
<1>2. g[n] \in Int /\ \A x \in S \cup {n} : g[x] \in Int
    OBVIOUS
<1>3. SumOver(g, S \cup {n}) = g[n] + SumOver(g, S \ {n})
    <2>1. SumOver(g, S \cup {n}) = g[n] + SumOver(g, (S \cup {n}) \ {n})
        BY <1>1, <1>2, SumRemove
    <2> QED
        BY <1>1, <2>1
<1>4. SumOver(g, S \ {n}) = SumOver(f, S \ {n}) /\ SumOver(f, S \ {n}) \in Int
    BY <1>1, SumSame, SumInteger
<1>5. CASE n \in S
    <2>1. SumOver(f, S) = f[n] + SumOver(f, S \ {n})
        BY <1>5, SumRemove
    <2>2. PICK a \in Int, b \in Nat : a = SumOver(f, S \ {n}) /\ b = f[n]
        BY <1>4, <1>5
    <2>3. g[n] = b + more
        BY <1>5, <2>2
    <2>4. SumOver(g, S \cup {n}) = (b + more) + a /\ SumOver(f, S) = b + a
        BY <1>3, <1>4, <2>1, <2>2, <2>3
    <2>5. (b + more) + a = (b + a) + more
        OBVIOUS
    <2> QED
        BY <2>4, <2>5
<1>6. CASE n \notin S
    <2>1. S \ {n} = S /\ g[n] = more
        BY <1>6
    <2>2. PICK a \in Int : a = SumOver(f, S)
        BY <1>4, <2>1
    <2>3. SumOver(f, S \ {n}) = SumOver(f, S)
        BY <2>1
    <2>4. SumOver(g, S \ {n}) = a
        BY <1>4, <2>2, <2>3
    <2>5. SumOver(g, S \cup {n}) = more + a
        BY <1>3, <2>1, <2>4
    <2> QED
        BY <2>2, <2>5
<1> QED
    BY <1>5, <1>6

LEMMA ClaimsAreTimes ==
    ASSUME Balanced
    PROVE  \A k \in DOMAIN phases : Claims[k] \in Nat
<1> SUFFICES ASSUME NEW k \in DOMAIN phases PROVE phases[k].multipartyWall \in Nat
    BY DEF Claims
<1>1. phases \in Seq(Record)
    BY DEF Balanced
<1>2. phases[k] \in Record
    BY <1>1
<1> QED
    BY <1>2 DEF Record

LEMMA KeepsAttribution ==
    ASSUME Balanced, Attributed, AccountingActions \/ UNCHANGED accounts
    PROVE  Attributed'
<1> USE DEF NoPhase, NoProtocol
<1>1. PICK mw \in Nat : mw = multipartyWall
    BY DEF Balanced
<1>2. SumOver(Claims, DOMAIN phases) \in Nat
    <2>1. PICK n \in Nat : DOMAIN phases = 1 .. n
        BY DEF Balanced
    <2>2. IsFiniteSet(1 .. n)
        BY FS_Interval
    <2>3. \A k \in DOMAIN phases : Claims[k] \in Nat
        BY ClaimsAreTimes
    <2> HIDE DEF Claims
    <2> QED
        BY <2>1, <2>2, <2>3, SumOfNaturals
<1>3. ASSUME UNCHANGED <<components, multipartyWall, phases>>,
             Open' => phase'.startMultipartyWall
                          = IF Open THEN phase.startMultipartyWall ELSE multipartyWall,
             ~Open' => ~Open
      PROVE  Attributed'
    BY <1>3 DEF Attributed, Claims
<1>4. CASE \E name \in Nat \ {0} : Accounting!StartPhase(name)
    <2>1. PICK name \in Nat \ {0} : Accounting!StartPhase(name)
        BY <1>4
    <2>2. /\ ~Open /\ phase'.startMultipartyWall = multipartyWall
          /\ phase'.name = name /\ UNCHANGED <<components, multipartyWall, phases>>
        BY <2>1 DEF Accounting!StartPhase, Accounting!ProtocolTimeSoFar, Open
    <2>3. Open'
        BY <2>2 DEF Open, Accounting!NoPhase, Accounting!init
    <2> QED
        BY <1>3, <2>2, <2>3
<1>5. CASE Accounting!Stop
    <2>1. PICK record : /\ record = [name |-> phase.name, wall |-> clock - phase.startWall,
                                     multipartyWall |-> multipartyWall - phase.startMultipartyWall,
                                     server |-> server]
                        /\ phases' = Append(phases, record)
        BY <1>5 DEF Accounting!Stop
    <2>2. Open /\ ~Open' /\ UNCHANGED <<components, multipartyWall>>
        BY <1>5 DEF Accounting!Stop, Open
    <2>3. PICK start \in Nat : start = phase.startMultipartyWall /\ start <= mw
        BY <1>1, <2>2 DEF Balanced
    <2>4. record.multipartyWall = mw - start
        BY <1>1, <2>1, <2>3
    <2>5. PICK n \in Nat : DOMAIN phases = 1 .. n /\ n = Len(phases)
        BY DEF Balanced
    <2>6. /\ DOMAIN phases' = 1 .. n + 1 /\ phases'[n + 1] = record
          /\ \A k \in 1 .. n : phases'[k] = phases[k]
        BY <2>1, <2>5 DEF Balanced
    <2>7. PICK f, g : f = Claims /\ g = Claims'
        OBVIOUS
    <2>8. /\ g[n + 1] = mw - start /\ \A k \in 1 .. n : g[k] = f[k] /\ f[k] \in Int
        <3>1. \A k \in 1 .. n : f[k] \in Int
            BY <2>5, <2>7, ClaimsAreTimes
        <3>2. \A k \in 1 .. n : g[k] = f[k]
            BY <2>5, <2>6, <2>7 DEF Claims
        <3>3. g[n + 1] = mw - start
            BY <2>4, <2>5, <2>6, <2>7 DEF Claims
        <3> QED
            BY <3>1, <3>2, <3>3
    <2>9. SumOver(g, 1 .. n + 1) = (mw - start) + SumOver(f, 1 .. n)
        <3>1. 1 .. n + 1 = (1 .. n) \cup {n + 1} /\ n + 1 \notin 1 .. n /\ IsFiniteSet(1 .. n)
            BY FS_Interval
        <3>2. \A y \in (1 .. n) \cup {n + 1} : g[y] \in Int
            BY <2>3, <2>8
        <3>3. SumOver(g, (1 .. n) \cup {n + 1}) = g[n + 1] + SumOver(g, 1 .. n)
            BY <3>1, <3>2, SumAdd
        <3>4. SumOver(g, 1 .. n) = SumOver(f, 1 .. n)
            BY <2>8, <3>1, SumSame
        <3> QED
            BY <2>8, <3>1, <3>3, <3>4
    <2>10. PICK a \in Nat : a = SumOver(f, 1 .. n) /\ a <= start
        BY <1>2, <2>2, <2>3, <2>5, <2>7 DEF Attributed
    <2>11. SumOver(Claims', DOMAIN phases') <= multipartyWall'
        BY <1>1, <2>2, <2>3, <2>6, <2>7, <2>9, <2>10
    <2> QED
        BY <2>2, <2>11 DEF Attributed
<1>6. CASE \E counts \in BOOLEAN : Accounting!Work(counts)
    BY <1>3, <1>6 DEF Accounting!Work, Open, Balanced
<1>7. CASE \E name : Accounting!timeMultiparty(name)
    BY <1>3, <1>7 DEF Accounting!timeMultiparty, Open, Balanced
<1>8. ASSUME Accounting!Timed, protocol # NoProtocol, UNCHANGED <<clock, phase, phases, server>>
      PROVE  Attributed'
    <2>0. PICK n : n = protocol.name
        OBVIOUS
    <2>1. PICK more \in Nat : more = clock - protocol.wallStart
        BY DEF Balanced
    <2>2. multipartyWall' = mw + more /\ components' = Accounting!AddsTo(n, more)
        BY <1>1, <1>8, <2>0, <2>1 DEF Accounting!Timed
    <2>3. PICK f, g, S, T : f = components /\ g = components' /\ S = DOMAIN f /\ T = DOMAIN g
        OBVIOUS
    <2>4. IsFiniteSet(S) /\ \A x \in S : f[x] \in Nat
        BY <2>3 DEF Attributed
    <2>5. /\ T = S \cup {n} /\ \A x \in S \ {n} : g[x] = f[x]
          /\ g[n] = IF n \in S THEN f[n] + more ELSE more
        BY <2>2, <2>3, <2>4 DEF Accounting!AddsTo
    <2>6. SumOver(f, S) = mw
        BY <1>1, <2>3 DEF Attributed
    <2>7. SumOver(g, T) = mw + more
        <3>1. SumOver(g, S \cup {n}) = SumOver(f, S) + more
            <4>1. Raised(g, f, S, n, more)
                BY <2>4, <2>5 DEF Raised
            <4> QED
                BY <2>4, <4>1, SumRaised
        <3> QED
            BY <2>5, <2>6, <3>1
    <2>8. IsFiniteSet(T) /\ \A x \in T : g[x] \in Nat
        BY <2>4, <2>5, FS_AddElement
    <2>9. /\ Claims' = Claims /\ Open' = Open /\ phases' = phases
          /\ phase'.startMultipartyWall = phase.startMultipartyWall
        BY <1>8 DEF Claims, Open
    <2>10. SumOver(Claims, DOMAIN phases)
              <= IF Open THEN phase.startMultipartyWall ELSE multipartyWall'
        <3>1. PICK a \in Nat : a = SumOver(Claims, DOMAIN phases)
            BY <1>2
        <3>2. a <= IF Open THEN phase.startMultipartyWall ELSE mw
            BY <1>1, <3>1 DEF Attributed
        <3> QED
            BY <2>2, <3>1, <3>2
    <2> QED
        BY <2>2, <2>3, <2>7, <2>8, <2>9, <2>10 DEF Attributed
<1>9. CASE Accounting!EndOfProtocol
    BY <1>8, <1>9 DEF Accounting!EndOfProtocol
<1>10. CASE Accounting!Panic
    <2>1. CASE protocol # NoProtocol
        BY <1>8, <1>10, <2>1 DEF Accounting!Panic
    <2>2. CASE protocol = NoProtocol
        BY <1>3, <1>10, <2>2 DEF Accounting!Panic, Open, Balanced
    <2> QED
        BY <2>1, <2>2
<1>11. CASE UNCHANGED accounts
    BY <1>3, <1>11 DEF accounts, Open, Balanced
<1> QED
    BY <1>4, <1>5, <1>6, <1>7, <1>9, <1>10, <1>11 DEF AccountingActions

(* The sums of the report, over functions.                                 *)
LEMMA SumOfComponents ==
    ASSUME NEW S, IsFiniteSet(S), NEW f, \A n \in S : f[n] = components[n]
    PROVE  Accounting!MapThenSumSet(LAMBDA n : components[n], S) = SumOver(f, S)
<1> DEFINE Adding(h) ==
               h = [u \in SUBSET S |->
                       IF u = {} THEN 0
                       ELSE components[CHOOSE x \in u : TRUE] + h[u \ {CHOOSE x \in u : TRUE}]]
           sum == CHOOSE h : Adding(h)
<1>1. Accounting!MapThenSumSet(LAMBDA n : components[n], S) = sum[S]
    BY DEF Accounting!MapThenSumSet, Accounting!MapThenFoldSet
<1>2. PICK h : Adds(h, f, S)
    BY AddsExists
<1>3. \A u \in SUBSET S : u # {} =>
          f[CHOOSE x \in u : TRUE] = components[CHOOSE x \in u : TRUE]
    OBVIOUS
<1>4. Adding(h)
    BY <1>2, <1>3 DEF Adds
<1> HIDE DEF Adding
<1>5. Adding(sum)
    BY <1>4
<1> HIDE DEF sum
<1>6. Adds(sum, f, S)
    BY <1>3, <1>5 DEF Adds, Adding
<1>7. sum[S] = SumOver(f, S)
    BY <1>6, SumAdds
<1> QED
    BY <1>1, <1>7

LEMMA AttributedToOne ==
    ASSUME Balanced, Attributed
    PROVE  Accounting!ProtocolTimeIsAttributed
<1>1. PICK last \in Nat : DOMAIN phases = 1 .. last
    BY DEF Balanced
<1>2. IsFiniteSet(DOMAIN phases)
    BY <1>1, FS_Interval
<1>3. \A k \in DOMAIN phases : Claims[k] = phases[k].multipartyWall /\ Claims[k] \in Nat
    BY ClaimsAreTimes DEF Claims
<1> HIDE DEF Claims
<1>4. Accounting!MapThenSumSet(LAMBDA k : phases[k].multipartyWall, DOMAIN phases)
          = SumOver(Claims, DOMAIN phases)
    BY <1>2, <1>3, SumOfMultipartyWalls
<1>5. Accounting!MapThenSumSet(LAMBDA n : components[n], DOMAIN components)
          = SumOver(components, DOMAIN components)
    <2>1. IsFiniteSet(DOMAIN components)
        BY DEF Attributed
    <2> QED
        BY <2>1, SumOfComponents
<1>6. PICK a \in Nat : a = SumOver(Claims, DOMAIN phases)
    BY <1>2, <1>3, SumOfNaturals
<1>7. PICK mw \in Nat : mw = multipartyWall
    BY DEF Balanced
<1>8. a <= mw
    <2>1. CASE Open
        <3>1. PICK start \in Nat : start = phase.startMultipartyWall
            BY DEF Balanced
        <3> QED
            BY <1>6, <1>7, <2>1, <3>1 DEF Attributed, Balanced
    <2>2. CASE ~Open
        BY <1>6, <1>7, <2>2 DEF Attributed
    <2> QED
        BY <2>1, <2>2
<1> QED
    BY <1>4, <1>5, <1>6, <1>7, <1>8 DEF Attributed, Accounting!ProtocolTimeIsAttributed

(* The components hold the time of all the protocols and no other, also    *)
(* when one ends in a panic, and no phase claims a protocol's time that    *)
(* another claims (timeMultiparty, StartPhase and Stop of                  *)
(* instrumentation.go), for all constants.                                 *)
THEOREM ProtocolTimeIsAlwaysAttributed == CSpec => []Accounting!ProtocolTimeIsAttributed
<1>1. CInit => Balanced /\ Attributed
    BY InitBalanced, InitAttributed DEF CInit
<1>2. (Balanced /\ Attributed) /\ [CNext]_<<vars, accounts>> => (Balanced /\ Attributed)'
    BY AccountsStep, KeepsBalance, KeepsAttribution
<1>3. Balanced /\ Attributed => Accounting!ProtocolTimeIsAttributed
    BY AttributedToOne
<1> QED
    BY <1>1, <1>2, <1>3, PTL DEF CSpec

----------------------------------------------------------------------------
(* The rows of ops.csv.                                                    *)

LEMMA FiniteIs ==
    ASSUME NEW S
    PROVE  Accounting!IsFiniteSet(S) <=> IsFiniteSet(S)
BY DEF Accounting!IsFiniteSet, IsFiniteSet

LEMMA CardinalityIs ==
    ASSUME NEW S
    PROVE  Accounting!Cardinality(S) = Cardinality(S)
BY FiniteIs, Zenon DEF Accounting!Cardinality, Cardinality

(* How many members of S are not above x.                                  *)
UpTo(S, x) == {y \in S : y <= x}
RankIn(S, x) == Cardinality(UpTo(S, x))

LEMMA RanksRise ==
    ASSUME NEW S \in SUBSET Nat, IsFiniteSet(S)
    PROVE  /\ \A x \in S : RankIn(S, x) \in 1 .. Cardinality(S)
           /\ \A x \in S, y \in S : x < y => RankIn(S, x) < RankIn(S, y)
<1>1. ASSUME NEW x \in S
      PROVE  IsFiniteSet(UpTo(S, x)) /\ RankIn(S, x) \in Nat /\ RankIn(S, x) <= Cardinality(S)
    <2>1. UpTo(S, x) \in SUBSET S
        BY DEF UpTo
    <2> QED
        BY <2>1, FS_Subset, FS_CardinalityType DEF RankIn
<1>2. ASSUME NEW x \in S
      PROVE  RankIn(S, x) \in 1 .. Cardinality(S)
    <2>1. UpTo(S, x) # {}
        BY DEF UpTo
    <2>2. RankIn(S, x) # 0
        <3>1. IsFiniteSet(UpTo(S, x))
            BY <1>1
        <3>2. Cardinality(UpTo(S, x)) = 0 <=> UpTo(S, x) = {}
            BY <3>1, FS_EmptySet, Zenon
        <3> QED
            BY <2>1, <3>2 DEF RankIn
    <2>3. Cardinality(S) \in Nat
        BY FS_CardinalityType
    <2> QED
        BY <1>1, <2>2, <2>3
<1>3. ASSUME NEW x \in S, NEW y \in S, x < y
      PROVE  RankIn(S, x) < RankIn(S, y)
    <2>1. UpTo(S, x) \in SUBSET UpTo(S, y)
        <3>1. \A z \in S : z <= x => z <= y
            BY <1>3
        <3> QED
            BY <3>1, Zenon DEF UpTo
    <2>2. y \in UpTo(S, y) /\ y \notin UpTo(S, x)
        BY <1>3 DEF UpTo
    <2>3. RankIn(S, x) <= RankIn(S, y) /\ RankIn(S, x) # RankIn(S, y)
        <3>1. IsFiniteSet(UpTo(S, y))
            BY <1>1
        <3> QED
            BY <2>1, <2>2, <3>1, FS_Subset DEF RankIn
    <2> QED
        BY <1>1, <2>3
<1> QED
    BY <1>2, <1>3

LEMMA EveryRankIsTaken ==
    ASSUME NEW S \in SUBSET Nat, IsFiniteSet(S), NEW k \in 1 .. Cardinality(S)
    PROVE  \E x \in S : RankIn(S, x) = k
<1> DEFINE f == [x \in S |-> RankIn(S, x)]
           T == 1 .. Cardinality(S)
<1>1. f \in [S -> T]
    BY RanksRise
<1>2. \A x \in S, y \in S : x # y => f[x] # f[y]
    <2> SUFFICES ASSUME NEW x \in S, NEW y \in S, x # y
                 PROVE  f[x] # f[y]
        OBVIOUS
    <2>1. PICK a \in Nat : a = RankIn(S, x)
        BY RanksRise
    <2>2. PICK b \in Nat : b = RankIn(S, y)
        BY RanksRise
    <2>3. (x < y => a < b) /\ (y < x => b < a)
        BY <2>1, <2>2, RanksRise
    <2>4. x < y \/ y < x
        OBVIOUS
    <2> QED
        BY <2>1, <2>2, <2>3, <2>4
<1>3. IsFiniteSet(T) /\ Cardinality(T) = Cardinality(S)
    <2>1. PICK members \in Nat : members = Cardinality(S)
        BY FS_CardinalityType
    <2>2. IsFiniteSet(1 .. members) /\ Cardinality(1 .. members) = members
        BY FS_Interval
    <2> QED
        BY <2>1, <2>2
<1> HIDE DEF f, T
<1>4. f \in Injection(S, T)
    BY <1>1, <1>2 DEF Injection, IsInjective
<1>5. f \in Surjection(S, T)
    BY <1>3, <1>4, FS_Injection
<1>6. k \in T
    BY DEF T
<1>7. \E x \in S : f[x] = k
    BY <1>5, <1>6 DEF Surjection
<1> QED
    BY <1>7 DEF f

(* Ascending enumerates its set without a gap and in order.                *)
LEMMA AscendingIs ==
    ASSUME NEW S \in SUBSET Nat, IsFiniteSet(S)
    PROVE  LET s == Accounting!Ascending(S)
           IN  /\ Cardinality(S) \in Nat
               /\ DOMAIN s = 1 .. Cardinality(S) /\ Len(s) = Cardinality(S) /\ s \in Seq(Nat)
               /\ \A k \in DOMAIN s : s[k] \in S
               /\ \A x \in S : \E k \in DOMAIN s : s[k] = x
               /\ \A k \in DOMAIN s : \A j \in 1 .. k - 1 : s[j] < s[k]
<1> DEFINE s == Accounting!Ascending(S)
<1>1. PICK members \in Nat : members = Cardinality(S)
    BY FS_CardinalityType
<1>2. s = [k \in 1 .. members |-> CHOOSE x \in S : RankIn(S, x) = k]
    <2>1. \A x : Accounting!Cardinality({y \in S : y <= x}) = RankIn(S, x)
        BY CardinalityIs DEF RankIn, UpTo
    <2>2. Accounting!Cardinality(S) = members
        BY <1>1, CardinalityIs
    <2> QED
        BY <2>1, <2>2 DEF Accounting!Ascending
<1> HIDE DEF s
<1>3. DOMAIN s = 1 .. members
    BY <1>2
<1>4. ASSUME NEW k \in 1 .. members
      PROVE  s[k] \in S /\ RankIn(S, s[k]) = k
    <2>1. \E x \in S : RankIn(S, x) = k
        BY <1>1, EveryRankIsTaken
    <2>2. s[k] = CHOOSE x \in S : RankIn(S, x) = k
        BY <1>2
    <2> QED
        BY <2>1, <2>2, Zenon
<1>5. ASSUME NEW x \in S
      PROVE  \E k \in 1 .. members : s[k] = x
    <2>1. PICK k \in 1 .. members : k = RankIn(S, x)
        BY <1>1, RanksRise
    <2>2. s[k] \in S /\ RankIn(S, s[k]) = k
        BY <1>4
    <2>3. PICK z \in S : z = s[k]
        BY <2>2
    <2>4. ~(z < x) /\ ~(x < z)
        BY <2>1, <2>2, <2>3, RanksRise
    <2> QED
        BY <2>3, <2>4
<1>6. ASSUME NEW k \in 1 .. members, NEW j \in 1 .. k - 1
      PROVE  s[j] < s[k]
    <2>1. j \in 1 .. members
        OBVIOUS
    <2>2. PICK a \in S : a = s[j] /\ RankIn(S, a) = j
        BY <1>4, <2>1
    <2>3. PICK b \in S : b = s[k] /\ RankIn(S, b) = k
        BY <1>4
    <2>4. b # a /\ ~(b < a)
        BY <2>2, <2>3, RanksRise
    <2> QED
        BY <2>2, <2>3, <2>4
<1>7. s \in Seq(Nat) /\ Len(s) = members
    <2>1. \A k \in 1 .. members : s[k] \in Nat
        BY <1>4
    <2>2. s = [k \in 1 .. members |-> s[k]]
        BY <1>2
    <2> QED
        BY <1>1, <2>1, <2>2
<1> QED
    BY <1>1, <1>3, <1>4, <1>5, <1>6, <1>7 DEF s

Recorded(n) == \E p \in DOMAIN phases : phases[p].name = n
IsFirst(p) == \A j \in 1 .. p - 1 : phases[j].name # phases[p].name
Started(n) == \E k \in DOMAIN started : started[k] = n

(* Phases are recorded for the first time in the order they started in,    *)
(* the open one last; what has started has been recorded or is open, and   *)
(* only there operations are counted.                                      *)
Timeline ==
    /\ started \in Seq(Nat)
    /\ \A k \in DOMAIN started : \A j \in 1 .. k - 1 : started[j] # started[k]
    /\ \A p \in DOMAIN phases : Started(phases[p].name)
    /\ \A p \in DOMAIN phases :
          IsFirst(p) => \A j \in 1 .. p - 1 : Accounting!Before(phases[j].name, phases[p].name)
    /\ Open => /\ Started(phase.name) /\ currentPhase = phase.name
               /\ \/ Recorded(phase.name)
                  \/ \A p \in DOMAIN phases : Accounting!Before(phases[p].name, phase.name)
    /\ \A k \in DOMAIN started : Recorded(started[k]) \/ (Open /\ started[k] = phase.name)
    /\ \A n \in opCounts : Recorded(n) \/ (Open /\ n = phase.name)

(* A refresh counts its operations: it runs within the echo's phase.       *)
RefreshSteps == {"refreshShare", "refreshFirst", "refreshAggregate"}
RefreshInEcho == ~crashed /\ pc \in RefreshSteps => phase.name = EchoPhase /\ protocol # NoProtocol

LEMMA InitTimeline == CInit => Timeline /\ RefreshInEcho
BY DEF CInit, Init, Accounting!Init, Timeline, RefreshInEcho, RefreshSteps, Open, NoPhase,
       Recorded, Started, IsFirst

LEMMA StepRefreshInEcho ==
    ASSUME CNext, RefreshInEcho
    PROVE  RefreshInEcho'
<1>1. CASE Phases
    <2>1. UNCHANGED <<pc, crashed>> /\ protocol = NoProtocol
        BY <1>1 DEF Phases, vars, Accounting!StartPhase, Accounting!Stop, NoProtocol
    <2> QED
        BY <2>1 DEF RefreshInEcho
<1>2. CASE Begins
    <2>1. CASE BeginRefresh /\ Inside({EchoPhase}) /\ Accounting!timeMultiparty("refresh")
        <3>1. protocol' = [name |-> "refresh", wallStart |-> clock] /\ phase' = phase
            BY <2>1 DEF Accounting!timeMultiparty, Accounting!Label
        <3>2. protocol'.name = "refresh" /\ NoProtocol.name = "none"
            BY <3>1 DEF NoProtocol, Accounting!NoProtocol
        <3> QED
            BY <2>1, <3>1, <3>2 DEF Inside, RefreshInEcho, NoProtocol, Accounting!NoProtocol
    <2>2. CASE BeginCKG \/ BeginRKG \/ BeginGKG \/ BeginDecrypt
        BY <2>2 DEF BeginCKG, BeginRKG, BeginGKG, BeginDecrypt, Begin, RefreshInEcho, RefreshSteps
    <2> QED
        BY <1>2, <2>1, <2>2 DEF Begins
<1>3. CASE Works
    <2>1. UNCHANGED <<phase, protocol, crashed>>
        BY <1>3 DEF Works, Accounting!Work
    <2>2. pc' \in RefreshSteps => pc \in RefreshSteps
        BY <1>3 DEF Works, RefreshSteps, GenParty, Encrypt, Evaluate, GenGaloisKey, Protocols,
               CKGShare, CKGAggregate, GenShareRoundOne, RoundOneAggregate, GenShareRoundTwo,
               RoundTwoAggregate, GKGShare, GKGAggregate, RefreshShare, RefreshFirst,
               RefreshAggregate, CKSShare, CKSAggregate, Turn, Ends
    <2> QED
        BY <2>1, <2>2 DEF RefreshInEcho, NoProtocol
<1>4. CASE Finishes
    <2>1. pc' \notin RefreshSteps
        BY <1>4 DEF Finishes, Ends2, GenPublicKey, GenRelinearizationKey, SetupDone,
               FinalizeRefresh, KeySwitch, Ends, RefreshSteps
    <2> QED
        BY <2>1 DEF RefreshInEcho
<1>5. CASE Panics
    BY <1>5 DEF Panics, Accounting!Panic, RefreshInEcho
<1> QED
    BY <1>1, <1>2, <1>3, <1>4, <1>5 DEF CNext

(* What a step does with the timeline: operations are counted while a      *)
(* phase is open.                                                          *)
TimelineStep ==
    \/ \E name \in Nat \ {0} : Accounting!StartPhase(name)
    \/ Accounting!Stop
    \/ /\ UNCHANGED <<phase, phases, started, currentPhase>>
       /\ opCounts' = opCounts \/ (Open /\ opCounts' = opCounts \cup {currentPhase})

LEMMA CountsWithin ==
    ASSUME CNext, RefreshInEcho
    PROVE  TimelineStep
<1>1. CASE Works
    <2>1. CASE Inside({EchoPhase, SupportPhase}) /\ Accounting!Work(TRUE)
        <3>1. phase.name # 0
            BY <2>1 DEF Inside, EchoPhase, SupportPhase
        <3> QED
            BY <2>1, <3>1 DEF Open, NoPhase, Accounting!NoPhase, Accounting!init, Accounting!Work,
                   TimelineStep
    <2>2. CASE Accounting!Work(FALSE)
        BY <2>2 DEF Accounting!Work, TimelineStep
    <2>3. CASE Accounting!Work(pc \in {"refreshShare", "refreshAggregate"})
        <3>1. CASE pc \in {"refreshShare", "refreshAggregate"}
            <4>1. phase.name = EchoPhase
                BY <2>3, <3>1 DEF RefreshInEcho, RefreshSteps, Accounting!Work
            <4> QED
                BY <2>3, <3>1, <4>1 DEF Open, NoPhase, Accounting!NoPhase, Accounting!init,
                       EchoPhase, Accounting!Work, TimelineStep
        <3>2. CASE pc \notin {"refreshShare", "refreshAggregate"}
            BY <2>3, <3>2 DEF Accounting!Work, TimelineStep
        <3> QED
            BY <3>1, <3>2
    <2> QED
        BY <1>1, <2>1, <2>2, <2>3 DEF Works
<1>2. CASE Phases
    <2>1. ASSUME NEW name \in Follows(LastPhase), Accounting!StartPhase(name)
          PROVE  TimelineStep
        <3>1. name \in Nat \ {0}
            BY DEF Follows, SetupPhase, EchoPhase, SupportPhase, ResultPhase
        <3> QED
            BY <2>1, <3>1 DEF TimelineStep
    <2>2. CASE Accounting!Stop
        BY <2>2 DEF TimelineStep
    <2> QED
        BY <1>2, <2>1, <2>2 DEF Phases
<1>3. CASE Begins
    <2>1. (\E name : Accounting!timeMultiparty(name)) \/ UNCHANGED accounts
        BY <1>3 DEF Begins
    <2> QED
        BY <2>1 DEF TimelineStep, accounts, Accounting!timeMultiparty
<1>4. CASE Finishes
    BY <1>4 DEF Finishes, Accounting!EndOfProtocol, TimelineStep
<1>5. CASE Panics
    BY <1>5 DEF Panics, Accounting!Panic, TimelineStep
<1> QED
    BY <1>1, <1>2, <1>3, <1>4, <1>5 DEF CNext

(* A phase starts: for the first time after all that have, or again, and   *)
(* then it has been recorded.                                              *)
LEMMA StartKeepsTimeline ==
    ASSUME Balanced, Timeline, NEW name \in Nat \ {0}, Accounting!StartPhase(name)
    PROVE  Timeline'
<1> USE DEF Timeline
<1>1. /\ ~Open /\ UNCHANGED <<phases, opCounts>>
      /\ currentPhase' = name /\ phase'.name = name
      /\ started' = IF Started(name) THEN started ELSE Append(started, name)
    BY DEF Accounting!StartPhase, Open, NoPhase, Accounting!Range, Started
<1>2. Open'
    BY <1>1 DEF Open, NoPhase, Accounting!NoPhase, Accounting!init
<1>3. /\ \A n : Recorded(n)' <=> Recorded(n)
      /\ \A p : IsFirst(p)' <=> IsFirst(p)
    BY <1>1 DEF Recorded, IsFirst
<1>4. CASE Started(name)
    <2>1. started' = started
        BY <1>1, <1>4
    <2>2. Recorded(name)
        BY <1>1, <1>4 DEF Started
    <2>3. \A m, n : Accounting!Before(m, n)' <=> Accounting!Before(m, n)
        BY <2>1 DEF Accounting!Before
    <2>4. \A n : Started(n)' <=> Started(n)
        BY <2>1 DEF Started
    <2>5. /\ (\A p \in DOMAIN phases : Started(phases[p].name))'
          /\ (\A p \in DOMAIN phases :
                IsFirst(p) => \A j \in 1 .. p - 1 : Accounting!Before(phases[j].name, phases[p].name))'
        BY <1>1, <1>3, <2>3, <2>4
    <2>6. (Started(phase.name) /\ currentPhase = phase.name /\ Recorded(phase.name))'
        BY <1>1, <1>3, <1>4, <2>2, <2>4
    <2>7. (\A k \in DOMAIN started : Recorded(started[k]))' /\ (\A n \in opCounts : Recorded(n))'
        BY <1>1, <1>3, <2>1
    <2> QED
        BY <2>1, <2>5, <2>6, <2>7
<1>5. CASE ~Started(name)
    <2>1. PICK last \in Nat : last = Len(started)
        OBVIOUS
    <2>2. /\ started' = Append(started, name) /\ started' \in Seq(Nat)
          /\ DOMAIN started = 1 .. last /\ DOMAIN started' = 1 .. last + 1
          /\ \A k \in 1 .. last : started'[k] = started[k]
          /\ started'[last + 1] = name
        BY <1>1, <1>5, <2>1
    <2>3. ASSUME NEW m, NEW n, Accounting!Before(m, n)
          PROVE  Accounting!Before(m, n)'
        <3>0. PICK k \in 1 .. last : \E j \in 1 .. k - 1 : started[j] = m /\ started[k] = n
            BY <2>2, <2>3 DEF Accounting!Before
        <3>1. PICK j \in 1 .. k - 1 : started[j] = m /\ started[k] = n
            BY <3>0
        <3>2. k \in 1 .. last + 1 /\ started'[j] = m /\ started'[k] = n
            BY <2>2, <3>1
        <3> QED
            BY <2>2, <3>2 DEF Accounting!Before
    <2>4. ASSUME NEW n, Started(n)
          PROVE  Started(n)' /\ Accounting!Before(n, name)'
        <3>1. PICK k \in 1 .. last : started[k] = n
            BY <2>2, <2>4 DEF Started
        <3>2. /\ k \in 1 .. (last + 1) - 1 /\ k \in 1 .. last + 1 /\ last + 1 \in 1 .. last + 1
              /\ started'[k] = n
            BY <2>2, <3>1
        <3> QED
            BY <2>2, <3>2 DEF Started, Accounting!Before
    <2>5. (\A k \in DOMAIN started : \A j \in 1 .. k - 1 : started[j] # started[k])'
        <3>1. ASSUME NEW k \in 1 .. last + 1, NEW j \in 1 .. k - 1
              PROVE  started'[j] # started'[k]
            <4>1. j \in 1 .. last /\ started'[j] = started[j]
                BY <2>2
            <4>2. started[j] # name
                BY <1>5, <2>2, <4>1 DEF Started
            <4>3. CASE k \in 1 .. last
                <5>1. started[j] # started[k] /\ started'[k] = started[k]
                    BY <2>2, <4>3
                <5> QED
                    BY <4>1, <5>1
            <4>4. CASE k = last + 1
                BY <2>2, <4>1, <4>2, <4>4
            <4> QED
                BY <4>3, <4>4
        <3> QED
            BY <2>2, <3>1
    <2>6. /\ (\A p \in DOMAIN phases : Started(phases[p].name))'
          /\ (\A p \in DOMAIN phases :
                IsFirst(p) => \A j \in 1 .. p - 1 : Accounting!Before(phases[j].name, phases[p].name))'
        BY <1>1, <1>3, <2>3, <2>4
    <2>7. (\A p \in DOMAIN phases : Accounting!Before(phases[p].name, phase.name))'
        BY <1>1, <2>4
    <2>8. Started(phase.name)' /\ (currentPhase = phase.name)'
        BY <1>1, <2>2 DEF Started
    <2>9. (\A k \in DOMAIN started : Recorded(started[k]) \/ (Open /\ started[k] = phase.name))'
        BY <1>1, <1>2, <1>3, <2>2
    <2>10. (\A n \in opCounts : Recorded(n))'
        BY <1>1, <1>3
    <2> QED
        BY <2>2, <2>5, <2>6, <2>7, <2>8, <2>9, <2>10
<1> QED
    BY <1>4, <1>5

(* A phase stops: if its name has not been recorded it started after all   *)
(* that have.                                                              *)
LEMMA StopKeepsTimeline ==
    ASSUME Balanced, Timeline, Accounting!Stop
    PROVE  Timeline'
<1> USE DEF Timeline
<1>1. PICK last \in Nat : last = Len(phases) /\ DOMAIN phases = 1 .. last
    BY DEF Balanced
<1>2. PICK record : phases' = Append(phases, record) /\ record.name = phase.name
    BY DEF Accounting!Stop
<1>3. /\ DOMAIN phases' = 1 .. last + 1 /\ \A p \in 1 .. last : phases'[p] = phases[p]
      /\ phases'[last + 1].name = phase.name
    BY <1>1, <1>2 DEF Balanced
<1>4. Open /\ ~Open' /\ UNCHANGED <<started, opCounts>>
    BY DEF Accounting!Stop, Open, NoPhase
<1>5. /\ \A n : Recorded(n) => Recorded(n)'
      /\ \E p \in DOMAIN phases' : phases'[p].name = phase.name
      /\ \A n : Started(n)' <=> Started(n)
      /\ \A m, n : Accounting!Before(m, n)' <=> Accounting!Before(m, n)
    <2>1. last + 1 \in 1 .. last + 1 /\ \A p \in 1 .. last : p \in 1 .. last + 1
        OBVIOUS
    <2>2. \A n : Recorded(n) => Recorded(n)'
        BY <1>1, <1>3, <2>1 DEF Recorded
    <2>3. \E p \in DOMAIN phases' : phases'[p].name = phase.name
        BY <1>3, <2>1
    <2> QED
        BY <1>4, <2>2, <2>3 DEF Started, Accounting!Before
<1>6. ASSUME NEW p \in 1 .. last + 1
      PROVE  /\ Started(phases'[p].name)
             /\ IsFirst(p)' =>
                    \A j \in 1 .. p - 1 : Accounting!Before(phases'[j].name, phases'[p].name)
    <2>1. CASE p \in 1 .. last
        <3>1. \A j \in 1 .. p - 1 : j \in 1 .. last /\ phases'[j] = phases[j]
            BY <1>3, <2>1
        <3>2. phases'[p] = phases[p] /\ (IsFirst(p)' => IsFirst(p))
            BY <1>3, <2>1, <3>1 DEF IsFirst
        <3> QED
            BY <1>1, <2>1, <3>1, <3>2
    <2>2. CASE p = last + 1
        <3>1. \A j \in 1 .. p - 1 : j \in DOMAIN phases /\ phases'[j] = phases[j]
            BY <1>1, <1>3, <2>2
        <3>2. ASSUME IsFirst(p)'
              PROVE  ~Recorded(phase.name)
            <4>1. \A j \in 1 .. p - 1 : phases'[j].name # phases'[p].name
                BY <3>2 DEF IsFirst
            <4> QED
                BY <1>1, <1>3, <2>2, <3>1, <4>1 DEF Recorded
        <3> QED
            BY <1>3, <1>4, <2>2, <3>1, <3>2
    <2> QED
        BY <2>1, <2>2
<1>7. (\A p \in DOMAIN phases : Started(phases[p].name))'
    BY <1>3, <1>5, <1>6
<1>8. (\A p \in DOMAIN phases :
          IsFirst(p) => \A j \in 1 .. p - 1 : Accounting!Before(phases[j].name, phases[p].name))'
    BY <1>3, <1>5, <1>6
<1>9. (\A k \in DOMAIN started : Recorded(started[k]))' /\ (\A n \in opCounts : Recorded(n))'
    <2>1. \A n : Recorded(n) \/ n = phase.name => Recorded(n)'
        <3>1. phase.name = phases'[last + 1].name /\ last + 1 \in DOMAIN phases'
            BY <1>3
        <3> QED
            BY <1>5, <3>1 DEF Recorded
    <2> QED
        BY <1>4, <2>1
<1> QED
    BY <1>4, <1>7, <1>8, <1>9

LEMMA StepKeepsTimeline ==
    ASSUME Balanced, Timeline, TimelineStep
    PROVE  Timeline'
<1>1. CASE UNCHANGED <<phase, phases, started, currentPhase>>
           /\ (opCounts' = opCounts \/ (Open /\ opCounts' = opCounts \cup {currentPhase}))
    <2>1. UNCHANGED <<phase, phases, started, currentPhase>> /\ (Open' <=> Open)
        BY <1>1 DEF Open, NoPhase, Accounting!NoPhase, Accounting!init
    <2>2. /\ \A n : Recorded(n)' <=> Recorded(n)
          /\ \A n : Started(n)' <=> Started(n)
          /\ \A p : IsFirst(p)' <=> IsFirst(p)
          /\ \A m, n : Accounting!Before(m, n)' <=> Accounting!Before(m, n)
        BY <2>1 DEF Recorded, Started, IsFirst, Accounting!Before
    <2>3. (\A n \in opCounts : Recorded(n) \/ (Open /\ n = phase.name))'
        BY <1>1, <2>1, <2>2 DEF Timeline
    <2> QED
        BY <2>1, <2>2, <2>3 DEF Timeline
<1> QED
    BY <1>1, StartKeepsTimeline, StopKeepsTimeline DEF TimelineStep

(* A recorded phase with operations has a first record.                    *)
LEMMA HasFirstRecord ==
    ASSUME Balanced, NEW n \in opCounts, Recorded(n)
    PROVE  \E p \in Accounting!FirstRecords : phases[p].name = n
<1> DEFINE Records == {p \in DOMAIN phases : phases[p].name = n}
<1>1. PICK last \in Nat : DOMAIN phases = 1 .. last
    BY DEF Balanced
<1>2. Records \in SUBSET Nat /\ Records # {}
    BY <1>1 DEF Recorded
<1>3. PICK p \in Records : \A j \in Records : p <= j
    BY <1>2, SmallestNumber
<1>4. p \in 1 .. last /\ phases[p].name = n
    BY <1>1
<1>5. ASSUME NEW j \in 1 .. p - 1
      PROVE  phases[j].name # phases[p].name
    <2>1. j \in DOMAIN phases /\ ~(p <= j)
        BY <1>1, <1>4
    <2> QED
        BY <1>3, <1>4, <2>1
<1> QED
    BY <1>1, <1>4, <1>5 DEF Accounting!FirstRecords

(* Operations without a record are the open phase's.                       *)
LEMMA LeftoverIsOpen ==
    ASSUME Balanced, Timeline
    PROVE  /\ Accounting!leftover \in SUBSET opCounts
           /\ \A n \in Accounting!leftover : Open /\ n = phase.name /\ ~Recorded(n)
           /\ Accounting!leftover \in SUBSET Nat /\ IsFiniteSet(Accounting!leftover)
<1>1. \A n \in Accounting!leftover : n \in opCounts /\ ~Recorded(n)
    BY HasFirstRecord DEF Accounting!leftover
<1>2. \A n \in Accounting!leftover : Open /\ n = phase.name
    BY <1>1 DEF Timeline
<1>3. Accounting!leftover \in SUBSET {phase.name} /\ phase.name \in Nat
    BY <1>2 DEF Balanced
<1>4. IsFiniteSet({phase.name})
    BY FS_Singleton
<1> QED
    BY <1>1, <1>2, <1>3, <1>4, FS_Subset

LEMMA Joined ==
    ASSUME NEW head \in Seq(Nat), NEW tail \in Seq(Nat)
    PROVE  /\ DOMAIN (head \o tail) = 1 .. Len(head) + Len(tail)
           /\ \A k \in 1 .. Len(head) : (head \o tail)[k] = head[k]
           /\ \A k \in 1 .. Len(tail) : (head \o tail)[Len(head) + k] = tail[k]
OBVIOUS

LEMMA TimelineIsFollowed ==
    ASSUME Balanced, Timeline
    PROVE  Accounting!OpsFollowTheTimeline
<1> DEFINE F == Accounting!FirstRecords
           L == Accounting!leftover
           inOrder == Accounting!Ascending(F)
           others == Accounting!Ascending(L)
           first == [k \in DOMAIN inOrder |-> phases[inOrder[k]].name]
<1>1. PICK last \in Nat : DOMAIN phases = 1 .. last
    BY DEF Balanced
<1>2. F \in SUBSET Nat /\ IsFiniteSet(F)
    <2>1. \A p \in F : p \in 1 .. last
        BY <1>1 DEF Accounting!FirstRecords
    <2> HIDE DEF F
    <2>2. F \in SUBSET (1 .. last) /\ IsFiniteSet(1 .. last)
        BY <2>1, FS_Interval
    <2>3. IsFiniteSet(F)
        BY <2>2, FS_Subset
    <2> QED
        BY <2>1, <2>3
<1>3. \A p \in F : p \in DOMAIN phases /\ phases[p].name \in opCounts /\ IsFirst(p)
    BY DEF Accounting!FirstRecords, IsFirst
<1>4. /\ L \in SUBSET opCounts /\ L \in SUBSET Nat /\ IsFiniteSet(L)
      /\ \A n \in L : Open /\ n = phase.name /\ ~Recorded(n)
    BY LeftoverIsOpen
<1>5. \A n \in opCounts : n \in L \/ \E p \in F : phases[p].name = n
    BY DEF Accounting!leftover
<1>6. Accounting!opsRows = first \o others
    BY DEF Accounting!opsRows
<1> HIDE DEF F, L
<1>7. PICK a \in Nat : /\ a = Len(inOrder) /\ DOMAIN inOrder = 1 .. a
                       /\ \A k \in 1 .. a : inOrder[k] \in F
                       /\ \A p \in F : \E k \in 1 .. a : inOrder[k] = p
                       /\ \A k \in 1 .. a : \A j \in 1 .. k - 1 : inOrder[j] < inOrder[k]
    BY <1>2, AscendingIs
<1>8. PICK b \in Nat : /\ b = Len(others) /\ DOMAIN others = 1 .. b /\ others \in Seq(Nat)
                       /\ \A k \in 1 .. b : others[k] \in L
                       /\ \A n \in L : \E k \in 1 .. b : others[k] = n
                       /\ \A k \in 1 .. b : \A j \in 1 .. k - 1 : others[j] < others[k]
    BY <1>4, AscendingIs
<1> HIDE DEF inOrder, others
<1>9. /\ first \in Seq(Nat) /\ Len(first) = a /\ DOMAIN first = 1 .. a
      /\ \A k \in 1 .. a : first[k] = phases[inOrder[k]].name
    <2>1. \A k \in 1 .. a : phases[inOrder[k]].name \in Nat
        <3>1. \A p \in DOMAIN phases : phases[p].name \in Nat
            <4>1. \A p \in DOMAIN phases : phases[p] \in Record
                BY <1>1 DEF Balanced
            <4> QED
                BY <4>1 DEF Record
        <3> QED
            BY <1>3, <1>7, <3>1
    <2>2. first = [k \in 1 .. a |-> phases[inOrder[k]].name]
        BY <1>7
    <2> HIDE DEF first
    <2>3. \A k \in 1 .. a : first[k] = phases[inOrder[k]].name
        BY <2>2
    <2>4. DOMAIN first = 1 .. a /\ first = [k \in 1 .. a |-> first[k]]
        BY <2>2, <2>3
    <2> QED
        BY <2>1, <2>3, <2>4
<1> HIDE DEF first
<1> DEFINE rows == Accounting!opsRows
<1>10. /\ DOMAIN rows = 1 .. a + b
       /\ \A k \in 1 .. a : rows[k] = first[k]
       /\ \A k \in 1 .. b : rows[a + k] = others[k]
    <2>1. rows = first \o others
        BY <1>6
    <2> QED
        BY <1>8, <1>9, <2>1, Joined
<1> HIDE DEF rows
<1>11. ASSUME NEW k \in 1 .. a + b
       PROVE  rows[k] \in opCounts
    <2>1. CASE k \in 1 .. a
        BY <1>3, <1>7, <1>9, <1>10, <2>1
    <2>2. CASE k \notin 1 .. a
        <3>1. k - a \in 1 .. b /\ a + (k - a) = k
            BY <2>2
        <3> QED
            BY <1>4, <1>8, <1>10, <3>1
    <2> QED
        BY <2>1, <2>2
<1>12. ASSUME NEW n \in opCounts
       PROVE  \E k \in 1 .. a + b : rows[k] = n
    <2>1. CASE n \in L
        <3>1. PICK k \in 1 .. b : others[k] = n
            BY <1>8, <2>1
        <3>2. a + k \in 1 .. a + b
            OBVIOUS
        <3> QED
            BY <1>10, <3>1, <3>2
    <2>2. CASE \E p \in F : phases[p].name = n
        <3>1. PICK k \in 1 .. a : phases[inOrder[k]].name = n
            BY <1>7, <2>2
        <3>2. k \in 1 .. a + b
            OBVIOUS
        <3> QED
            BY <1>9, <1>10, <3>1, <3>2
    <2> QED
        BY <1>5, <2>1, <2>2
<1>13. ASSUME NEW k \in 1 .. a + b, NEW j \in 1 .. k - 1
       PROVE  Accounting!Before(rows[j], rows[k])
    <2>1. CASE k \in 1 .. a
        <3>1. j \in 1 .. a
            BY <2>1
        <3>2. PICK p \in F : p = inOrder[k]
            BY <1>7, <2>1
        <3>3. PICK q \in F : q = inOrder[j]
            BY <1>7, <3>1
        <3>4. p \in DOMAIN phases /\ IsFirst(p) /\ q \in 1 .. p - 1
            BY <1>1, <1>3, <1>7, <2>1, <3>2, <3>3
        <3>5. Accounting!Before(phases[q].name, phases[p].name)
            BY <3>4 DEF Timeline
        <3> QED
            BY <1>9, <1>10, <2>1, <3>1, <3>2, <3>3, <3>5
    <2>2. CASE k \notin 1 .. a /\ j \in 1 .. a
        <3>1. k - a \in 1 .. b /\ a + (k - a) = k
            BY <2>2
        <3>2. rows[k] \in L
            BY <1>8, <1>10, <3>1
        <3>3. Open /\ rows[k] = phase.name /\ ~Recorded(phase.name)
            BY <1>4, <3>2
        <3>4. inOrder[j] \in DOMAIN phases /\ rows[j] = phases[inOrder[j]].name
            BY <1>3, <1>7, <1>9, <1>10, <2>2
        <3> QED
            BY <3>3, <3>4 DEF Timeline
    <2>3. CASE k \notin 1 .. a /\ j \notin 1 .. a
        <3>1. k - a \in 1 .. b /\ j - a \in 1 .. (k - a) - 1 /\ j - a \in 1 .. b
            BY <2>3
        <3>2. others[j - a] < others[k - a] /\ others[j - a] = phase.name /\ others[k - a] = phase.name
            BY <1>4, <1>8, <3>1
        <3>3. phase.name \in Nat
            BY DEF Balanced
        <3> QED
            BY <3>2, <3>3
    <2> QED
        BY <2>1, <2>2, <2>3
<1>14. Accounting!Range(rows) = opCounts
    <2>1. Accounting!Range(rows) = {rows[k] : k \in 1 .. a + b}
        BY <1>10 DEF Accounting!Range
    <2> QED
        BY <1>11, <1>12, <2>1
<1> QED
    BY <1>10, <1>13, <1>14 DEF Accounting!OpsFollowTheTimeline, rows

(* What the files report agrees with the run (timeMultiparty, StartPhase,  *)
(* Stop and writeOps of instrumentation.go): the components with the       *)
(* protocols' time, and the rows of ops.csv with the timeline, for all     *)
(* constants, however phases and protocols follow each other and wherever  *)
(* main panics.                                                            *)
THEOREM ReportAlwaysFollowsTheRun == CSpec => []ReportFollowsTheRun
<1> DEFINE ReportInv == Balanced /\ Attributed /\ Timeline /\ RefreshInEcho
<1>1. CInit => ReportInv
    BY InitBalanced, InitAttributed, InitTimeline DEF CInit
<1>2. ReportInv /\ [CNext]_<<vars, accounts>> => ReportInv'
    <2> SUFFICES ASSUME ReportInv, [CNext]_<<vars, accounts>>
                 PROVE  ReportInv'
        OBVIOUS
    <2>1. CASE CNext
        <3>1. (Balanced /\ Attributed)'
            BY <2>1, AccountsStep, KeepsBalance, KeepsAttribution
        <3> QED
            BY <2>1, <3>1, CountsWithin, StepKeepsTimeline, StepRefreshInEcho
    <2>2. CASE UNCHANGED <<vars, accounts>>
        <3>1. (Balanced /\ Attributed)'
            BY <2>2, KeepsBalance, KeepsAttribution
        <3>2. TimelineStep
            BY <2>2 DEF accounts, TimelineStep
        <3>3. RefreshInEcho'
            BY <2>2 DEF accounts, vars, RefreshInEcho, NoProtocol, Accounting!NoProtocol
        <3> QED
            BY <3>1, <3>2, <3>3, StepKeepsTimeline
    <2> QED
        BY <2>1, <2>2
<1>3. ReportInv => ReportFollowsTheRun
    BY AttributedToOne, TimelineIsFollowed DEF ReportFollowsTheRun, Accounting!ReportFollowsTheRun
<1> QED
    BY <1>1, <1>2, <1>3, PTL DEF CSpec

----------------------------------------------------------------------------

(* Every voter's block lies within one row of a ciphertext that exists.    *)
THEOREM BlockInOneRow ==
    ASSUME NEW n \in Nat \ {0}, NEW wide \in Nat \ {0},
           NEW rows \in Nat \ {0}, NEW cols \in Nat \ {0}, wide <= cols,
           NEW v \in 0 .. n - 1,
           NEW lay, lay = computePackingLayout(n, wide, rows, cols)
    PROVE  /\ ctIdx(lay, v) \in Ciphertexts(lay)
           /\ \E row \in 0 .. rows - 1 :
                 Block(lay, wide, v) \subseteq row * cols .. (row + 1) * cols - 1
<1> DEFINE perRow == cols \div wide
           r == (v % (rows * perRow)) \div perRow
           place == (v % (rows * perRow)) % perRow
<1>1. perRow \in Nat \ {0}
    BY RowShape
<1>2. /\ ctIdx(lay, v) = v \div (rows * perRow)
      /\ lay.ciphertextCount = ceilDiv(ceilDiv(n, perRow), rows)
      /\ blockStart(lay, wide, v) = r * cols + place * wide
    BY DEF ctIdx, blockStart, localIdx, computePackingLayout
<1>3. /\ r \in 0 .. rows - 1 /\ r * cols \in Nat /\ place * wide \in Nat /\ place * wide + wide <= cols
    <2>1. v \in Nat
        OBVIOUS
    <2> QED
        BY <2>1, Place
<1> HIDE DEF perRow, r, place
<1>4. ctIdx(lay, v) \in Ciphertexts(lay)
    <2>1. n # 0 /\ v \in 0 .. n - 1
        OBVIOUS
    <2> DEFINE total == 1 + (n - 1) \div perRow
               count == 1 + (total - 1) \div rows
    <2>3. /\ total \in Nat \ {0} /\ count \in Nat \ {0}
          /\ v \div (rows * perRow) \in 0 .. count - 1
        BY <1>1, <2>1, CiphertextExists
    <2>4. lay.ciphertextCount = count
        BY <1>2, <2>1, <2>3 DEF ceilDiv
    <2> QED
        BY <1>2, <2>3, <2>4 DEF Ciphertexts
<1>5. Block(lay, wide, v) \subseteq r * cols .. (r + 1) * cols - 1
    <2> SUFFICES ASSUME NEW offset \in 0 .. wide - 1
                 PROVE  blockStart(lay, wide, v) + offset \in r * cols .. (r + 1) * cols - 1
        BY DEF Block
    <2>1. (r + 1) * cols = r * cols + cols
        BY <1>3
    <2> QED
        BY <1>2, <1>3, <2>1
<1> QED
    BY <1>3, <1>4, <1>5

(* The blocks of two voters in the same ciphertext have no slot in common. *)
THEOREM BlocksDisjoint ==
    ASSUME NEW n \in Nat \ {0}, NEW wide \in Nat \ {0},
           NEW rows \in Nat \ {0}, NEW cols \in Nat \ {0}, wide <= cols,
           NEW v1 \in 0 .. n - 1, NEW v2 \in 0 .. n - 1,
           NEW lay, lay = computePackingLayout(n, wide, rows, cols),
           ctIdx(lay, v1) = ctIdx(lay, v2),
           Block(lay, wide, v1) \cap Block(lay, wide, v2) # {}
    PROVE  v1 = v2
<1> DEFINE perRow == cols \div wide
           block == rows * perRow
           r(v) == (v % (rows * perRow)) \div perRow
           place(v) == (v % (rows * perRow)) % perRow
<1>1. perRow \in Nat \ {0} /\ block \in Nat \ {0}
    BY RowShape
<1>2. \A v \in Nat : /\ ctIdx(lay, v) = v \div block
                     /\ blockStart(lay, wide, v) = r(v) * cols + place(v) * wide
    BY DEF ctIdx, blockStart, localIdx, computePackingLayout
<1>3. \A v \in Nat : /\ r(v) \in 0 .. rows - 1 /\ place(v) \in 0 .. perRow - 1
                     /\ v % block = r(v) * perRow + place(v)
                     /\ r(v) * cols \in Nat /\ place(v) * wide \in Nat /\ place(v) * wide + wide <= cols
    BY Place
<1>4. \A v \in Nat : v = (v \div block) * block + (v % block)
    BY <1>1, Division
<1>5. v1 \in Nat /\ v2 \in Nat
    OBVIOUS
<1>6. PICK o1 \in 0 .. wide - 1, o2 \in 0 .. wide - 1 :
          blockStart(lay, wide, v1) + o1 = blockStart(lay, wide, v2) + o2
    BY DEF Block
<1> HIDE DEF perRow, block, r, place
<1>7. r(v1) * cols + place(v1) * wide + o1 = r(v2) * cols + place(v2) * wide + o2
    BY <1>2, <1>3, <1>5, <1>6
<1>8. r(v1) \in Nat /\ r(v2) \in Nat /\ place(v1) \in Nat /\ place(v2) \in Nat
    BY <1>3, <1>5
<1>9. /\ place(v1) * wide \in Nat /\ place(v2) * wide \in Nat
      /\ place(v1) * wide + wide <= cols /\ place(v2) * wide + wide <= cols
    BY <1>3, <1>5
<1>10. r(v1) = r(v2) /\ place(v1) = place(v2)
    <2>1. PICK r1 \in Nat, r2 \in Nat, i1 \in Nat, i2 \in Nat :
              r1 = r(v1) /\ r2 = r(v2) /\ i1 = place(v1) /\ i2 = place(v2)
        BY <1>8
    <2>2. /\ i1 * wide \in Nat /\ i2 * wide \in Nat /\ i1 * wide + wide <= cols /\ i2 * wide + wide <= cols
          /\ r1 * cols + i1 * wide + o1 = r2 * cols + i2 * wide + o2
        BY <1>7, <1>9, <2>1
    <2>3. r1 = r2 /\ i1 = i2
        BY <2>2, SlotAddress
    <2> QED
        BY <2>1, <2>3
<1>11. v1 % block = v2 % block
    BY <1>3, <1>5, <1>10
<1>12. v1 \div block = v2 \div block
    BY <1>2, <1>5
<1> QED
    BY <1>4, <1>5, <1>11, <1>12

(* Every ciphertext of the layout has a voter.                             *)
THEOREM NoCiphertextEmpty ==
    ASSUME NEW n \in Nat \ {0}, NEW wide \in Nat \ {0},
           NEW rows \in Nat \ {0}, NEW cols \in Nat \ {0}, wide <= cols,
           NEW lay, lay = computePackingLayout(n, wide, rows, cols),
           NEW inCt \in Ciphertexts(lay)
    PROVE  votersInCt(lay, n, inCt) > 0
<1> DEFINE perRow == cols \div wide
           total == ceilDiv(n, perRow)
<1>1. perRow \in Nat \ {0} /\ rows * perRow \in Nat \ {0}
    BY RowShape
<1>2. total = 1 + (n - 1) \div perRow /\ total \in Nat \ {0}
    <2>1. n - 1 \in Nat /\ perRow \in Nat \ {0}
        BY <1>1
    <2>2. (n - 1) \div perRow \in Nat
        BY <2>1, Division
    <2> QED
        BY <2>2 DEF ceilDiv
<1>3. /\ lay.votersPerCiphertext = rows * perRow
      /\ lay.ciphertextCount = 1 + (total - 1) \div rows
    <2>1. total # 0
        BY <1>2
    <2>2. lay.ciphertextCount = ceilDiv(total, rows)
        BY DEF computePackingLayout
    <2> QED
        BY <2>1, <2>2 DEF ceilDiv, computePackingLayout
<1> HIDE DEF perRow, total
<1>4. (total - 1) \div rows \in Nat /\ ((total - 1) \div rows) * rows <= total - 1
    <2>1. total - 1 \in Nat
        BY <1>2
    <2>2. /\ (total - 1) \div rows \in Nat /\ (total - 1) % rows \in 0 .. rows - 1
          /\ total - 1 = ((total - 1) \div rows) * rows + ((total - 1) % rows)
        BY <2>1, Division
    <2>3. ((total - 1) \div rows) * rows \in Nat
        BY <2>2
    <2> QED
        BY <2>2, <2>3
<1>5. inCt \in Nat /\ inCt <= (total - 1) \div rows
    BY <1>3, <1>4 DEF Ciphertexts
<1>6. inCt * rows \in Nat /\ inCt * rows <= total - 1
    <2>1. inCt * rows <= ((total - 1) \div rows) * rows /\ inCt * rows \in Nat
        BY <1>4, <1>5, TimesMonotone
    <2>2. ((total - 1) \div rows) * rows \in Nat
        BY <1>4
    <2> QED
        BY <1>2, <1>4, <2>1, <2>2
<1>7. (inCt * rows) * perRow <= n - 1
    <2> DEFINE quot == (n - 1) \div perRow
    <2>0. n - 1 \in Nat
        OBVIOUS
    <2>1. /\ quot \in Nat /\ (n - 1) % perRow \in 0 .. perRow - 1
          /\ n - 1 = quot * perRow + ((n - 1) % perRow)
        BY <1>1, <2>0, Division
    <2>2. inCt * rows <= quot
        BY <1>2, <1>6, <2>1
    <2> HIDE DEF quot
    <2>3. (inCt * rows) * perRow <= quot * perRow /\ quot * perRow \in Nat
        BY <1>1, <1>6, <2>1, <2>2, TimesMonotone
    <2>4. (inCt * rows) * perRow \in Nat
        BY <1>1, <1>6
    <2> QED
        BY <2>1, <2>3, <2>4
<1>8. inCt * (rows * perRow) = (inCt * rows) * perRow /\ inCt * (rows * perRow) \in Nat
    BY <1>1, <1>5
<1>9. n - inCt * (rows * perRow) > 0
    BY <1>7, <1>8
<1> QED
    BY <1>1, <1>3, <1>9 DEF votersInCt

----------------------------------------------------------------------------

(* The sizes of a run do not change.                                       *)
THEOREM SizesFixed == InputsSpec => [](size \in Sizes)
<1>1. InputsInit => size \in Sizes
    BY DEF InputsInit
<1>2. size \in Sizes /\ [InputsNext]_inputsVars => (size \in Sizes)'
    BY DEF InputsNext, Skip, Set, Add, Clear, inputsVars, config
<1> QED
    BY <1>1, <1>2, PTL DEF InputsSpec

(* Sizes that satisfy the assumption keep all blocks apart.                *)
LEMMA SizesGiveBlocksApart == size \in Sizes => BlocksAreApart
<1> SUFFICES ASSUME size \in Sizes PROVE BlocksAreApart
    OBVIOUS
<1> DEFINE n == size.n
           wide == blockSize(size)
           rows == size.rows
           cols == size.cols
           lay == layout
<1>1. /\ n \in Nat \ {0} /\ wide \in Nat \ {0} /\ wide <= cols
      /\ rows \in Nat \ {0} /\ cols \in Nat \ {0}
    BY SizesAssumption DEF blockSize
<1>2. lay = computePackingLayout(n, wide, rows, cols)
    BY DEF layout, layoutOf
<1> HIDE DEF n, wide, rows, cols, lay
<1>3. ASSUME NEW v \in 0 .. n - 1
      PROVE  /\ ctIdx(lay, v) \in Ciphertexts(lay)
             /\ \E row \in 0 .. rows - 1 :
                   Block(lay, wide, v) \subseteq row * cols .. (row + 1) * cols - 1
    BY <1>1, <1>2, BlockInOneRow
<1>4. ASSUME NEW v1 \in 0 .. n - 1, NEW v2 \in 0 .. n - 1, v1 # v2,
             ctIdx(lay, v1) = ctIdx(lay, v2)
      PROVE  Block(lay, wide, v1) \cap Block(lay, wide, v2) = {}
    BY <1>1, <1>2, <1>4, BlocksDisjoint
<1>5. ASSUME NEW inCt \in Ciphertexts(lay)
      PROVE  votersInCt(lay, n, inCt) > 0
    BY <1>1, <1>2, NoCiphertextEmpty
<1> QED
    BY <1>3, <1>4, <1>5 DEF BlocksAreApart, Voters, n, wide, rows, cols, lay

(* BlocksAreApart, in every run whatever its sizes.                        *)
THEOREM BlocksApart == InputsSpec => []BlocksAreApart
BY SizesFixed, SizesGiveBlocksApart, PTL

----------------------------------------------------------------------------
(* The accumulators of a period.                                           *)

(* Voter v's block holds slot s of ciphertext inCt.                          *)
Owns(v, inCt, s) == ctIdx(layout, v) = inCt /\ s \in Block(layout, blockSize(size), v)

(* What slot s of the buffer holds once part p of voter v is written.      *)
Held(p, v, s) ==
    IF s \in Block(layout, blockSize(size), v) THEN PlainSlot(p, v, s - Start(v)) ELSE 0

(* The slot's value x is what the voters of C have put into it.            *)
PutBy(C, p, inCt, s, x) ==
    /\ \A v \in C : Owns(v, inCt, s) => x = PlainSlot(p, v, s - Start(v))
    /\ (\A v \in C : ~Owns(v, inCt, s)) => x = 0

(* The ciphertexts received so far, all-zero ones included.                *)
Sent == {sent \in Part \X Voters(size) :
            sent[2] \in Counted(sent[1]) /\ ~NothingSent(submitted[sent[2]])}

(* The voters the loop visits who submit.                                  *)
Senders == {v \in 0 .. votersToProcess(size, samples, period) - 1 : ~NothingSent(submitted[v])}

InputsConfig ==
    /\ size \in Sizes /\ samples \in 0 .. size.n /\ period \in {"first", "later"}
    /\ submitted \in [Voters(size) -> SubmissionsOf(widths(size))]
    /\ announced = 3 * Cardinality(Senders)
    /\ \A v \in Voters(size) :
          v >= votersToProcess(size, samples, period) => NothingSent(submitted[v])

InputsControl ==
    /\ voter \in 0 .. votersToProcess(size, samples, period)
    /\ part \in Part /\ step \in {"set", "add", "clear"}
    /\ part # "candidate" \/ step # "set" => Visiting /\ ~NothingSent(submitted[voter])

InputsBuffers ==
    /\ slotBuf \in [SlotsOf(layout) -> {0, 1}]
    /\ rangeMaskBuf \in [SlotsOf(layout) -> {0, 1}]
    /\ \A s \in SlotsOf(layout) :
          /\ slotBuf[s] = IF part # "mask" /\ step # "set" THEN Held(part, voter, s) ELSE 0
          /\ rangeMaskBuf[s] = IF part = "mask" /\ step # "set" THEN Held(part, voter, s) ELSE 0

InputsAdded ==
    /\ DOMAIN acc = Part
    /\ \A p \in Part : acc[p] \in [Ciphertexts(layout) -> [SlotsOf(layout) -> {0, 1}]]
    /\ \A p \in Part : \A inCt \in Ciphertexts(layout), s \in SlotsOf(layout) :
          PutBy(Counted(p), p, inCt, s, acc[p][inCt][s])
    /\ received = Cardinality(Sent)

InputsInv == InputsConfig /\ InputsControl /\ InputsBuffers /\ InputsAdded

(* What the sizes of a run make of its layout.                             *)
LEMMA Layout ==
    ASSUME size \in Sizes
    PROVE  /\ size.n \in Nat \ {0} /\ size.b \in Nat \ {0} /\ size.k \in Nat \ {0}
           /\ blockSize(size) \in Nat /\ size.b <= blockSize(size) /\ size.k <= blockSize(size)
           /\ \A v \in Voters(size) : /\ v \in Nat /\ Start(v) \in Nat
                                      /\ ctIdx(layout, v) \in Ciphertexts(layout)
           /\ \A v, wide \in Voters(size) : \A inCt, s : Owns(v, inCt, s) /\ Owns(wide, inCt, s) => v = wide
<1>1. /\ size.n \in Nat \ {0} /\ size.b \in Nat \ {0} /\ size.k \in Nat \ {0}
      /\ size.rows \in Nat \ {0} /\ size.cols \in Nat \ {0}
      /\ size.b <= size.cols /\ size.k <= size.cols
    BY SizesAssumption
<1>2. /\ blockSize(size) \in Nat \ {0} /\ size.b <= blockSize(size) /\ size.k <= blockSize(size)
      /\ blockSize(size) <= size.cols
    BY <1>1 DEF blockSize
<1>3. ASSUME NEW v \in Voters(size)
      PROVE  v \in Nat /\ Start(v) \in Nat
    <2> DEFINE wide == blockSize(size)
               rows == size.rows
               cols == size.cols
               perRow == cols \div wide
               r == (v % (rows * perRow)) \div perRow
               place == (v % (rows * perRow)) % perRow
    <2>1. v \in Nat
        BY <1>1 DEF Voters
    <2>2. Start(v) = r * cols + place * wide
        BY DEF Start, layout, layoutOf, computePackingLayout, blockStart, localIdx
    <2>3. rows \in Nat \ {0} /\ cols \in Nat \ {0} /\ wide \in Nat \ {0} /\ wide <= cols
        BY <1>1, <1>2
    <2> HIDE DEF wide, rows, cols
    <2>4. r * cols \in Nat /\ place * wide \in Nat
        BY <2>1, <2>3, Place
    <2> HIDE DEF r, place
    <2> QED
        BY <2>1, <2>2, <2>4
<1>4. BlocksAreApart
    BY SizesGiveBlocksApart
<1>5. \A v \in Voters(size) : ctIdx(layout, v) \in Ciphertexts(layout)
    BY <1>4 DEF BlocksAreApart
<1>6. \A v, wide \in Voters(size) : \A inCt, s : Owns(v, inCt, s) /\ Owns(wide, inCt, s) => v = wide
    BY <1>4 DEF BlocksAreApart, Owns
<1> QED
    BY <1>1, <1>2, <1>3, <1>5, <1>6

(* A slot of a payload or of the mask is zero or one, and zero when        *)
(* nothing is sent.                                                        *)
LEMMA HeldIsBit ==
    ASSUME NEW p \in Part, NEW v, NEW o
    PROVE  /\ PlainSlot(p, v, o) \in {0, 1}
           /\ submitted[v] \in SubmissionsOf(widths(size)) /\ NothingSent(submitted[v])
                 => PlainSlot(p, v, o) = 0
           /\ \A s : Held(p, v, s) \in {0, 1}
<1>1. \A x : PlainSlot(p, v, x) \in {0, 1}
    BY DEF PlainSlot, submissionMask, payloadSlot
<1>2. NothingSent(submitted[v]) => PlainSlot(p, v, o) = 0
    BY DEF PlainSlot, submissionMask, payloadSlot, NothingSent, noSubmission, Component, Part
<1> QED
    BY <1>1, <1>2 DEF Held

(* One more voter puts its part into a slot, which is nobody else's.       *)
LEMMA PutByOneMore ==
    ASSUME size \in Sizes, NEW C, C \subseteq Voters(size), NEW x \in Voters(size), x \notin C,
           NEW p \in Part, NEW inCt, NEW s, NEW a \in {0, 1}, PutBy(C, p, inCt, s, a)
    PROVE  /\ Owns(x, inCt, s) => PutBy(C \cup {x}, p, inCt, s, a + Held(p, x, s))
           /\ Owns(x, inCt, s) => a + Held(p, x, s) \in {0, 1}
           /\ ~Owns(x, inCt, s) => PutBy(C \cup {x}, p, inCt, s, a)
<1>1. CASE Owns(x, inCt, s)
    <2>1. \A v \in C : ~Owns(v, inCt, s)
        BY <1>1, Layout
    <2>2. a = 0
        BY <2>1 DEF PutBy
    <2>3. Held(p, x, s) = PlainSlot(p, x, s - Start(x)) /\ Held(p, x, s) \in {0, 1}
        BY <1>1, HeldIsBit DEF Held, Owns
    <2>4. a + Held(p, x, s) = Held(p, x, s)
        BY <2>2, <2>3
    <2> QED
        BY <1>1, <2>1, <2>3, <2>4 DEF PutBy
<1>2. CASE ~Owns(x, inCt, s)
    BY <1>2 DEF PutBy
<1> QED
    BY <1>1, <1>2

(* A voter who sends nothing leaves every slot as it is.                   *)
LEMMA PutByNobody ==
    ASSUME size \in Sizes, NEW C, C \subseteq Voters(size), NEW x \in Voters(size), x \notin C,
           submitted[x] \in SubmissionsOf(widths(size)), NothingSent(submitted[x]),
           NEW p \in Part, NEW inCt, NEW s, NEW a \in {0, 1}, PutBy(C, p, inCt, s, a)
    PROVE  PutBy(C \cup {x}, p, inCt, s, a)
<1>1. CASE Owns(x, inCt, s)
    <2>1. PutBy(C \cup {x}, p, inCt, s, a + Held(p, x, s))
        BY <1>1, PutByOneMore
    <2>2. Held(p, x, s) = 0
        BY HeldIsBit DEF Held
    <2>3. a + 0 = a
        OBVIOUS
    <2> QED
        BY <2>1, <2>2, <2>3
<1>2. CASE ~Owns(x, inCt, s)
    BY <1>2, PutByOneMore
<1> QED
    BY <1>1, <1>2

(* Writing into an empty buffer and clearing it again.                     *)
LEMMA WrittenHolds ==
    ASSUME InputsConfig, part \in Part, voter \in Voters(size),
           NEW buf \in [SlotsOf(layout) -> {0, 1}]
    PROVE  /\ (\A s \in SlotsOf(layout) : buf[s] = 0) =>
                 LET one == IF part = "mask" THEN submissionMask(submitted[voter]) ELSE 1
                 IN  /\ Written(buf, one) \in [SlotsOf(layout) -> {0, 1}]
                     /\ \A s \in SlotsOf(layout) : Written(buf, one)[s] = Held(part, voter, s)
           /\ (\A s \in SlotsOf(layout) : buf[s] = Held(part, voter, s)) =>
                 /\ Written(buf, 0) \in [SlotsOf(layout) -> {0, 1}]
                 /\ \A s \in SlotsOf(layout) : Written(buf, 0)[s] = 0
<1> DEFINE B == Block(layout, blockSize(size), voter)
           wide == blockSize(size)
           sub == submitted[voter]
           one == IF part = "mask" THEN submissionMask(sub) ELSE 1
<1>1. /\ wide \in Nat /\ Start(voter) \in Nat
      /\ \A s : s \in B <=> \E o \in 0 .. wide - 1 : s = Start(voter) + o
    BY Layout DEF InputsConfig, Block, Start
<1>2. submissionMask(sub) \in {0, 1} /\ one \in {0, 1}
    BY DEF submissionMask
<1>3. CASE part = "mask"
    <2>1. \A x : Written(buf, x) = [s \in SlotsOf(layout) |-> IF s \in B THEN x ELSE buf[s]]
        BY <1>3 DEF Written
    <2>2. \A s : Held(part, voter, s) = IF s \in B THEN submissionMask(sub) ELSE 0
        BY <1>3 DEF Held, PlainSlot
    <2> QED
        BY <1>2, <1>3, <2>1, <2>2
<1>4. CASE part # "mask"
    <2>1. sub \in SubmissionsOf(widths(size)) /\ part \in {"candidate", "delegation"}
        BY <1>4 DEF InputsConfig, Part
    <2>2. sub[part] \in Int /\ sub[part] < wide
        BY <2>1, Layout
        DEF InputsConfig, SubmissionsOf, widths, Choices, noSubmission, zeroSubmission
    <2> DEFINE choice == sub[part]
               x == Start(voter) + choice
    <2>3. ASSUME NEW s \in SlotsOf(layout)
          PROVE  Held(part, voter, s) = IF choice >= 0 /\ s = x THEN 1 ELSE 0
        <3>1. Held(part, voter, s) = IF s \in B THEN payloadSlot(sub, part, s - Start(voter)) ELSE 0
            BY <1>4 DEF Held, PlainSlot
        <3>2. CASE s \in B
            <4>1. PICK o \in 0 .. wide - 1 : s = Start(voter) + o
                BY <1>1, <3>2
            <4>2. s - Start(voter) = o /\ (choice = o <=> s = x)
                BY <1>1, <2>2, <4>1
            <4> QED
                BY <3>1, <3>2, <4>2 DEF payloadSlot
        <3>3. CASE s \notin B
            <4>1. choice >= 0 => choice \in 0 .. wide - 1
                BY <1>1, <2>2
            <4>2. ~(choice >= 0 /\ s = x)
                BY <1>1, <3>3, <4>1
            <4> QED
                BY <3>1, <3>3, <4>2
        <3> QED
            BY <3>2, <3>3
    <2>4. \A y : Written(buf, y) = IF choice >= 0 THEN [buf EXCEPT ![x] = y] ELSE buf
        BY <1>4 DEF Written
    <2> HIDE DEF x, choice, sub
    <2>5. CASE choice >= 0
        <3>1. \A y \in {0, 1} : /\ Written(buf, y) \in [SlotsOf(layout) -> {0, 1}]
                                /\ \A s \in SlotsOf(layout) :
                                      Written(buf, y)[s] = IF s = x THEN y ELSE buf[s]
            BY <2>4, <2>5
        <3>2. \A s \in SlotsOf(layout) : Held(part, voter, s) = IF s = x THEN 1 ELSE 0
            BY <2>3, <2>5
        <3> QED
            BY <1>4, <3>1, <3>2
    <2>6. CASE ~(choice >= 0)
        <3>1. \A y : Written(buf, y) = buf
            BY <2>4, <2>6
        <3>2. \A s \in SlotsOf(layout) : Held(part, voter, s) = 0
            BY <2>3, <2>6
        <3> QED
            BY <3>1, <3>2
    <2> QED
        BY <2>5, <2>6
<1> QED
    BY <1>3, <1>4

(* A submission comes in three ciphertexts.                                *)
LEMMA ThreeParts == IsFiniteSet(Part) /\ Cardinality(Part) = 3
<1>1. IsFiniteSet({"candidate"}) /\ Cardinality({"candidate"}) = 1
    BY FS_Singleton
<1>2. /\ IsFiniteSet({"candidate"} \cup {"delegation"})
      /\ Cardinality({"candidate"} \cup {"delegation"}) = 2
    <2>1. "delegation" \notin {"candidate"}
        OBVIOUS
    <2> QED
        BY <1>1, <2>1, FS_AddElement
<1>3. Part = ({"candidate"} \cup {"delegation"}) \cup {"mask"}
    BY DEF Part
<1>4. "mask" \notin {"candidate"} \cup {"delegation"}
    OBVIOUS
<1> QED
    BY <1>2, <1>3, <1>4, FS_AddElement

(* The loop bound, and what the voters to come mean for it.                *)
LEMMA LoopBound ==
    ASSUME InputsConfig
    PROVE  /\ votersToProcess(size, samples, period) \in 0 .. size.n
           /\ size.n \in Nat \ {0}
           /\ Voters(size) = 0 .. size.n - 1
    BY Layout DEF InputsConfig, votersToProcess, Voters

(* The initial states: nothing received, all buffers and accumulators blank.*)
LEMMA InitInputs == InputsInit => InputsInv
<1> SUFFICES ASSUME InputsInit PROVE InputsInv
    OBVIOUS
<1>1. /\ size \in Sizes /\ samples \in 0 .. size.n /\ period \in {"first", "later"}
      /\ voter = 0 /\ part = "candidate" /\ step = "set" /\ received = 0
      /\ slotBuf = Blank(size) /\ rangeMaskBuf = Blank(size)
      /\ acc = [p \in Part |-> [inCt \in Ciphertexts(layout) |-> Blank(size)]]
      /\ announced = 3 * Cardinality(Senders)
    BY DEF InputsInit, Senders
<1>2. size.n \in Nat \ {0}
    BY <1>1, Layout
<1>3. PICK schedule \in [Voters(size) -> SubmissionsOf(widths(size))] :
          submitted = restrictBenchmarkSubmissions(schedule, samples, period)
    BY DEF InputsInit
<1>4. submitted = [v \in Voters(size) |->
                      IF samples > 0 /\ (period = "later" \/ v >= samples)
                      THEN [candidate |-> noSubmission, delegation |-> noSubmission]
                      ELSE schedule[v]]
    BY <1>3 DEF restrictBenchmarkSubmissions
<1>5. InputsConfig
    <2>1. [candidate |-> noSubmission, delegation |-> noSubmission] \in SubmissionsOf(widths(size))
        BY DEF SubmissionsOf, Choices, noSubmission, zeroSubmission
    <2>2. submitted \in [Voters(size) -> SubmissionsOf(widths(size))]
        BY <1>4, <2>1
    <2>3. ASSUME NEW v \in Voters(size), v >= votersToProcess(size, samples, period)
          PROVE  NothingSent(submitted[v])
        <3>1. v \in Nat /\ v < size.n /\ samples \in Nat
            BY <1>1, <1>2 DEF Voters
        <3>2. samples > 0 /\ (period = "later" \/ v >= samples)
            BY <1>1, <1>2, <2>3, <3>1 DEF votersToProcess
        <3> QED
            BY <1>4, <3>2 DEF NothingSent
    <2> QED
        BY <1>1, <2>2, <2>3 DEF InputsConfig
<1>6. votersToProcess(size, samples, period) \in Nat
    BY <1>5, LoopBound
<1>7. InputsControl
    BY <1>1, <1>6 DEF InputsControl, Part
<1>8. Blank(size) = [s \in SlotsOf(layout) |-> 0]
    BY DEF Blank, layout
<1>9. InputsBuffers
    BY <1>1, <1>8 DEF InputsBuffers
<1>10. \A p \in Part : Counted(p) = {}
    <2>1. \A v \in Voters(size) : ~(v < 0)
        BY <1>2 DEF Voters
    <2>2. \A p \in Part : ~(Rank(p) < Rank("candidate"))
        BY DEF Part, Rank
    <2> QED
        BY <1>1, <2>1, <2>2 DEF Counted
<1>11. InputsAdded
    <2>1. Sent = {}
        BY <1>10 DEF Sent
    <2>2. \A p \in Part : \A inCt \in Ciphertexts(layout), s \in SlotsOf(layout) : acc[p][inCt][s] = 0
        BY <1>1, <1>8
    <2>3. \A p \in Part : acc[p] \in [Ciphertexts(layout) -> [SlotsOf(layout) -> {0, 1}]]
        BY <1>1, <1>8
    <2> QED
        BY <1>1, <1>10, <2>1, <2>2, <2>3, FS_EmptySet DEF InputsAdded, PutBy
<1> QED
    BY <1>5, <1>7, <1>9, <1>11 DEF InputsInv

(* What depends on the run and its submissions only does not change.       *)
LEMMA ConfigStays ==
    ASSUME UNCHANGED config
    PROVE  /\ layout' = layout /\ size' = size /\ submitted' = submitted
           /\ Senders' = Senders
           /\ votersToProcess(size, samples, period)' = votersToProcess(size, samples, period)
           /\ \A p, v, o : PlainSlot(p, v, o)' = PlainSlot(p, v, o)
           /\ \A v : Start(v)' = Start(v)
           /\ \A p, v, s : Held(p, v, s)' = Held(p, v, s)
           /\ InputsConfig => InputsConfig'
<1>1. size' = size /\ samples' = samples /\ period' = period /\ submitted' = submitted
      /\ announced' = announced
    BY DEF config
<1>2. layout' = layout
    BY <1>1 DEF layout
<1>3. \A p, v, o : PlainSlot(p, v, o)' = PlainSlot(p, v, o)
    BY <1>1 DEF PlainSlot
<1>4. \A v : Start(v)' = Start(v)
    BY <1>1, <1>2 DEF Start
<1>5. \A p, v, s : Held(p, v, s)' = Held(p, v, s)
    BY <1>1, <1>2 DEF Held, PlainSlot, Start
<1>6. Senders' = Senders
    BY <1>1 DEF Senders
<1>7. InputsConfig => InputsConfig'
    BY <1>1, <1>6 DEF InputsConfig
<1> QED
    BY <1>1, <1>2, <1>3, <1>4, <1>5, <1>6, <1>7

(* The accumulators after a step, from what was put into them.             *)
LEMMA AddedAfter ==
    ASSUME InputsAdded, UNCHANGED config,
           DOMAIN acc' = Part,
           \A p \in Part : acc'[p] \in [Ciphertexts(layout) -> [SlotsOf(layout) -> {0, 1}]],
           \A p \in Part : \A inCt \in Ciphertexts(layout), s \in SlotsOf(layout) :
               PutBy(Counted(p)', p, inCt, s, acc'[p][inCt][s]),
           received' = Cardinality(Sent')
    PROVE  InputsAdded'
BY ConfigStays DEF InputsAdded, PutBy, Owns

(* Nothing is added and nobody new is counted.                             *)
LEMMA AddedStays ==
    ASSUME InputsAdded, UNCHANGED <<config, acc, received>>,
           \A p \in Part : Counted(p)' = Counted(p)
    PROVE  InputsAdded'
<1>1. Sent' = Sent
    BY ConfigStays DEF Sent, config
<1>2. UNCHANGED config
    OBVIOUS
<1> QED
    BY <1>1, <1>2, AddedAfter DEF InputsAdded

(* A voter passed over has sent nothing, so nothing is missing.            *)
LEMMA SkipInputs ==
    ASSUME InputsInv, Skip
    PROVE  InputsInv'
<1> USE DEF InputsInv
<1>1. /\ Visiting /\ part = "candidate" /\ step = "set" /\ NothingSent(submitted[voter])
      /\ voter' = voter + 1
      /\ UNCHANGED <<config, part, step, slotBuf, rangeMaskBuf, acc, received>>
    BY DEF Skip
<1> DEFINE ToVisit == votersToProcess(size, samples, period)
<1>2. /\ InputsConfig' /\ ToVisit' = ToVisit /\ layout' = layout /\ size' = size /\ submitted' = submitted
    BY <1>1, ConfigStays
<1>3. ToVisit \in 0 .. size.n /\ size.n \in Nat /\ Voters(size) = 0 .. size.n - 1
    BY LoopBound
<1> HIDE DEF ToVisit
<1>4. voter \in Voters(size) /\ voter + 1 \in 0 .. ToVisit /\ voter \in Nat /\ Voters(size) \subseteq Nat
    BY <1>1, <1>3 DEF Visiting, InputsControl, ToVisit
<1>5. InputsControl'
    BY <1>1, <1>2, <1>4 DEF InputsControl, ToVisit
<1>6. InputsBuffers'
    BY <1>1, <1>2 DEF InputsBuffers
<1>7. ASSUME NEW p \in Part
      PROVE  Counted(p)' = Counted(p) \cup {voter} /\ voter \notin Counted(p)
    <2>1. ~(Rank(p) < Rank("candidate"))
        BY DEF Part, Rank
    <2>2. Counted(p) = {v \in Voters(size) : v < voter}
        BY <1>1, <2>1 DEF Counted
    <2>3. Counted(p)' = {v \in Voters(size) : v < voter + 1}
        BY <1>1, <1>2, <2>1 DEF Counted
    <2> QED
        BY <1>4, <2>2, <2>3
<1>8. Sent' = Sent
    BY <1>1, <1>2, <1>7 DEF Sent
<1>9. ASSUME NEW p \in Part, NEW inCt \in Ciphertexts(layout), NEW s \in SlotsOf(layout)
      PROVE  PutBy(Counted(p)', p, inCt, s, acc'[p][inCt][s])
    <2>1. acc'[p][inCt][s] = acc[p][inCt][s] /\ acc[p][inCt][s] \in {0, 1}
        BY <1>1 DEF InputsAdded
    <2>2. PutBy(Counted(p), p, inCt, s, acc[p][inCt][s])
        BY DEF InputsAdded
    <2>3. Counted(p) \subseteq Voters(size)
        BY DEF Counted
    <2>4. size \in Sizes /\ submitted[voter] \in SubmissionsOf(widths(size))
        BY <1>4 DEF InputsConfig
    <2> DEFINE C == Counted(p)
               a == acc[p][inCt][s]
    <2>5. /\ voter \in Voters(size) /\ voter \notin C /\ NothingSent(submitted[voter])
          /\ C \subseteq Voters(size) /\ a \in {0, 1} /\ PutBy(C, p, inCt, s, a)
        BY <1>1, <1>4, <1>7, <2>1, <2>2, <2>3
    <2> HIDE DEF C, a
    <2>6. PutBy(C \cup {voter}, p, inCt, s, a)
        BY <2>4, <2>5, PutByNobody
    <2>7. Counted(p)' = C \cup {voter} /\ acc'[p][inCt][s] = a
        BY <1>7, <2>1 DEF C, a
    <2> QED
        BY <2>6, <2>7
<1>10. InputsAdded'
    BY <1>1, <1>8, <1>9, AddedAfter DEF InputsAdded
<1> QED
    BY <1>2, <1>5, <1>6, <1>10

(* A buffer is blank when it is written.                                   *)
LEMMA SetInputs ==
    ASSUME InputsInv, Set
    PROVE  InputsInv'
<1> USE DEF InputsInv
<1>1. /\ Visiting /\ step = "set" /\ step' = "add"
      /\ part = "candidate" => ~NothingSent(submitted[voter])
      /\ UNCHANGED <<config, voter, part, acc, received>>
    BY DEF Set
<1> DEFINE ToVisit == votersToProcess(size, samples, period)
<1>2. /\ InputsConfig' /\ ToVisit' = ToVisit /\ layout' = layout /\ size' = size /\ submitted' = submitted
      /\ \A p, v, s : Held(p, v, s)' = Held(p, v, s)
    BY <1>1, ConfigStays
<1>3. voter \in Voters(size) /\ part \in Part
    BY <1>1, LoopBound DEF Visiting, InputsControl
<1>4. InputsControl'
    BY <1>1, <1>2 DEF InputsControl, Visiting
<1>5. InputsBuffers'
    <2>1. CASE part = "mask"
        <3>1. /\ rangeMaskBuf' = Written(rangeMaskBuf, submissionMask(submitted[voter]))
              /\ slotBuf' = slotBuf
            BY <2>1 DEF Set
        <3>2. \A s \in SlotsOf(layout) : rangeMaskBuf[s] = 0 /\ slotBuf[s] = 0
            BY <1>1, <2>1 DEF InputsBuffers
        <3>3. /\ rangeMaskBuf' \in [SlotsOf(layout) -> {0, 1}]
              /\ \A s \in SlotsOf(layout) : rangeMaskBuf'[s] = Held(part, voter, s)
            BY <1>3, <2>1, <3>1, <3>2, WrittenHolds DEF InputsBuffers
        <3> QED
            BY <1>1, <1>2, <2>1, <3>1, <3>2, <3>3 DEF InputsBuffers
    <2>2. CASE part # "mask"
        <3>1. slotBuf' = Written(slotBuf, 1) /\ rangeMaskBuf' = rangeMaskBuf
            BY <2>2 DEF Set
        <3>2. \A s \in SlotsOf(layout) : rangeMaskBuf[s] = 0 /\ slotBuf[s] = 0
            BY <1>1, <2>2 DEF InputsBuffers
        <3>3. /\ slotBuf' \in [SlotsOf(layout) -> {0, 1}]
              /\ \A s \in SlotsOf(layout) : slotBuf'[s] = Held(part, voter, s)
            BY <1>3, <2>2, <3>1, <3>2, WrittenHolds DEF InputsBuffers
        <3> QED
            BY <1>1, <1>2, <2>2, <3>1, <3>2, <3>3 DEF InputsBuffers
    <2> QED
        BY <2>1, <2>2
<1>6. \A p \in Part : Counted(p)' = Counted(p)
    BY <1>1, <1>2 DEF Counted, Visiting
<1>7. InputsAdded'
    BY <1>1, <1>6, AddedStays
<1> QED
    BY <1>2, <1>4, <1>5, <1>7

(* The voter is not yet counted, and nobody else has its slots.            *)
LEMMA AddInputs ==
    ASSUME InputsInv, Add
    PROVE  InputsInv'
<1> USE DEF InputsInv
<1> DEFINE buf == IF part = "mask" THEN rangeMaskBuf ELSE slotBuf
<1>1. /\ step = "add" /\ step' = "clear"
      /\ acc' = [acc EXCEPT ![part][ctIdx(layout, voter)] =
                    [s \in SlotsOf(layout) |-> @[s] + buf[s]]]
      /\ received' = received + 1
      /\ UNCHANGED <<config, voter, part, slotBuf, rangeMaskBuf>>
    BY DEF Add, OneMore
<1> DEFINE ToVisit == votersToProcess(size, samples, period)
<1>2. /\ InputsConfig' /\ ToVisit' = ToVisit /\ layout' = layout /\ size' = size /\ submitted' = submitted
      /\ \A p, v, s : Held(p, v, s)' = Held(p, v, s)
    BY <1>1, ConfigStays
<1>3. /\ voter \in Voters(size) /\ part \in Part /\ Visiting /\ ~NothingSent(submitted[voter])
      /\ voter \in Nat /\ size \in Sizes /\ ctIdx(layout, voter) \in Ciphertexts(layout)
    <2>1. part \in Part /\ Visiting /\ ~NothingSent(submitted[voter]) /\ size \in Sizes
        BY <1>1 DEF InputsControl, InputsConfig
    <2>2. voter \in Voters(size)
        BY <2>1, LoopBound DEF Visiting, InputsControl
    <2> QED
        BY <2>1, <2>2, Layout
<1>4. InputsControl'
    BY <1>1, <1>2, <1>3 DEF InputsControl, Visiting
<1>5. InputsBuffers'
    BY <1>1, <1>2 DEF InputsBuffers
<1>6. /\ \A p \in Part : p = part => Counted(p)' = Counted(p) \cup {voter}
      /\ \A p \in Part : p # part => Counted(p)' = Counted(p)
      /\ voter \notin Counted(part)
    <2>1. ~(voter < voter) /\ ~(Rank(part) < Rank(part))
        BY <1>3 DEF Part, Rank
    <2> QED
        BY <1>1, <1>2, <1>3, <2>1 DEF Counted, Visiting
<1>7. \A s \in SlotsOf(layout) : buf[s] = Held(part, voter, s)
    BY <1>1 DEF InputsBuffers
<1> HIDE DEF buf
<1> DEFINE put == [s \in SlotsOf(layout) |->
                      acc[part][ctIdx(layout, voter)][s] + Held(part, voter, s)]
<1>8. /\ acc' = [acc EXCEPT ![part] = [@ EXCEPT ![ctIdx(layout, voter)] = put]]
    BY <1>1, <1>7
<1>9. /\ DOMAIN acc' = Part
      /\ acc'[part] = [acc[part] EXCEPT ![ctIdx(layout, voter)] = put]
      /\ \A p \in Part : p # part => acc'[p] = acc[p]
    BY <1>3, <1>8 DEF InputsAdded
<1>10. \A p \in Part : acc[p] \in [Ciphertexts(layout) -> [SlotsOf(layout) -> {0, 1}]]
    BY DEF InputsAdded
<1>11. ASSUME NEW s \in SlotsOf(layout), NEW inCt \in Ciphertexts(layout)
       PROVE  /\ PutBy(Counted(part) \cup {voter}, part, inCt, s, acc'[part][inCt][s])
              /\ acc'[part][inCt][s] \in {0, 1}
    <2> DEFINE a == acc[part][inCt][s]
    <2>1. /\ a \in {0, 1} /\ PutBy(Counted(part), part, inCt, s, a)
          /\ Counted(part) \subseteq Voters(size)
        BY <1>3, <1>10 DEF InputsAdded, Counted
    <2>2. acc'[part][inCt][s] = IF inCt = ctIdx(layout, voter) THEN a + Held(part, voter, s) ELSE a
        BY <1>3, <1>9, <1>10
    <2> HIDE DEF a
    <2>3. CASE Owns(voter, inCt, s)
        <3>1. acc'[part][inCt][s] = a + Held(part, voter, s)
            BY <2>2, <2>3 DEF Owns
        <3>2. /\ PutBy(Counted(part) \cup {voter}, part, inCt, s, a + Held(part, voter, s))
              /\ a + Held(part, voter, s) \in {0, 1}
            BY <1>3, <1>6, <2>1, <2>3, PutByOneMore
        <3> QED
            BY <3>1, <3>2
    <2>4. CASE ~Owns(voter, inCt, s)
        <3>1. inCt = ctIdx(layout, voter) => Held(part, voter, s) = 0
            BY <2>4 DEF Owns, Held
        <3>2. acc'[part][inCt][s] = a
            BY <2>1, <2>2, <3>1
        <3>3. PutBy(Counted(part) \cup {voter}, part, inCt, s, a)
            BY <1>3, <1>6, <2>1, <2>4, PutByOneMore
        <3> QED
            BY <2>1, <3>2, <3>3
    <2> QED
        BY <2>3, <2>4
<1>12. \A p \in Part : acc'[p] \in [Ciphertexts(layout) -> [SlotsOf(layout) -> {0, 1}]]
    <2>1. acc'[part] \in [Ciphertexts(layout) -> [SlotsOf(layout) -> {0, 1}]]
        <3>1. acc'[part] = [inCt \in Ciphertexts(layout) |-> acc'[part][inCt]]
            BY <1>3, <1>9, <1>10
        <3>2. \A inCt \in Ciphertexts(layout) :
                  acc'[part][inCt] = [s \in SlotsOf(layout) |-> acc'[part][inCt][s]]
            BY <1>3, <1>9, <1>10
        <3>3. \A inCt \in Ciphertexts(layout), s \in SlotsOf(layout) : acc'[part][inCt][s] \in {0, 1}
            BY <1>11
        <3> HIDE DEF put
        <3>4. \A inCt \in Ciphertexts(layout) : acc'[part][inCt] \in [SlotsOf(layout) -> {0, 1}]
            BY <3>2, <3>3
        <3> QED
            BY <3>1, <3>4
    <2> QED
        BY <1>9, <1>10, <2>1
<1> HIDE DEF put
<1>13. ASSUME NEW p \in Part, NEW inCt \in Ciphertexts(layout), NEW s \in SlotsOf(layout)
       PROVE  PutBy(Counted(p)', p, inCt, s, acc'[p][inCt][s])
    <2>1. CASE p = part
        <3>1. Counted(p)' = Counted(part) \cup {voter}
            BY <1>6, <2>1
        <3> QED
            BY <1>11, <2>1, <3>1
    <2>2. CASE p # part
        <3>1. acc'[p][inCt][s] = acc[p][inCt][s] /\ Counted(p)' = Counted(p)
            BY <1>6, <1>9, <2>2
        <3>2. PutBy(Counted(p), p, inCt, s, acc[p][inCt][s])
            BY DEF InputsAdded
        <3> QED
            BY <3>1, <3>2
    <2> QED
        BY <2>1, <2>2
<1>14. received' = Cardinality(Sent')
    <2>1. Sent' = Sent \cup {<<part, voter>>} /\ <<part, voter>> \notin Sent
        BY <1>1, <1>2, <1>3, <1>6 DEF Sent
    <2>2. IsFiniteSet(Sent)
        <3>1. IsFiniteSet(Part)
            BY ThreeParts
        <3>2. IsFiniteSet(Voters(size))
            BY LoopBound, FS_Interval
        <3>3. IsFiniteSet(Part \X Voters(size))
            BY <3>1, <3>2, FS_Product
        <3> QED
            BY <3>3, FS_Subset DEF Sent
    <2>3. Cardinality(Sent \cup {<<part, voter>>}) = Cardinality(Sent) + 1
        BY <2>1, <2>2, FS_AddElement
    <2> QED
        BY <1>1, <2>1, <2>3 DEF InputsAdded
<1>15. InputsAdded'
    BY <1>1, <1>9, <1>12, <1>13, <1>14, AddedAfter
<1> QED
    BY <1>2, <1>4, <1>5, <1>15

(* A buffer is blank again when its voter is done.                         *)
LEMMA ClearInputs ==
    ASSUME InputsInv, Clear
    PROVE  InputsInv'
<1> USE DEF InputsInv
<1>1. step = "clear" /\ step' = "set" /\ UNCHANGED <<config, acc, received>>
    BY DEF Clear
<1> DEFINE ToVisit == votersToProcess(size, samples, period)
<1>2. /\ InputsConfig' /\ ToVisit' = ToVisit /\ layout' = layout /\ size' = size /\ submitted' = submitted
    BY <1>1, ConfigStays
<1>3. ToVisit \in 0 .. size.n /\ size.n \in Nat /\ Voters(size) = 0 .. size.n - 1
    BY LoopBound
<1> HIDE DEF ToVisit
<1>4. /\ voter \in Voters(size) /\ part \in Part /\ voter < ToVisit /\ ~NothingSent(submitted[voter])
      /\ voter \in Nat /\ voter + 1 \in 0 .. ToVisit
    BY <1>1, <1>3 DEF InputsControl, Visiting, ToVisit
<1>5. /\ part = "candidate" => part' = "delegation" /\ voter' = voter
      /\ part = "delegation" => part' = "mask" /\ voter' = voter
      /\ part = "mask" => part' = "candidate" /\ voter' = voter + 1
    BY DEF Clear
<1>6. InputsControl'
    <2>1. part' \in Part /\ voter' \in 0 .. ToVisit /\ (part' # "candidate" => voter' = voter)
        BY <1>3, <1>4, <1>5 DEF Part
    <2> QED
        BY <1>1, <1>2, <1>4, <2>1 DEF InputsControl, Visiting, ToVisit
<1>7. InputsBuffers'
    <2>1. CASE part = "mask"
        <3>1. rangeMaskBuf' = Written(rangeMaskBuf, 0) /\ slotBuf' = slotBuf
            BY <2>1 DEF Clear, Cleared
        <3>2. \A s \in SlotsOf(layout) : rangeMaskBuf[s] = Held(part, voter, s) /\ slotBuf[s] = 0
            BY <1>1, <2>1 DEF InputsBuffers
        <3>3. /\ rangeMaskBuf' \in [SlotsOf(layout) -> {0, 1}]
              /\ \A s \in SlotsOf(layout) : rangeMaskBuf'[s] = 0
            BY <1>4, <3>1, <3>2, WrittenHolds DEF InputsBuffers
        <3> QED
            BY <1>1, <1>2, <3>1, <3>2, <3>3 DEF InputsBuffers
    <2>2. CASE part # "mask"
        <3>1. slotBuf' = Written(slotBuf, 0) /\ rangeMaskBuf' = rangeMaskBuf
            BY <2>2 DEF Clear, Cleared
        <3>2. \A s \in SlotsOf(layout) : rangeMaskBuf[s] = 0 /\ slotBuf[s] = Held(part, voter, s)
            BY <1>1, <2>2 DEF InputsBuffers
        <3>3. /\ slotBuf' \in [SlotsOf(layout) -> {0, 1}]
              /\ \A s \in SlotsOf(layout) : slotBuf'[s] = 0
            BY <1>4, <3>1, <3>2, WrittenHolds DEF InputsBuffers
        <3> QED
            BY <1>1, <1>2, <3>1, <3>2, <3>3 DEF InputsBuffers
    <2> QED
        BY <2>1, <2>2
<1>8. ASSUME NEW p \in Part
      PROVE  Counted(p)' = Counted(p)
    <2>1. /\ Rank("candidate") = 0 /\ Rank("delegation") = 1 /\ Rank("mask") = 2
          /\ p \in {"candidate", "delegation", "mask"}
        BY DEF Rank, Part
    <2>2. \A v \in Voters(size) : v \in Nat
        BY <1>3
    <2>3. Counted(p) = {v \in Voters(size) : v < voter \/ (v = voter /\ Rank(p) <= Rank(part))}
        BY <1>1, <1>4, <2>1 DEF Counted, Visiting, Part, ToVisit
    <2>4. CASE part # "mask"
        <3>1. Counted(p)' = {v \in Voters(size) : v < voter \/ (v = voter /\ Rank(p) < Rank(part'))}
            BY <1>1, <1>2, <1>4, <1>5, <2>4 DEF Counted, Visiting, Part, ToVisit
        <3>2. Rank(p) < Rank(part') <=> Rank(p) <= Rank(part)
            BY <1>4, <1>5, <2>1, <2>4 DEF Part
        <3> QED
            BY <2>3, <3>1, <3>2
    <2>5. CASE part = "mask"
        <3>1. Rank(p) <= Rank(part) /\ ~(Rank(p) < Rank("candidate"))
            BY <2>1, <2>5
        <3>2. Counted(p)' = {v \in Voters(size) : v < voter + 1}
            BY <1>1, <1>2, <1>5, <2>5, <3>1 DEF Counted
        <3>3. \A v \in Voters(size) : v < voter + 1 <=> v < voter \/ v = voter
            BY <1>4, <2>2
        <3> QED
            BY <2>3, <3>1, <3>2, <3>3
    <2> QED
        BY <2>4, <2>5
<1>9. InputsAdded'
    BY <1>1, <1>8, AddedStays
<1> QED
    BY <1>2, <1>6, <1>7, <1>9

(* Every reachable state of the reception satisfies the invariant.         *)
THEOREM InputsInvariant == InputsSpec => []InputsInv
<1>1. InputsInv /\ [InputsNext]_inputsVars => InputsInv'
    <2> SUFFICES ASSUME InputsInv, [InputsNext]_inputsVars PROVE InputsInv'
        OBVIOUS
    <2>1. CASE UNCHANGED inputsVars
        <3>1. UNCHANGED <<config, voter, part, step, slotBuf, rangeMaskBuf, acc, received>>
            BY <2>1 DEF inputsVars
        <3>2. /\ layout' = layout /\ InputsConfig'
              /\ votersToProcess(size, samples, period)' = votersToProcess(size, samples, period)
              /\ submitted' = submitted
              /\ \A p, v, s : Held(p, v, s)' = Held(p, v, s)
            BY <3>1, ConfigStays DEF InputsInv
        <3>3. InputsControl' /\ InputsBuffers'
            BY <3>1, <3>2 DEF InputsInv, InputsControl, InputsBuffers, Visiting
        <3>4. \A p \in Part : Counted(p)' = Counted(p)
            BY <3>1, ConfigStays DEF Counted, Visiting
        <3>5. InputsAdded'
            BY <3>1, <3>4, AddedStays DEF InputsInv
        <3> QED
            BY <3>2, <3>3, <3>5 DEF InputsInv
    <2> QED
        BY <2>1, SkipInputs, SetInputs, AddInputs, ClearInputs DEF InputsNext
<1> QED
    BY InitInputs, <1>1, PTL DEF InputsSpec

(* What is received is part of what was announced, and all of it at the    *)
(* end of the loop.                                                        *)
LEMMA ReceivedAnnounced ==
    ASSUME InputsInv
    PROVE  ReceivesWhatWasAnnounced /\ received \in Nat /\ announced \in Nat
<1> USE DEF InputsInv
<1> DEFINE ToVisit == votersToProcess(size, samples, period)
<1>1. ToVisit \in 0 .. size.n /\ size.n \in Nat /\ Voters(size) = 0 .. size.n - 1
    BY LoopBound
<1>2. Senders = {v \in 0 .. ToVisit - 1 : ~NothingSent(submitted[v])}
    BY DEF Senders
<1>3. voter \in 0 .. ToVisit /\ (Visiting <=> voter < ToVisit)
    BY DEF InputsControl, Visiting
<1> HIDE DEF ToVisit
<1>4. IsFiniteSet(Senders) /\ Cardinality(Senders) \in Nat
    <2>1. IsFiniteSet(0 .. ToVisit - 1)
        BY <1>1, FS_Interval
    <2>2. IsFiniteSet(Senders)
        BY <1>2, <2>1, FS_Subset
    <2> QED
        BY <2>2, FS_CardinalityType
<1>5. /\ IsFiniteSet(Part \X Senders)
      /\ Cardinality(Part \X Senders) = announced /\ announced \in Nat
    <2>1. Cardinality(Part \X Senders) = 3 * Cardinality(Senders) /\ IsFiniteSet(Part \X Senders)
        BY <1>4, ThreeParts, FS_Product
    <2> QED
        BY <1>4, <2>1 DEF InputsConfig
<1>6. Sent \subseteq Part \X Senders
    <2> SUFFICES ASSUME NEW p \in Part, NEW v \in Voters(size), v \in Counted(p),
                        ~NothingSent(submitted[v])
                 PROVE  v \in Senders
        BY DEF Sent
    <2>1. v < voter \/ (v = voter /\ voter < ToVisit)
        BY <1>3 DEF Counted
    <2> QED
        BY <1>1, <1>2, <1>3, <2>1
<1>7. IsFiniteSet(Sent) /\ Cardinality(Sent) <= announced /\ Cardinality(Sent) \in Nat
    <2>1. IsFiniteSet(Sent) /\ Cardinality(Sent) <= Cardinality(Part \X Senders)
        BY <1>5, <1>6, FS_Subset
    <2> QED
        BY <1>5, <2>1, FS_CardinalityType
<1>8. ASSUME ~Visiting
      PROVE  Sent = Part \X Senders
    <2>1. voter = ToVisit
        BY <1>1, <1>3, <1>8
    <2> SUFFICES ASSUME NEW p \in Part, NEW v \in Senders
                 PROVE  <<p, v>> \in Sent
        BY <1>6
    <2>2. v \in Voters(size) /\ v < voter /\ ~NothingSent(submitted[v])
        BY <1>1, <1>2, <2>1
    <2> QED
        BY <2>2 DEF Sent, Counted
<1>9. received = Cardinality(Sent)
    BY DEF InputsAdded
<1> QED
    BY <1>5, <1>7, <1>8, <1>9 DEF ReceivesWhatWasAnnounced, Sent

(* AccumulatesThePeriod: for all sizes, schedules and benchmark settings,  *)
(* the reused buffers leave nothing behind, the accumulators hold the      *)
(* packed period of the voters received, and what was announced comes.     *)
THEOREM PeriodIsAccumulated == InputsSpec => []AccumulatesThePeriod
<1>1. InputsInv => AccumulatesThePeriod
    <2> SUFFICES ASSUME InputsInv PROVE AccumulatesThePeriod
        OBVIOUS
    <2>1. ReceivesWhatWasAnnounced /\ received \in Nat /\ announced \in Nat
        BY ReceivedAnnounced
    <2>2. InputsTypeOK
        BY <2>1 DEF InputsInv, InputsConfig, InputsControl, InputsBuffers, InputsAdded, InputsTypeOK
    <2>3. ASSUME NEW p \in Part, NEW inCt \in Ciphertexts(layout), NEW s \in SlotsOf(layout)
          PROVE  acc[p][inCt][s] =
                     LET owner == {v \in Counted(p) : ctIdx(layout, v) = inCt
                                              /\ s \in Block(layout, blockSize(size), v)}
                     IN  IF owner = {} THEN 0
                         ELSE LET v == CHOOSE o \in owner : TRUE
                              IN  PlainSlot(p, v, s - Start(v))
        <3> DEFINE owner == {v \in Counted(p) : ctIdx(layout, v) = inCt
                                              /\ s \in Block(layout, blockSize(size), v)}
        <3>1. PutBy(Counted(p), p, inCt, s, acc[p][inCt][s])
            BY DEF InputsInv, InputsAdded
        <3>2. CASE owner = {}
            BY <3>1, <3>2 DEF PutBy, Owns
        <3>3. CASE owner # {}
            <4> DEFINE v == CHOOSE o \in owner : TRUE
            <4>1. v \in owner
                BY <3>3
            <4> HIDE DEF v
            <4>2. acc[p][inCt][s] = PlainSlot(p, v, s - Start(v))
                BY <3>1, <4>1 DEF PutBy, Owns
            <4> QED
                BY <3>3, <4>2 DEF v
        <3> QED
            BY <3>2, <3>3
    <2>4. ASSUME ~Visiting, NEW v \in Voters(size)
          PROVE  v \in Counted("mask") \/ NothingSent(submitted[v])
        <3> DEFINE ToVisit == votersToProcess(size, samples, period)
        <3>1. ToVisit \in 0 .. size.n /\ size.n \in Nat /\ Voters(size) = 0 .. size.n - 1
            BY LoopBound DEF InputsInv
        <3>2. voter = ToVisit
            BY <2>4, <3>1 DEF InputsInv, InputsControl, Visiting
        <3>3. v < ToVisit => v \in Counted("mask")
            BY <3>2 DEF Counted
        <3>4. v >= ToVisit => NothingSent(submitted[v])
            BY DEF InputsInv, InputsConfig
        <3> HIDE DEF ToVisit
        <3> QED
            BY <3>1, <3>3, <3>4
    <2> QED
        BY <2>1, <2>2, <2>3, <2>4 DEF AccumulatesThePeriod
<1> QED
    BY InputsInvariant, <1>1, PTL
=============================================================================
