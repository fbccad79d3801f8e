------------------------- MODULE PeriodicEchoProofs -------------------------
(***************************************************************************)
(* The encrypted echo implements the echo relation, for every modulus,     *)
(* packing, number of periods, mode and refresh interval.  In tree mode    *)
(* the argument is the invariant SegmentsConnectPrefixes: merging two      *)
(* neighbouring segments composes the two transformations they stand for,  *)
(* whichever pair the tree chooses, so the totals do not depend on it.     *)
(***************************************************************************)
EXTENDS MCPeriodicEcho, ArithmeticLemmas, SequenceTheorems, FiniteSetTheorems

----------------------------------------------------------------------------
(* The evaluator's operations on slots and ciphertexts.                    *)

LEMMA ModulusPositive == Modulus \in Nat \ {0}
BY ModulusAssumption

LEMMA SlotTypes ==
    ASSUME NEW x \in Int, NEW y \in Int
    PROVE  Plus(x, y) \in Residue /\ Times(x, y) \in Residue
<1>1. x + y \in Int /\ x * y \in Int
    OBVIOUS
<1> QED
    BY <1>1, ModulusPositive DEF Plus, Times, Residue

LEMMA ResidueIsInt == Residue \subseteq Int
BY ModulusPositive DEF Residue

LEMMA CiphertextTypes ==
    ASSUME NEW l \in Ciphertext, NEW r \in Ciphertext
    PROVE  /\ mul(l, r) \in Ciphertext
           /\ add(l, r) \in Ciphertext
           /\ oneMinus(l) \in Ciphertext
           /\ refresh(l) \in Ciphertext
<1>1. \A s \in Slots : l.v[s] \in Int /\ r.v[s] \in Int
    BY ResidueIsInt DEF Ciphertext, Vector
<1>2. l.depth \in Nat /\ r.depth \in Nat
    BY DEF Ciphertext
<1>3. \A s \in Slots : /\ Times(l.v[s], r.v[s]) \in Residue
                       /\ Plus(l.v[s], r.v[s]) \in Residue
    BY <1>1, SlotTypes
<1>4. Larger(l.depth, r.depth) \in Nat /\ 1 + Larger(l.depth, r.depth) \in Nat
    BY <1>2 DEF Larger
<1>5. mul(l, r) \in Ciphertext
    BY <1>3, <1>4 DEF mul, Ciphertext, Vector
<1>6. add(l, r) \in Ciphertext
    BY <1>3, <1>4 DEF add, Ciphertext, Vector
<1>7. \A s \in Slots : (logicalRange[s] - l.v[s]) % Modulus \in Residue
    <2> SUFFICES ASSUME NEW s \in Slots
                 PROVE  (logicalRange[s] - l.v[s]) % Modulus \in Residue
        OBVIOUS
    <2>1. logicalRange[s] - l.v[s] \in Int
        BY <1>1 DEF logicalRange
    <2> QED
        BY <2>1, ModulusPositive DEF Residue
<1>8. oneMinus(l) \in Ciphertext
    BY <1>2, <1>7 DEF oneMinus, Ciphertext, Vector
<1>9. refresh(l) \in Ciphertext
    BY DEF refresh, Ciphertext
<1> QED
    BY <1>5, <1>6, <1>8, <1>9

LEMMA InputTypes ==
    ASSUME NEW x \in Payloads \cup Masks
    PROVE  Encrypted(x) \in Ciphertext
BY InputsAssumption DEF Encrypted, Ciphertext, Vector, Residue

LEMMA ZeroTypes == Zero \in Vector /\ Encrypted(Zero) \in Ciphertext
BY ModulusPositive DEF Zero, Encrypted, Ciphertext, Vector, Residue

LEMMA GatedType ==
    ASSUME NEW x \in Payloads, NEW z \in Masks
    PROVE  gatedInput(x, z) \in Ciphertext
BY InputTypes, CiphertextTypes DEF gatedInput

LEMMA LeafType ==
    ASSUME NEW x \in Payloads, NEW z \in Masks
    PROVE  LeafSegment(x, z) \in Segment
BY GatedType, InputTypes, CiphertextTypes DEF LeafSegment, Segment

LEMMA CombineType ==
    ASSUME NEW l \in Segment, NEW r \in Segment
    PROVE  CombineSegments(l, r) \in Segment
<1>1. /\ l.a \in Ciphertext /\ l.b \in Ciphertext /\ l.c \in Ciphertext /\ l.d \in Ciphertext
      /\ r.a \in Ciphertext /\ r.b \in Ciphertext /\ r.c \in Ciphertext /\ r.d \in Ciphertext
    BY DEF Segment
<1>2. mul(r.a, l.a) \in Ciphertext
    BY <1>1, CiphertextTypes
<1>3. add(mul(r.a, l.b), r.b) \in Ciphertext
    BY <1>1, CiphertextTypes
<1>4. add(l.c, mul(r.c, l.a)) \in Ciphertext
    BY <1>1, CiphertextTypes
<1>5. add(add(l.d, r.d), mul(r.c, l.b)) \in Ciphertext
    BY <1>1, CiphertextTypes
<1> QED
    BY <1>2, <1>3, <1>4, <1>5 DEF CombineSegments, Segment

LEMMA ApplyType ==
    ASSUME NEW seg \in Segment, NEW st \in EchoState
    PROVE  Apply(seg, st) \in EchoState
<1>1. \A s \in Slots : /\ seg.a.v[s] \in Int /\ seg.b.v[s] \in Int /\ seg.c.v[s] \in Int
                       /\ seg.d.v[s] \in Int /\ st.u[s] \in Int /\ st.total[s] \in Int
    BY ResidueIsInt DEF Segment, Ciphertext, Vector, EchoState
<1>2. \A s \in Slots : Plus(Times(seg.a.v[s], st.u[s]), seg.b.v[s]) \in Residue
    BY <1>1, SlotTypes, ResidueIsInt
<1>3. \A s \in Slots :
          Plus(Plus(st.total[s], Times(seg.c.v[s], st.u[s])), seg.d.v[s]) \in Residue
    BY <1>1, SlotTypes, ResidueIsInt
<1> QED
    BY <1>2, <1>3 DEF Apply, EchoState, Vector

----------------------------------------------------------------------------
(* Merging composes.                                                       *)

LEMMA PlusFlat ==
    ASSUME NEW x \in Int, NEW y \in Int, NEW z \in Int
    PROVE  /\ Plus(Plus(x, y), z) = (x + y + z) % Modulus
           /\ Plus(x, Plus(y, z)) = (x + y + z) % Modulus
<1>1. /\ (((x + y) % Modulus) + z) % Modulus = (x + y + z) % Modulus
      /\ (x + ((y + z) % Modulus)) % Modulus = (x + y + z) % Modulus
    BY ModulusPositive, ModPlusAssoc
<1> QED
    BY <1>1 DEF Plus

LEMMA PlusLaws ==
    ASSUME NEW x \in Int, NEW y \in Int, NEW z \in Int
    PROVE  /\ Plus(x, y) = Plus(y, x)
           /\ Plus(Plus(x, y), z) = Plus(x, Plus(y, z))
<1>1. x + y = y + x
    OBVIOUS
<1> QED
    BY <1>1, PlusFlat DEF Plus

LEMMA TimesLaws ==
    ASSUME NEW x \in Int, NEW y \in Int, NEW z \in Int
    PROVE  /\ Times(x, y) = Times(y, x)
           /\ Times(Times(x, y), z) = Times(x, Times(y, z))
           /\ Times(x, Plus(y, z)) = Plus(Times(x, y), Times(x, z))
<1>1. x * y = y * x
    OBVIOUS
<1>2. (((x * y) % Modulus) * z) % Modulus = (x * ((y * z) % Modulus)) % Modulus
    BY ModulusPositive, ModTimesAssoc
<1>3. (x * ((y + z) % Modulus)) % Modulus
        = (((x * y) % Modulus) + ((x * z) % Modulus)) % Modulus
    BY ModulusPositive, ModDistributes
<1> QED
    BY <1>1, <1>2, <1>3 DEF Times, Plus

LEMMA ComposeU ==
    ASSUME NEW ra \in Residue, NEW rb \in Residue, NEW la \in Residue, NEW lb \in Residue,
           NEW u \in Residue
    PROVE  Plus(Times(Times(ra, la), u), Plus(Times(ra, lb), rb))
             = Plus(Times(ra, Plus(Times(la, u), lb)), rb)
<1> DEFINE p == Times(la, u)
<1>1. /\ ra \in Int /\ rb \in Int /\ la \in Int /\ lb \in Int /\ u \in Int /\ p \in Int
      /\ Times(ra, p) \in Int /\ Times(ra, lb) \in Int
    BY SlotTypes, ResidueIsInt
<1>2. Times(Times(ra, la), u) = Times(ra, p)
    BY <1>1, TimesLaws
<1> HIDE DEF p
<1>3. Times(ra, Plus(p, lb)) = Plus(Times(ra, p), Times(ra, lb))
    BY <1>1, TimesLaws
<1>4. Plus(Times(ra, p), Plus(Times(ra, lb), rb)) = Plus(Plus(Times(ra, p), Times(ra, lb)), rb)
    BY <1>1, PlusLaws
<1> QED
    BY <1>2, <1>3, <1>4 DEF p

LEMMA CarryOfMerged ==
    ASSUME NEW lc \in Residue, NEW rc \in Residue, NEW la \in Residue, NEW u \in Residue
    PROVE  Times(Plus(lc, Times(rc, la)), u) = Plus(Times(lc, u), Times(rc, Times(la, u)))
<1> DEFINE e == Times(rc, la)
<1>1. /\ lc \in Int /\ rc \in Int /\ la \in Int /\ u \in Int
      /\ e \in Int /\ Plus(lc, e) \in Int
    BY SlotTypes, ResidueIsInt
<1>2. Times(e, u) = Times(rc, Times(la, u))
    BY <1>1, TimesLaws
<1> HIDE DEF e
<1>3. Times(u, Plus(lc, e)) = Plus(Times(u, lc), Times(u, e))
    BY <1>1, TimesLaws
<1>4. /\ Times(u, Plus(lc, e)) = Times(Plus(lc, e), u)
      /\ Times(u, lc) = Times(lc, u)
      /\ Times(u, e) = Times(e, u)
    BY <1>1, TimesLaws
<1> QED
    BY <1>2, <1>3, <1>4 DEF e

(* A merged segment transforms a state as its two parts do one after the   *)
(* other: what newPeriodicEchoState's combine is for.                      *)
THEOREM MergeComposes ==
    ASSUME NEW l \in Segment, NEW r \in Segment, NEW st \in EchoState
    PROVE  Apply(CombineSegments(l, r), st) = Apply(r, Apply(l, st))
<1> DEFINE m == CombineSegments(l, r)
           mid == Apply(l, st)
<1>1. \A s \in Slots : /\ l.a.v[s] \in Residue /\ l.b.v[s] \in Residue
                       /\ l.c.v[s] \in Residue /\ l.d.v[s] \in Residue
                       /\ r.a.v[s] \in Residue /\ r.b.v[s] \in Residue
                       /\ r.c.v[s] \in Residue /\ r.d.v[s] \in Residue
                       /\ st.u[s] \in Residue /\ st.total[s] \in Residue
    BY DEF Segment, Ciphertext, Vector, EchoState
<1>2. \A s \in Slots :
          /\ m.a.v[s] = Times(r.a.v[s], l.a.v[s])
          /\ m.b.v[s] = Plus(Times(r.a.v[s], l.b.v[s]), r.b.v[s])
          /\ m.c.v[s] = Plus(l.c.v[s], Times(r.c.v[s], l.a.v[s]))
          /\ m.d.v[s] = Plus(Plus(l.d.v[s], r.d.v[s]), Times(r.c.v[s], l.b.v[s]))
    BY DEF CombineSegments, mul, add
<1>3. \A s \in Slots :
          /\ mid.u[s] = Plus(Times(l.a.v[s], st.u[s]), l.b.v[s])
          /\ mid.total[s] = Plus(Plus(st.total[s], Times(l.c.v[s], st.u[s])), l.d.v[s])
    BY DEF Apply
<1> HIDE DEF m, mid
<1>4. ASSUME NEW s \in Slots
      PROVE  /\ Plus(Times(m.a.v[s], st.u[s]), m.b.v[s])
                  = Plus(Times(r.a.v[s], mid.u[s]), r.b.v[s])
             /\ Plus(Plus(st.total[s], Times(m.c.v[s], st.u[s])), m.d.v[s])
                  = Plus(Plus(mid.total[s], Times(r.c.v[s], mid.u[s])), r.d.v[s])
    <2> DEFINE la == l.a.v[s]
               lb == l.b.v[s]
               lc == l.c.v[s]
               ld == l.d.v[s]
               ra == r.a.v[s]
               rb == r.b.v[s]
               rc == r.c.v[s]
               rd == r.d.v[s]
               u == st.u[s]
               t == st.total[s]
    <2>1. /\ la \in Residue /\ lb \in Residue /\ lc \in Residue /\ ld \in Residue
          /\ ra \in Residue /\ rb \in Residue /\ rc \in Residue /\ rd \in Residue
          /\ u \in Residue /\ t \in Residue
        BY <1>1
    <2>2. /\ m.a.v[s] = Times(ra, la)
          /\ m.b.v[s] = Plus(Times(ra, lb), rb)
          /\ m.c.v[s] = Plus(lc, Times(rc, la))
          /\ m.d.v[s] = Plus(Plus(ld, rd), Times(rc, lb))
        BY <1>2
    <2>3. /\ mid.u[s] = Plus(Times(la, u), lb)
          /\ mid.total[s] = Plus(Plus(t, Times(lc, u)), ld)
        BY <1>3
    <2> HIDE DEF la, lb, lc, ld, ra, rb, rc, rd, u, t
    <2>4. Plus(Times(Times(ra, la), u), Plus(Times(ra, lb), rb))
            = Plus(Times(ra, Plus(Times(la, u), lb)), rb)
        BY <2>1, ComposeU
    <2>5. Plus(Plus(t, Times(Plus(lc, Times(rc, la)), u)), Plus(Plus(ld, rd), Times(rc, lb)))
            = Plus(Plus(Plus(Plus(t, Times(lc, u)), ld),
                        Times(rc, Plus(Times(la, u), lb))), rd)
        <3> DEFINE A == Times(lc, u)
                   B == Times(rc, Times(la, u))
                   C == Times(rc, lb)
        <3>1. A \in Residue /\ B \in Residue /\ C \in Residue /\ Times(la, u) \in Int
            BY <2>1, SlotTypes, ResidueIsInt
        <3>2. Times(Plus(lc, Times(rc, la)), u) = Plus(A, B)
            BY <2>1, CarryOfMerged
        <3>3. Times(rc, Plus(Times(la, u), lb)) = Plus(B, C)
            BY <2>1, <3>1, TimesLaws, ResidueIsInt
        <3> HIDE DEF A, B, C
        <3>4. Plus(Plus(t, Plus(A, B)), Plus(Plus(ld, rd), C))
                = Plus(Plus(Plus(Plus(t, A), ld), Plus(B, C)), rd)
            <4> DEFINE AB == Plus(A, B)
                       BC == Plus(B, C)
                       tA == Plus(t, A)
                       lr == Plus(ld, rd)
            <4>1. t \in Int /\ A \in Int /\ B \in Int /\ C \in Int /\ ld \in Int /\ rd \in Int
                BY <2>1, <3>1, ResidueIsInt
            <4>2. AB \in Int /\ BC \in Int /\ tA \in Int /\ lr \in Int
                  /\ Plus(B, lr) \in Int /\ Plus(lr, C) \in Int /\ Plus(lr, B) \in Int
                  /\ Plus(ld, BC) \in Int /\ Plus(rd, BC) \in Int /\ Plus(BC, rd) \in Int
                  /\ Plus(tA, ld) \in Int
                BY <4>1, SlotTypes, ResidueIsInt
            <4>3. Plus(Plus(t, AB), Plus(lr, C)) = Plus(tA, Plus(B, Plus(lr, C)))
                <5>1. Plus(t, AB) = Plus(tA, B)
                    BY <4>1, PlusLaws
                <5> HIDE DEF tA, lr
                <5> QED
                    BY <5>1, <4>1, <4>2, PlusLaws
            <4>4. Plus(B, Plus(lr, C)) = Plus(lr, BC)
                <5> HIDE DEF lr
                <5>1. Plus(B, Plus(lr, C)) = Plus(Plus(lr, B), C)
                    BY <4>1, <4>2, PlusLaws
                <5> QED
                    BY <5>1, <4>1, <4>2, PlusLaws
            <4> HIDE DEF AB, BC, tA
            <4>5. Plus(lr, BC) = Plus(ld, Plus(BC, rd))
                BY <4>1, <4>2, PlusLaws
            <4> HIDE DEF lr
            <4>6. Plus(Plus(Plus(tA, ld), BC), rd) = Plus(tA, Plus(ld, Plus(BC, rd)))
                <5>1. Plus(Plus(Plus(tA, ld), BC), rd) = Plus(Plus(tA, ld), Plus(BC, rd))
                    BY <4>1, <4>2, PlusLaws
                <5>2. Plus(Plus(tA, ld), Plus(BC, rd)) = Plus(tA, Plus(ld, Plus(BC, rd)))
                    BY <4>1, <4>2, PlusLaws
                <5> QED
                    BY <5>1, <5>2
            <4> QED
                BY <4>3, <4>4, <4>5, <4>6 DEF AB, BC, tA, lr
        <3> QED
            BY <3>2, <3>3, <3>4 DEF A, C
    <2>6. Plus(Times(m.a.v[s], u), m.b.v[s]) = Plus(Times(ra, mid.u[s]), rb)
        BY <2>2, <2>3, <2>4
    <2>7. Plus(Plus(t, Times(m.c.v[s], u)), m.d.v[s])
            = Plus(Plus(mid.total[s], Times(rc, mid.u[s])), rd)
        BY <2>2, <2>3, <2>5
    <2> QED
        BY <2>6, <2>7 DEF ra, rb, rc, rd, u, t
<1>6. Apply(m, st) = Apply(r, mid)
    BY <1>4 DEF Apply
<1> QED
    BY <1>6 DEF m, mid

----------------------------------------------------------------------------
(* Closing a period is one step of the relation.                           *)

(* One slot of one period: where the range is 0, so are input and state.   *)
LEMMA SlotCloses ==
    ASSUME NEW u \in Residue, NEW x \in Residue, NEW z \in Residue, NEW r \in {0, 1},
           r = 1 \/ (u = 0 /\ x = 0 /\ z = 0)
    PROVE  Plus(Times((r - z) % Modulus, u), Times(x, z)) = (u * (1 - z) + x * z) % Modulus
<1> DEFINE p == u * (1 - z)
           q == x * z
<1>1. u \in Int /\ x \in Int /\ z \in Int /\ r - z \in Int /\ p \in Int /\ q \in Int
      /\ (r - z) * u \in Int
    BY ResidueIsInt
<1>2. Times((r - z) % Modulus, u) = p % Modulus
    <2>1. (((r - z) % Modulus) * u) % Modulus = ((r - z) * u) % Modulus
        BY <1>1, ModulusPositive, ModTimes
    <2>2. CASE r = 1
        <3>1. (1 - z) * u = u * (1 - z)
            BY <1>1
        <3> QED
            BY <2>1, <2>2, <3>1 DEF Times
    <2>3. CASE u = 0
        <3>1. (r - z) * 0 = 0 /\ 0 * (1 - z) = 0
            BY <1>1
        <3> QED
            BY <2>1, <2>3, <3>1 DEF Times
    <2> QED
        BY <2>2, <2>3
<1> HIDE DEF p, q
<1>3. ((p % Modulus) + (q % Modulus)) % Modulus = (p + q) % Modulus
    <2>1. p % Modulus \in Int /\ q % Modulus \in Int
        BY <1>1, ModulusPositive
    <2>2. ((p % Modulus) + (q % Modulus)) % Modulus = (p + (q % Modulus)) % Modulus
        BY <1>1, <2>1, ModulusPositive, ModPlus
    <2>3. ((q % Modulus) + p) % Modulus = (q + p) % Modulus
        BY <1>1, ModulusPositive, ModPlus
    <2>4. (q % Modulus) + p = p + (q % Modulus) /\ q + p = p + q
        BY <1>1, <2>1
    <2> QED
        BY <2>2, <2>3, <2>4
<1>4. Times(x, z) = q % Modulus
    BY DEF Times, q
<1> QED
    BY <1>2, <1>3, <1>4 DEF Plus, p, q

(* The padding of a state of the relation.                                 *)
PaddedWithZeros(st) == \A s \in Slots \ Logical : st.u[s] = 0 /\ st.total[s] = 0

(* The relation's step from st, as EchoEquation states it.                 *)
Relation(st, x, z) ==
    [u |-> [s \in Slots |-> (st.u[s] * (1 - z[s]) + x[s] * z[s]) % Modulus],
     total |-> [s \in Slots |->
                  (st.total[s] + ((st.u[s] * (1 - z[s]) + x[s] * z[s]) % Modulus)) % Modulus]]

LEMMA RelationKeepsPadding ==
    ASSUME NEW st \in EchoState, PaddedWithZeros(st), NEW x \in Payloads, NEW z \in Masks
    PROVE  PaddedWithZeros(Relation(st, x, z))
<1> SUFFICES ASSUME NEW s \in Slots \ Logical
             PROVE  /\ Relation(st, x, z).u[s] = 0
                    /\ Relation(st, x, z).total[s] = 0
    BY DEF PaddedWithZeros
<1>1. st.u[s] = 0 /\ st.total[s] = 0 /\ x[s] = 0 /\ z[s] = 0
    BY InputsAssumption DEF PaddedWithZeros
<1>2. (0 * (1 - 0) + 0 * 0) % Modulus = 0 /\ (0 + 0) % Modulus = 0
    BY ModulusPositive
<1> QED
    BY <1>1, <1>2 DEF Relation

(* What a slot of an admissible state and input looks like.                *)
LEMMA SlotFacts ==
    ASSUME NEW st \in EchoState, PaddedWithZeros(st),
           NEW x \in Payloads, NEW z \in Masks, NEW s \in Slots
    PROVE  /\ st.u[s] \in Residue /\ st.total[s] \in Residue
           /\ x[s] \in Residue /\ z[s] \in Residue
           /\ logicalRange[s] \in {0, 1}
           /\ logicalRange[s] = 1 \/ (st.u[s] = 0 /\ x[s] = 0 /\ z[s] = 0)
<1>1. st.u[s] \in Residue /\ st.total[s] \in Residue
    BY DEF EchoState, Vector
<1>2. x[s] \in Residue /\ z[s] \in Residue
    BY InputsAssumption DEF Residue
<1>3. CASE s \in Logical
    BY <1>1, <1>2, <1>3 DEF logicalRange
<1>4. CASE s \notin Logical
    BY <1>1, <1>2, <1>4, InputsAssumption DEF logicalRange, PaddedWithZeros
<1> QED
    BY <1>3, <1>4

(* A tree leaf is one period of the relation.                              *)
LEMMA LeafIsRelation ==
    ASSUME NEW st \in EchoState, PaddedWithZeros(st), NEW x \in Payloads, NEW z \in Masks
    PROVE  Apply(LeafSegment(x, z), st) = Relation(st, x, z)
<1> DEFINE lf == LeafSegment(x, z)
<1>1. ASSUME NEW s \in Slots
      PROVE  /\ lf.a.v[s] = (logicalRange[s] - z[s]) % Modulus
             /\ lf.b.v[s] = Times(x[s], z[s])
             /\ lf.c = lf.a /\ lf.d = lf.b
    BY DEF LeafSegment, oneMinus, gatedInput, mul, Encrypted
<1> HIDE DEF lf
<1>2. ASSUME NEW s \in Slots
      PROVE  /\ Plus(Times(lf.a.v[s], st.u[s]), lf.b.v[s]) = Relation(st, x, z).u[s]
             /\ Plus(Plus(st.total[s], Times(lf.c.v[s], st.u[s])), lf.d.v[s])
                  = Relation(st, x, z).total[s]
    <2> DEFINE e == (st.u[s] * (1 - z[s]) + x[s] * z[s]) % Modulus
               w == Times(lf.a.v[s], st.u[s])
    <2>1. /\ st.u[s] \in Residue /\ st.total[s] \in Residue
          /\ x[s] \in Residue /\ z[s] \in Residue
          /\ logicalRange[s] \in {0, 1}
          /\ logicalRange[s] = 1 \/ (st.u[s] = 0 /\ x[s] = 0 /\ z[s] = 0)
        BY SlotFacts
    <2>2. Plus(w, lf.b.v[s]) = e
        BY <1>1, <2>1, SlotCloses
    <2>3. w \in Int /\ lf.b.v[s] \in Int /\ st.total[s] \in Int
        <3>1. logicalRange[s] - z[s] \in Int
            <4>1. z[s] \in Int
                <5>1. z[s] \in Residue
                    BY <2>1
                <5> QED
                    BY <5>1, ResidueIsInt
            <4> QED
                BY <4>1 DEF logicalRange
        <3>2. lf.a.v[s] \in Int
            BY <1>1, <3>1, ModulusPositive
        <3> QED
            BY <1>1, <2>1, <3>2, SlotTypes, ResidueIsInt
    <2> HIDE DEF e, w
    <2>4. Plus(Plus(st.total[s], w), lf.b.v[s]) = Plus(st.total[s], Plus(w, lf.b.v[s]))
        BY <2>3, PlusLaws
    <2> QED
        BY <1>1, <2>2, <2>4 DEF Relation, Plus, e, w
<1>3. Apply(lf, st) = Relation(st, x, z)
    BY <1>2 DEF Apply, Relation
<1> QED
    BY <1>3 DEF lf

(* A sequential update is one period of the relation.                      *)
LEMMA CarriedIsRelation ==
    ASSUME current \in Ciphertext, totals \in Ciphertext,
           PaddedWithZeros([u |-> current.v, total |-> totals.v]),
           NEW x \in Payloads, NEW z \in Masks
    PROVE  [u |-> Carried(x, z).v, total |-> NewTotal(x, z).v]
             = Relation([u |-> current.v, total |-> totals.v], x, z)
<1> DEFINE st == [u |-> current.v, total |-> totals.v]
<1>1. st \in EchoState
    BY DEF EchoState, Ciphertext
<1>2. ASSUME NEW s \in Slots
      PROVE  /\ Carried(x, z).v[s] = Relation(st, x, z).u[s]
             /\ NewTotal(x, z).v[s] = Relation(st, x, z).total[s]
    <2>1. /\ st.u[s] \in Residue /\ st.total[s] \in Residue
          /\ x[s] \in Residue /\ z[s] \in Residue
          /\ logicalRange[s] \in {0, 1}
          /\ logicalRange[s] = 1 \/ (st.u[s] = 0 /\ x[s] = 0 /\ z[s] = 0)
        BY <1>1, SlotFacts
    <2>2. Carried(x, z).v[s]
            = Plus(Times(st.u[s], (logicalRange[s] - z[s]) % Modulus), Times(x[s], z[s]))
        BY DEF Carried, add, mul, oneMinus, gatedInput, Encrypted
    <2>3. Times(st.u[s], (logicalRange[s] - z[s]) % Modulus)
            = Times((logicalRange[s] - z[s]) % Modulus, st.u[s])
        <3>1. logicalRange[s] - z[s] \in Int
            <4>1. z[s] \in Int
                <5>1. z[s] \in Residue
                    BY <2>1
                <5> QED
                    BY <5>1, ResidueIsInt
            <4> QED
                BY <4>1 DEF logicalRange
        <3>2. (logicalRange[s] - z[s]) % Modulus \in Int
            BY <3>1, ModulusPositive
        <3> QED
            BY <2>1, <3>2, TimesLaws, ResidueIsInt
    <2>4. Carried(x, z).v[s] = (st.u[s] * (1 - z[s]) + x[s] * z[s]) % Modulus
        BY <2>1, <2>2, <2>3, SlotCloses
    <2>5. NewTotal(x, z).v[s] = Plus(st.total[s], Carried(x, z).v[s])
        BY DEF NewTotal, add
    <2> QED
        BY <2>4, <2>5 DEF Relation, Plus
<1>3. /\ Carried(x, z).v = [s \in Slots |-> Carried(x, z).v[s]]
      /\ NewTotal(x, z).v = [s \in Slots |-> NewTotal(x, z).v[s]]
    BY DEF Carried, NewTotal, add
<1> QED
    BY <1>2, <1>3 DEF Relation

----------------------------------------------------------------------------
(* The inductive invariant.                                                *)

(* How the counters and the unused half of the struct stand.               *)
ModesAreSeparate ==
    /\ mode = "sequential" => pc = "idle" /\ frontier = <<>>
    /\ mode = "sequential" /\ received = 0 =>
           current = Encrypted(Zero) /\ totals = Encrypted(Zero)
    /\ pc = "idle" => Len(frontier) <= received
    /\ pc # "idle" => received < total

PaddingStaysZero == PaddedWithZeros(Value)

IInv ==
    /\ TypeOK
    /\ ModesAreSeparate
    /\ SegmentsConnectPrefixes
    /\ PaddingStaysZero

LEMMA ValueType ==
    ASSUME TypeOK, SegmentsConnectPrefixes
    PROVE  Value \in EchoState
<1>1. CASE mode = "tree"
    <2>1. Len(prefix) \in 1 .. Len(prefix)
        BY DEF TypeOK, SegmentsConnectPrefixes
    <2>2. prefix[Len(prefix)] \in EchoState
        BY <2>1 DEF TypeOK
    <2> QED
        BY <1>1, <2>2 DEF Value, Latest
<1>2. CASE mode # "tree"
    BY <1>2 DEF Value, TypeOK, EchoState, Ciphertext
<1> QED
    BY <1>1, <1>2

LEMMA InitInv == Init => IInv
<1> SUFFICES ASSUME Init PROVE IInv
    OBVIOUS
<1> USE DEF Init, Tree!TreeInit
<1>1. [u |-> Zero, total |-> Zero] \in EchoState
    BY ZeroTypes DEF EchoState
<1>2. TypeOK
    <2>1. Tree!TreeTypeOK
        <3>1. total \in Nat \ {0} /\ total \in PeriodCounts
            BY PeriodCountsAssumption
        <3>2. received \in 0 .. total /\ Len(frontier) = 0
            BY <3>1
        <3> QED
            BY <3>1, <3>2 DEF Tree!TreeTypeOK
    <2>2. prefix \in Seq(EchoState)
        BY <1>1
    <2>3. frontier \in Seq(Segment)
        OBVIOUS
    <2>4. /\ mode \in {"tree", "sequential"}
          /\ refreshMode \in {"collective", "none"}
          /\ interval \in Intervals \cup {0}
        OBVIOUS
    <2> QED
        BY <2>1, <2>2, <2>3, <2>4, ZeroTypes DEF TypeOK
<1>3. ModesAreSeparate
    BY PeriodCountsAssumption DEF ModesAreSeparate
<1>4. SegmentsConnectPrefixes
    BY DEF SegmentsConnectPrefixes
<1>5. PaddingStaysZero
    BY DEF PaddingStaysZero, PaddedWithZeros, Value, Latest, Zero, Encrypted
<1> QED
    BY <1>2, <1>3, <1>4, <1>5 DEF IInv

(* ClosePeriod in tree mode: the new leaf extends the chain of prefixes by *)
(* one step of the relation.                                               *)
LEMMA CloseTreeInv ==
    ASSUME IInv, NEW x \in Payloads, NEW z \in Masks, CloseTree(x, z)
    PROVE  IInv' /\ Value' = Relation(Value, x, z)
<1> DEFINE lf == LeafSegment(x, z)
           n == Len(frontier)
<1>1. lf \in Segment
    BY LeafType
<1>2. /\ mode = "tree" /\ mode' = mode /\ total' = total /\ received' = received
      /\ refreshMode' = refreshMode /\ interval' = interval
      /\ pc = "idle" /\ pc' = "descend" /\ received < total
      /\ merges' = 0 /\ lo' = 0 /\ hi' = total - 1
      /\ frontier' = Append(frontier, lf)
      /\ prefix' = Append(prefix, Apply(lf, Latest(prefix)))
      /\ mulCount' = mulCount + 1
      /\ UNCHANGED <<current, totals, done, result, refreshCount>>
    BY DEF CloseTree, Tree!Push, Tree!Expected, config
<1> HIDE DEF lf
<1>3. /\ frontier \in Seq(Segment) /\ prefix \in Seq(EchoState)
      /\ n \in Nat /\ Len(prefix) = n + 1
    BY DEF IInv, TypeOK, SegmentsConnectPrefixes
<1>4. Value = Latest(prefix) /\ Latest(prefix) = prefix[n + 1]
      /\ Value \in EchoState
    BY <1>2, <1>3, ValueType DEF Value, Latest, IInv
<1>5. Apply(lf, Latest(prefix)) = Relation(Value, x, z)
    BY <1>4, LeafIsRelation DEF IInv, PaddingStaysZero, lf
<1>6. Apply(lf, Latest(prefix)) \in EchoState
    BY <1>1, <1>4, ApplyType
<1>7. /\ frontier' \in Seq(Segment) /\ prefix' \in Seq(EchoState)
      /\ Len(frontier') = n + 1 /\ Len(prefix') = n + 2
      /\ prefix'[n + 2] = Apply(lf, Latest(prefix))
      /\ \A i \in 1 .. n + 1 : prefix'[i] = prefix[i]
      /\ frontier'[n + 1] = lf
      /\ \A i \in 1 .. n : frontier'[i] = frontier[i]
    BY <1>1, <1>2, <1>3, <1>6
<1>8. Value' = Relation(Value, x, z)
    BY <1>2, <1>5, <1>7 DEF Value, Latest
<1>9. TypeOK'
    <2>1. Tree!TreeTypeOK'
        BY <1>2, <1>7, PeriodCountsAssumption DEF IInv, TypeOK, Tree!TreeTypeOK, ModesAreSeparate
    <2> QED
        BY <1>2, <1>7, <2>1 DEF IInv, TypeOK
<1>10. ModesAreSeparate'
    BY <1>2 DEF ModesAreSeparate
<1>11. SegmentsConnectPrefixes'
    <2>1. prefix'[1] = [u |-> Zero, total |-> Zero]
        BY <1>3, <1>7 DEF IInv, SegmentsConnectPrefixes
    <2>2. ASSUME NEW i \in DOMAIN frontier'
          PROVE  prefix'[i + 1] = Apply(frontier'[i], prefix'[i])
        <3>1. i \in 1 .. n + 1
            BY <1>7
        <3>2. CASE i = n + 1
            BY <1>3, <1>4, <1>7, <3>2
        <3>3. CASE i # n + 1
            <4>1. i \in 1 .. n /\ i \in DOMAIN frontier /\ i + 1 \in 1 .. n + 1
                BY <1>3, <3>1, <3>3
            <4>2. prefix[i + 1] = Apply(frontier[i], prefix[i])
                BY <4>1 DEF IInv, SegmentsConnectPrefixes
            <4> QED
                BY <1>7, <3>1, <4>1, <4>2
        <3> QED
            BY <3>2, <3>3
    <2> QED
        BY <1>7, <2>1, <2>2 DEF SegmentsConnectPrefixes
<1>12. PaddingStaysZero'
    <2>1. PaddedWithZeros(Relation(Value, x, z))
        BY <1>4, RelationKeepsPadding DEF IInv, PaddingStaysZero
    <2> QED
        BY <1>8, <2>1 DEF PaddingStaysZero, PaddedWithZeros
<1> QED
    BY <1>8, <1>9, <1>10, <1>11, <1>12 DEF IInv

(* The walk counts merges and changes no value.                            *)
LEMMA TreeWalkInv ==
    ASSUME IInv, TreeWalk
    PROVE  IInv' /\ Value' = Value
<1>1. /\ UNCHANGED <<config, total, received, frontier, current, totals, done, result,
                     mulCount, refreshCount, prefix>>
      /\ pc = "descend" /\ pc' \in {"descend", "merge"}
      /\ merges' \in Nat /\ lo' \in Int /\ hi' \in Int
    <2>1. CASE Tree!Descend
        <3>1. Tree!Mid \in Int
            BY DEF IInv, TypeOK, Tree!TreeTypeOK, Tree!Mid
        <3>2. lo' \in Int /\ hi' \in Int
            BY <2>1, <3>1 DEF Tree!Descend, IInv, TypeOK, Tree!TreeTypeOK
        <3> QED
            BY <2>1, <3>2 DEF Tree!Descend, TreeWalk, IInv, TypeOK, Tree!TreeTypeOK
    <2>2. CASE Tree!Counted
        BY <2>2 DEF Tree!Counted, TreeWalk, IInv, TypeOK, Tree!TreeTypeOK
    <2> QED
        BY <2>1, <2>2 DEF TreeWalk
<1>2. Value' = Value
    BY <1>1 DEF Value, config, Latest
<1>3. TypeOK'
    BY <1>1 DEF IInv, TypeOK, Tree!TreeTypeOK, config
<1>4. ModesAreSeparate'
    BY <1>1 DEF IInv, ModesAreSeparate, config
<1>5. SegmentsConnectPrefixes'
    BY <1>1 DEF IInv, SegmentsConnectPrefixes, Apply
<1>6. PaddingStaysZero'
    BY <1>2 DEF IInv, PaddingStaysZero, PaddedWithZeros
<1> QED
    BY <1>2, <1>3, <1>4, <1>5, <1>6 DEF IInv

(* The shape of a merge: the last two elements give way to one.            *)
LastTwoBecome(seq, e) == Append(SubSeq(seq, 1, Len(seq) - 2), e)

LEMMA LastTwoMerge ==
    ASSUME NEW S, NEW seq \in Seq(S), Len(seq) >= 2, NEW e \in S
    PROVE  /\ LastTwoBecome(seq, e) \in Seq(S)
           /\ Len(LastTwoBecome(seq, e)) = Len(seq) - 1
           /\ LastTwoBecome(seq, e)[Len(seq) - 1] = e
           /\ \A i \in 1 .. Len(seq) - 2 : LastTwoBecome(seq, e)[i] = seq[i]
<1> DEFINE k == Len(seq) - 2
           init == SubSeq(seq, 1, k)
<1>1. k \in Nat /\ k <= Len(seq)
    OBVIOUS
<1>2. /\ init \in Seq(S) /\ Len(init) = k
      /\ \A i \in 1 .. k : init[i] = seq[i]
    <2>1. \A i \in 1 .. k : seq[i] \in S
        BY <1>1
    <2>2. /\ init \in Seq(S)
          /\ Len(init) = IF 1 <= k THEN k - 1 + 1 ELSE 0
          /\ \A i \in 1 .. k - 1 + 1 : init[i] = seq[1 + i - 1]
        BY <1>1, <2>1, SubSeqProperties
    <2> HIDE DEF init, k
    <2>3. Len(init) = k
        BY <1>1, <2>2
    <2>4. ASSUME NEW i \in 1 .. k
          PROVE  init[i] = seq[i]
        <3>1. i \in 1 .. k - 1 + 1 /\ 1 + i - 1 = i
            BY <1>1
        <3>2. init[i] = seq[1 + i - 1]
            BY <2>2, <3>1
        <3> QED
            BY <3>1, <3>2
    <2> QED
        BY <2>2, <2>3, <2>4
<1> HIDE DEF init
<1>3. /\ Append(init, e) \in Seq(S)
      /\ Len(Append(init, e)) = k + 1
      /\ Append(init, e)[k + 1] = e
      /\ \A i \in 1 .. k : Append(init, e)[i] = init[i]
    BY <1>1, <1>2
<1>4. k + 1 = Len(seq) - 1
    OBVIOUS
<1> QED
    BY <1>2, <1>3, <1>4 DEF LastTwoBecome, init

(* A merge composes the last two segments and drops the state between.     *)
LEMMA TreeMergeInv ==
    ASSUME IInv, TreeMerge
    PROVE  IInv' /\ Value' = Value
<1> DEFINE n == Len(frontier)
           m == CombineSegments(frontier[n - 1], frontier[n])
<1>1. /\ frontier \in Seq(Segment) /\ prefix \in Seq(EchoState)
      /\ n \in Nat /\ n >= 2 /\ Len(prefix) = n + 1
    BY DEF TreeMerge, Tree!Merge, IInv, TypeOK, SegmentsConnectPrefixes
<1>2. /\ frontier' = Append(SubSeq(frontier, 1, n - 2), m)
      /\ prefix' = Append(SubSeq(prefix, 1, n - 1), prefix[n + 1])
      /\ pc = "merge" /\ pc' = "merge" /\ merges \in Nat /\ merges > 0 /\ merges' = merges - 1
      /\ mulCount' = mulCount + 4
      /\ UNCHANGED <<config, total, received, lo, hi, current, totals, done, result, refreshCount>>
    BY <1>1 DEF TreeMerge, Tree!Merge, Latest, IInv, TypeOK, Tree!TreeTypeOK
<1>3. frontier[n - 1] \in Segment /\ frontier[n] \in Segment
    BY <1>1
<1>4. m \in Segment
    BY <1>3, CombineType
<1>5. /\ prefix[n - 1] \in EchoState /\ prefix[n + 1] \in EchoState
      /\ prefix[n] = Apply(frontier[n - 1], prefix[n - 1])
      /\ prefix[n + 1] = Apply(frontier[n], prefix[n])
    <2>1. n - 1 \in DOMAIN frontier /\ n \in DOMAIN frontier
        BY <1>1
    <2>2. prefix[(n - 1) + 1] = Apply(frontier[n - 1], prefix[n - 1])
        BY <2>1 DEF IInv, SegmentsConnectPrefixes
    <2>3. prefix[n + 1] = Apply(frontier[n], prefix[n])
        BY <2>1 DEF IInv, SegmentsConnectPrefixes
    <2> QED
        BY <1>1, <2>2, <2>3
<1>6. prefix[n + 1] = Apply(m, prefix[n - 1])
    BY <1>3, <1>5, MergeComposes
<1> HIDE DEF m
<1>7. /\ frontier' \in Seq(Segment) /\ prefix' \in Seq(EchoState)
      /\ Len(frontier') = n - 1 /\ Len(prefix') = n
      /\ frontier'[n - 1] = m /\ \A i \in 1 .. n - 2 : frontier'[i] = frontier[i]
      /\ prefix'[n] = prefix[n + 1] /\ \A i \in 1 .. n - 1 : prefix'[i] = prefix[i]
    <2>1. LastTwoBecome(frontier, m) \in Seq(Segment)
          /\ Len(LastTwoBecome(frontier, m)) = n - 1
          /\ LastTwoBecome(frontier, m)[n - 1] = m
          /\ \A i \in 1 .. n - 2 : LastTwoBecome(frontier, m)[i] = frontier[i]
        BY <1>1, <1>4, LastTwoMerge
    <2>2. LastTwoBecome(prefix, prefix[n + 1]) \in Seq(EchoState)
          /\ Len(LastTwoBecome(prefix, prefix[n + 1])) = n
          /\ LastTwoBecome(prefix, prefix[n + 1])[n] = prefix[n + 1]
          /\ \A i \in 1 .. n - 1 : LastTwoBecome(prefix, prefix[n + 1])[i] = prefix[i]
        <3>1. Len(prefix) - 1 = n /\ Len(prefix) - 2 = n - 1 /\ Len(prefix) >= 2
            BY <1>1
        <3> DEFINE e == prefix[n + 1]
                   w == LastTwoBecome(prefix, e)
        <3>2. e \in EchoState
            BY <1>5
        <3> HIDE DEF e
        <3>3. /\ w \in Seq(EchoState) /\ Len(w) = Len(prefix) - 1
              /\ w[Len(prefix) - 1] = e
              /\ \A i \in 1 .. Len(prefix) - 2 : w[i] = prefix[i]
            <4>1. prefix \in Seq(EchoState) /\ Len(prefix) >= 2
                BY <1>1, <3>1
            <4> QED
                BY <3>2, <4>1, LastTwoMerge
        <3> QED
            BY <3>1, <3>3 DEF e
    <2>3. frontier' = LastTwoBecome(frontier, m) /\ prefix' = LastTwoBecome(prefix, prefix[n + 1])
        BY <1>1, <1>2 DEF LastTwoBecome
    <2> QED
        BY <2>1, <2>2, <2>3
<1>8. mode = "tree" /\ mode' = "tree"
    BY <1>2 DEF IInv, TypeOK, ModesAreSeparate, config
<1>9. Value' = Value
    BY <1>1, <1>7, <1>8 DEF Value, Latest
<1>10. TypeOK'
    <2>1. Len(frontier') \in 0 .. received' + 1
        <3>1. received \in Int /\ n <= received + 1
            BY DEF IInv, TypeOK, Tree!TreeTypeOK
        <3>2. received' = received /\ Len(frontier') = n - 1
            BY <1>2, <1>7
        <3> HIDE DEF n
        <3> QED
            BY <1>1, <3>1, <3>2
    <2>2. merges' \in Nat
        BY <1>2
    <2>3. Tree!TreeTypeOK'
        BY <1>2, <2>1, <2>2 DEF IInv, TypeOK, Tree!TreeTypeOK
    <2> QED
        BY <1>2, <1>7, <2>3 DEF IInv, TypeOK, config
<1>11. ModesAreSeparate'
    BY <1>2, <1>8 DEF IInv, ModesAreSeparate, config
<1>12. SegmentsConnectPrefixes'
    <2>1. prefix'[1] = [u |-> Zero, total |-> Zero]
        BY <1>1, <1>7 DEF IInv, SegmentsConnectPrefixes
    <2>2. ASSUME NEW i \in DOMAIN frontier'
          PROVE  prefix'[i + 1] = Apply(frontier'[i], prefix'[i])
        <3>1. i \in 1 .. n - 1
            BY <1>7
        <3>2. CASE i = n - 1
            BY <1>1, <1>6, <1>7, <3>2
        <3>3. CASE i # n - 1
            <4>1. i \in 1 .. n - 2 /\ i \in DOMAIN frontier /\ i + 1 \in 1 .. n - 1
                BY <1>1, <3>1, <3>3
            <4>2. prefix[i + 1] = Apply(frontier[i], prefix[i])
                BY <4>1 DEF IInv, SegmentsConnectPrefixes
            <4> QED
                BY <1>7, <3>1, <4>1, <4>2
        <3> QED
            BY <3>2, <3>3
    <2> QED
        BY <1>7, <2>1, <2>2 DEF SegmentsConnectPrefixes
<1>13. PaddingStaysZero'
    BY <1>9 DEF IInv, PaddingStaysZero, PaddedWithZeros
<1> QED
    BY <1>9, <1>10, <1>11, <1>12, <1>13 DEF IInv

(* Push returns.                                                           *)
LEMMA TreeArrivedInv ==
    ASSUME IInv, TreeArrived
    PROVE  IInv' /\ Value' = Value
<1>1. /\ UNCHANGED <<config, total, frontier, merges, lo, hi, current, totals, done, result,
                     mulCount, refreshCount, prefix>>
      /\ pc = "merge" /\ pc' = "idle" /\ received' = received + 1
      /\ received < total /\ mode = "tree"
    BY DEF TreeArrived, Tree!Arrived, IInv, ModesAreSeparate, TypeOK
<1>2. Value' = Value
    BY <1>1 DEF Value, config, Latest
<1>3. /\ total \in PeriodCounts /\ total \in Nat /\ received \in 0 .. total
      /\ Len(frontier) \in 0 .. received + 1
    BY PeriodCountsAssumption DEF IInv, TypeOK, Tree!TreeTypeOK
<1>4. TypeOK'
    <2>1. received' \in 0 .. total /\ Len(frontier) \in 0 .. received' + 1
        BY <1>1, <1>3
    <2>2. Tree!TreeTypeOK'
        BY <1>1, <2>1 DEF IInv, TypeOK, Tree!TreeTypeOK
    <2> QED
        BY <1>1, <2>2 DEF IInv, TypeOK, config
<1>5. ModesAreSeparate'
    BY <1>1, <1>3 DEF IInv, ModesAreSeparate, config
<1>6. SegmentsConnectPrefixes'
    BY <1>1 DEF IInv, SegmentsConnectPrefixes, Apply
<1>7. PaddingStaysZero'
    BY <1>2 DEF IInv, PaddingStaysZero, PaddedWithZeros
<1> QED
    BY <1>2, <1>4, <1>5, <1>6, <1>7 DEF IInv

(* ClosePeriod in sequential mode: the first period, which finds no state, *)
(* and a later one, whose refresh changes no plaintext.                    *)
LEMMA CloseFirstInv ==
    ASSUME IInv, NEW x \in Payloads, NEW z \in Masks, CloseFirst(x, z)
    PROVE  IInv' /\ Value' = Relation(Value, x, z)
<1> DEFINE g == gatedInput(x, z)
<1>1. /\ UNCHANGED <<config, total, frontier, merges, lo, hi, pc, done, result,
                     refreshCount, prefix>>
      /\ mode = "sequential" /\ received = 0 /\ received' = 1
      /\ current' = g /\ totals' = g /\ mulCount' = mulCount + 1
    BY DEF CloseFirst
<1>2. g \in Ciphertext
    BY GatedType
<1>3. Value = [u |-> Zero, total |-> Zero]
    BY <1>1 DEF IInv, ModesAreSeparate, Value, Encrypted
<1>4. Value' = [u |-> g.v, total |-> g.v]
    BY <1>1 DEF Value, config
<1>5. [u |-> g.v, total |-> g.v] = Relation(Value, x, z)
    <2>1. g.v = [s \in Slots |-> (x[s] * z[s]) % Modulus]
        BY DEF gatedInput, mul, Encrypted, Times
    <2>2. ASSUME NEW s \in Slots
          PROVE  /\ (x[s] * z[s]) % Modulus = (0 * (1 - z[s]) + x[s] * z[s]) % Modulus
                 /\ (x[s] * z[s]) % Modulus
                      = (0 + ((0 * (1 - z[s]) + x[s] * z[s]) % Modulus)) % Modulus
        <3>1. x[s] \in Int /\ z[s] \in Int
            BY InputsAssumption
        <3> DEFINE p == x[s] * z[s]
        <3>2. p \in Int /\ 0 * (1 - z[s]) + p = p
            BY <3>1
        <3> HIDE DEF p
        <3>3. (0 + (p % Modulus)) % Modulus = p % Modulus
            <4> DEFINE w == p % Modulus
            <4>1. w \in 0 .. Modulus - 1
                BY <3>2, ModulusPositive
            <4> HIDE DEF w
            <4>2. (0 + w) % Modulus = w
                BY <4>1, ModulusPositive
            <4> QED
                BY <4>2 DEF w
        <3> QED
            BY <3>2, <3>3 DEF p
    <2>3. \A s \in Slots : Zero[s] = 0
        BY DEF Zero
    <2> QED
        BY <1>3, <2>1, <2>2, <2>3 DEF Relation
<1>6. TypeOK'
    <2>1. received' \in 0 .. total' /\ Len(frontier') \in 0 .. received' + 1
        <3>1. total \in Nat \ {0} /\ Len(frontier) = 0
            BY <1>1, PeriodCountsAssumption DEF IInv, TypeOK, Tree!TreeTypeOK, ModesAreSeparate
        <3> QED
            BY <1>1, <3>1
    <2>2. Tree!TreeTypeOK'
        BY <1>1, <2>1 DEF IInv, TypeOK, Tree!TreeTypeOK
    <2> QED
        BY <1>1, <1>2, <2>2 DEF IInv, TypeOK, config
<1>7. ModesAreSeparate'
    BY <1>1 DEF IInv, ModesAreSeparate, config
<1>8. SegmentsConnectPrefixes'
    BY <1>1 DEF IInv, SegmentsConnectPrefixes, Apply
<1>9. PaddingStaysZero'
    <2>1. PaddedWithZeros(Relation(Value, x, z))
        BY ValueType, RelationKeepsPadding DEF IInv, PaddingStaysZero
    <2> QED
        BY <1>4, <1>5, <2>1 DEF PaddingStaysZero, PaddedWithZeros
<1> QED
    BY <1>4, <1>5, <1>6, <1>7, <1>8, <1>9 DEF IInv

LEMMA CloseNextInv ==
    ASSUME IInv, NEW x \in Payloads, NEW z \in Masks, CloseNext(x, z)
    PROVE  IInv' /\ Value' = Relation(Value, x, z)
<1>1. /\ UNCHANGED <<config, total, frontier, merges, lo, hi, pc, done, result, prefix>>
      /\ mode = "sequential" /\ received \in 1 .. total - 1 /\ received' = received + 1
      /\ current' \in {Carried(x, z), refresh(Carried(x, z))} /\ totals' = NewTotal(x, z)
      /\ refreshCount' \in {refreshCount, refreshCount + 1} /\ mulCount' = mulCount + 2
    BY DEF CloseNext
<1>2. current \in Ciphertext /\ totals \in Ciphertext
    BY DEF IInv, TypeOK
<1>3. Carried(x, z) \in Ciphertext
    <2>1. oneMinus(Encrypted(z)) \in Ciphertext
        BY InputTypes, CiphertextTypes
    <2>2. mul(current, oneMinus(Encrypted(z))) \in Ciphertext
        BY <1>2, <2>1, CiphertextTypes
    <2> QED
        BY <2>2, GatedType, CiphertextTypes DEF Carried
<1>4. NewTotal(x, z) \in Ciphertext /\ refresh(Carried(x, z)) \in Ciphertext
    BY <1>2, <1>3, CiphertextTypes DEF NewTotal
<1>5. Value = [u |-> current.v, total |-> totals.v]
    BY <1>1 DEF Value
<1>6. Value' = [u |-> Carried(x, z).v, total |-> NewTotal(x, z).v]
    BY <1>1 DEF Value, config, refresh
<1>7. Value' = Relation(Value, x, z)
    BY <1>2, <1>5, <1>6, CarriedIsRelation DEF IInv, PaddingStaysZero
<1>8. TypeOK'
    <2>1. received' \in 0 .. total' /\ Len(frontier') \in 0 .. received' + 1
        <3>1. total \in Nat \ {0} /\ Len(frontier) = 0
            BY <1>1, PeriodCountsAssumption DEF IInv, TypeOK, Tree!TreeTypeOK, ModesAreSeparate
        <3> QED
            BY <1>1, <3>1
    <2>2. Tree!TreeTypeOK'
        BY <1>1, <2>1 DEF IInv, TypeOK, Tree!TreeTypeOK
    <2>3. current' \in Ciphertext /\ totals' \in Ciphertext
        BY <1>1, <1>3, <1>4
    <2>4. mulCount' \in Nat /\ refreshCount' \in Nat
        BY <1>1 DEF IInv, TypeOK
    <2> QED
        BY <1>1, <2>2, <2>3, <2>4 DEF IInv, TypeOK, config
<1>9. ModesAreSeparate'
    BY <1>1 DEF IInv, ModesAreSeparate, config
<1>10. SegmentsConnectPrefixes'
    BY <1>1 DEF IInv, SegmentsConnectPrefixes, Apply
<1>11. PaddingStaysZero'
    <2>1. PaddedWithZeros(Relation(Value, x, z))
        BY ValueType, RelationKeepsPadding DEF IInv, PaddingStaysZero
    <2> QED
        BY <1>7, <2>1 DEF PaddingStaysZero, PaddedWithZeros
<1> QED
    BY <1>7, <1>8, <1>9, <1>10, <1>11 DEF IInv

(* Totals returns the total of the relation, in both modes: in tree mode   *)
(* the one segment left maps the initial state to it.                      *)
LEMMA CollectInv ==
    ASSUME IInv, CollectTotals
    PROVE  /\ IInv' /\ Value' = Value
           /\ result'.v = Value.total
<1>1. /\ UNCHANGED <<config, treeVars, current, totals, mulCount, refreshCount, prefix>>
      /\ done' = TRUE /\ result' \in {Totals, refresh(Totals)}
      /\ mode = "tree" => Len(frontier) = 1
    BY DEF CollectTotals, TotalsReady, Tree!ResultReady
<1>2. Totals \in Ciphertext /\ Totals.v = Value.total
    <2>1. CASE mode = "sequential"
        BY <2>1 DEF Totals, Value, IInv, TypeOK
    <2>2. CASE mode = "tree"
        <3>1. Len(frontier) = 1 /\ frontier \in Seq(Segment) /\ 1 \in DOMAIN frontier
            BY <1>1, <2>2 DEF IInv, TypeOK
        <3>2. frontier[1] \in Segment
            BY <3>1
        <3>3. Len(prefix) = 2 /\ prefix[1] = [u |-> Zero, total |-> Zero]
              /\ prefix[1 + 1] = Apply(frontier[1], prefix[1])
            BY <3>1 DEF IInv, SegmentsConnectPrefixes
        <3>4. Totals = frontier[1].d
            BY <2>2 DEF Totals, Tree!Result
        <3>5. Value = Apply(frontier[1], [u |-> Zero, total |-> Zero])
            BY <2>2, <3>3 DEF Value, Latest
        <3>6. ASSUME NEW s \in Slots
              PROVE  Value.total[s] = frontier[1].d.v[s]
            <4> DEFINE c == frontier[1].c.v[s]
                       d == frontier[1].d.v[s]
            <4>1. c \in Residue /\ d \in Residue
                BY <3>2 DEF Segment, Ciphertext, Vector
            <4>2. Value.total[s] = Plus(Plus(0, Times(c, 0)), d)
                BY <3>5 DEF Apply, Zero
            <4> HIDE DEF c, d
            <4>3. Times(c, 0) = 0 /\ Plus(0, 0) = 0
                <5>1. c * 0 = 0 /\ 0 % Modulus = 0
                    BY <4>1, ModulusPositive, ResidueIsInt
                <5> QED
                    BY <5>1 DEF Times, Plus
            <4>4. Plus(0, d) = d
                BY <4>1, ModulusPositive DEF Plus, Residue
            <4> QED
                BY <4>2, <4>3, <4>4 DEF d
        <3>7. frontier[1].d \in Ciphertext /\ frontier[1].d.v \in Vector /\ Value.total \in Vector
            BY <3>2, ValueType DEF IInv, Segment, Ciphertext, EchoState
        <3> QED
            BY <3>4, <3>6, <3>7 DEF Vector
    <2> QED
        BY <2>1, <2>2 DEF IInv, TypeOK
<1>3. result' \in Ciphertext /\ result'.v = Value.total
    BY <1>1, <1>2, CiphertextTypes DEF refresh
<1>4. Value' = Value
    BY <1>1 DEF Value, Latest, config
<1>5. TypeOK'
    BY <1>1, <1>3 DEF IInv, TypeOK, Tree!TreeTypeOK, treeVars, config
<1>6. ModesAreSeparate'
    BY <1>1 DEF IInv, ModesAreSeparate, treeVars, config
<1>7. SegmentsConnectPrefixes'
    BY <1>1 DEF IInv, SegmentsConnectPrefixes, Apply, treeVars
<1>8. PaddingStaysZero'
    BY <1>4 DEF IInv, PaddingStaysZero, PaddedWithZeros
<1> QED
    BY <1>3, <1>4, <1>5, <1>6, <1>7, <1>8 DEF IInv

LEMMA StutterInv ==
    ASSUME IInv, UNCHANGED vars
    PROVE  IInv' /\ Value' = Value
<1> USE DEF vars, treeVars, config
<1>1. Value' = Value
    BY DEF Value, Latest
<1>2. TypeOK'
    BY DEF IInv, TypeOK, Tree!TreeTypeOK
<1>3. ModesAreSeparate'
    BY DEF IInv, ModesAreSeparate
<1>4. SegmentsConnectPrefixes'
    BY DEF IInv, SegmentsConnectPrefixes, Apply
<1>5. PaddingStaysZero'
    BY <1>1 DEF IInv, PaddingStaysZero, PaddedWithZeros
<1> QED
    BY <1>1, <1>2, <1>3, <1>4, <1>5 DEF IInv

LEMMA NextInv ==
    ASSUME IInv, [Next]_vars
    PROVE  IInv'
<1>1. ASSUME NEW x \in Payloads, NEW z \in Masks, ClosePeriod(x, z)
      PROVE  IInv'
    BY <1>1, CloseTreeInv, CloseFirstInv, CloseNextInv DEF ClosePeriod
<1> QED
    BY <1>1, TreeWalkInv, TreeMergeInv, TreeArrivedInv, CollectInv, StutterInv DEF Next

THEOREM Invariant == Spec => []IInv
<1> QED
    BY InitInv, NextInv, PTL DEF Spec, SafeSpec

(* Every reachable echo state is well typed: residues stay reduced, the    *)
(* counters within their periods.                                          *)
THEOREM TypeCorrect == Spec => []TypeOK
<1>1. IInv => TypeOK
    BY DEF IInv
<1> QED
    BY Invariant, <1>1, PTL

(* The segments on the frontier always compose to the relation's state.    *)
THEOREM SegmentsConnect == Spec => []SegmentsConnectPrefixes
<1>1. IInv => SegmentsConnectPrefixes
    BY DEF IInv
<1> QED
    BY Invariant, <1>1, PTL

----------------------------------------------------------------------------
(* Refinement.                                                             *)

LEMMA InitRefines == Init => Equation!Init
<1> SUFFICES ASSUME Init PROVE Equation!Init
    OBVIOUS
<1>1. total \in PeriodCounts /\ pc = "idle" /\ received = 0
    BY DEF Init, Tree!TreeInit
<1>2. Value = [u |-> Zero, total |-> Zero]
    BY DEF Init, Value, Latest, Encrypted
<1>3. done = FALSE /\ result.v = Zero
    BY DEF Init, Encrypted
<1>4. Zero = Equation!Zero
    BY DEF Zero, Equation!Zero
<1> QED
    BY <1>1, <1>2, <1>3, <1>4 DEF Equation!Init

(* A close is the relation's Close, whichever action performs it.          *)
LEMMA CloseRefines ==
    ASSUME IInv, NEW x \in Payloads, NEW z \in Masks, ClosePeriod(x, z)
    PROVE  Equation!Close(x, z)
<1>1. Value' = Relation(Value, x, z)
    BY CloseTreeInv, CloseFirstInv, CloseNextInv DEF ClosePeriod
<1>2. /\ pc = "idle" /\ received < total
      /\ (IF pc' = "idle" THEN received' ELSE received' + 1) = received + 1
    <2>1. CASE CloseTree(x, z)
        BY <2>1 DEF CloseTree, Tree!Push, Tree!Expected
    <2>2. CASE CloseFirst(x, z)
        <3>1. total \in Nat \ {0}
            BY PeriodCountsAssumption DEF IInv, TypeOK, Tree!TreeTypeOK
        <3> QED
            BY <2>2, <3>1 DEF CloseFirst, IInv, ModesAreSeparate
    <2>3. CASE CloseNext(x, z)
        <3>1. total \in Nat \ {0}
            BY PeriodCountsAssumption DEF IInv, TypeOK, Tree!TreeTypeOK
        <3> QED
            BY <2>3, <3>1 DEF CloseNext, IInv, ModesAreSeparate
    <2> QED
        BY <2>1, <2>2, <2>3 DEF ClosePeriod
<1>3. UNCHANGED <<total, done, result>>
    BY DEF ClosePeriod, CloseTree, CloseFirst, CloseNext, Tree!Push
<1>4. /\ Value'.u = [s \in Slots |-> Equation!EchoValue(x, z, s)]
      /\ Value'.total = [s \in Slots |->
                           (Value.total[s] + Equation!EchoValue(x, z, s)) % Modulus]
    BY <1>1 DEF Relation, Equation!EchoValue
<1> QED
    BY <1>2, <1>3, <1>4 DEF Equation!Close

LEMMA CollectRefines ==
    ASSUME IInv, CollectTotals
    PROVE  Equation!Next
<1>1. Value' = Value /\ result'.v = Value.total
    BY CollectInv
<1>2. /\ pc = "idle" /\ received = total /\ ~done /\ done' = TRUE
      /\ UNCHANGED <<total, pc, received>>
    BY DEF CollectTotals, TotalsReady, treeVars
<1>3. Equation!Publish
    BY <1>1, <1>2 DEF Equation!Publish
<1> QED
    BY <1>3 DEF Equation!Next

(* The tree's internal steps leave the relation's state alone.             *)
LEMMA InternalRefines ==
    ASSUME IInv, TreeWalk \/ TreeMerge \/ TreeArrived \/ UNCHANGED vars
    PROVE  UNCHANGED Equation!vars
<1>1. Value' = Value
    BY TreeWalkInv, TreeMergeInv, TreeArrivedInv, StutterInv
<1>2. UNCHANGED <<total, done, result>>
    BY DEF TreeWalk, TreeMerge, TreeArrived, vars, treeVars,
           Tree!Descend, Tree!Counted, Tree!Merge, Tree!Arrived
<1>3. (IF pc' = "idle" THEN received' ELSE received' + 1)
        = (IF pc = "idle" THEN received ELSE received + 1)
    BY DEF TreeWalk, TreeMerge, TreeArrived, vars, treeVars,
           Tree!Descend, Tree!Counted, Tree!Merge, Tree!Arrived
<1> QED
    BY <1>1, <1>2, <1>3 DEF Equation!vars

(* EachInputIsApplied: a close is the relation's close for the same        *)
(* payload and mask.                                                       *)
THEOREM InputsApplied == Spec => EachInputIsApplied
<1> DEFINE Applied == \A x \in Payloads, z \in Masks :
                         ClosePeriod(x, z) => Equation!Close(x, z)
<1>1. IInv /\ [Next]_vars => [Applied]_vars
    BY CloseRefines
<1> QED
    BY Invariant, <1>1, PTL DEF Spec, SafeSpec, EachInputIsApplied

(* RefinesEquation: the encrypted echo implements the echo relation.       *)
THEOREM EchoRefinesEquation == Spec => RefinesEquation
<1>1. IInv /\ [Next]_vars => [Equation!Next]_(Equation!vars)
    <2>1. ASSUME IInv, NEW x \in Payloads, NEW z \in Masks, ClosePeriod(x, z)
          PROVE  Equation!Next
        BY <2>1, CloseRefines DEF Equation!Next
    <2> QED
        BY <2>1, CollectRefines, InternalRefines DEF Next
<1> QED
    BY Invariant, InitRefines, <1>1, PTL DEF Spec, SafeSpec, RefinesEquation, Equation!Spec

----------------------------------------------------------------------------
(* Costs.  The depths of a segment do not depend on its slots, so in tree  *)
(* mode the depths on the frontier are built like any other value of the   *)
(* incremental tree, and TreeProofs says which they are.                   *)

Depths(seg) ==
    [a |-> seg.a.depth, b |-> seg.b.depth, c |-> seg.c.depth, d |-> seg.d.depth]

SegmentDepths == [a : Nat, b : Nat, c : Nat, d : Nat]

DepthsOf(segments) == [k \in DOMAIN segments |-> Depths(segments[k])]

DepthOfLeaf(index) == LeafDepth

ByDepth == INSTANCE TreeProofs
               WITH Totals <- PeriodCounts, MaxTotal <- 0, Leaf <- DepthOfLeaf,
                    Combine <- CombineDepths,
                    frontier <- DepthsOf(frontier)

LEMMA DepthOfLeafSegment ==
    ASSUME NEW x, NEW z
    PROVE  Depths(LeafSegment(x, z)) = LeafDepth
BY DEF Depths, LeafSegment, LeafDepth, oneMinus, gatedInput, mul, Encrypted, Larger

LEMMA DepthOfMerged ==
    ASSUME NEW l \in Segment, NEW r \in Segment
    PROVE  Depths(CombineSegments(l, r)) = CombineDepths(Depths(l), Depths(r))
<1>1. /\ l.a \in Ciphertext /\ l.b \in Ciphertext /\ l.c \in Ciphertext /\ l.d \in Ciphertext
      /\ r.a \in Ciphertext /\ r.b \in Ciphertext /\ r.c \in Ciphertext /\ r.d \in Ciphertext
    BY DEF Segment
<1>2. /\ l.a.depth \in Nat /\ l.b.depth \in Nat /\ l.c.depth \in Nat /\ l.d.depth \in Nat
      /\ r.a.depth \in Nat /\ r.b.depth \in Nat /\ r.c.depth \in Nat /\ r.d.depth \in Nat
    BY <1>1 DEF Ciphertext
<1>3. /\ CombineSegments(l, r).a.depth = 1 + Larger(r.a.depth, l.a.depth)
      /\ CombineSegments(l, r).b.depth = Larger(1 + Larger(r.a.depth, l.b.depth), r.b.depth)
      /\ CombineSegments(l, r).c.depth = Larger(l.c.depth, 1 + Larger(r.c.depth, l.a.depth))
      /\ CombineSegments(l, r).d.depth
             = Larger(Larger(l.d.depth, r.d.depth), 1 + Larger(r.c.depth, l.b.depth))
    BY DEF CombineSegments, mul, add
<1>4. \A m \in Nat, k \in Nat : 1 + Larger(m, k) = Larger(m, k) + 1
    BY DEF Larger
<1> QED
    BY <1>2, <1>3, <1>4 DEF Depths, CombineDepths

LEMMA DepthsOfSegments ==
    ASSUME NEW seq \in Seq(Segment)
    PROVE  /\ DepthsOf(seq) \in Seq(SegmentDepths)
           /\ Len(DepthsOf(seq)) = Len(seq)
           /\ \A k \in 1 .. Len(seq) : DepthsOf(seq)[k] = Depths(seq[k])
<1>1. ASSUME NEW k \in 1 .. Len(seq)
      PROVE  Depths(seq[k]) \in SegmentDepths
    <2>1. seq[k] \in Segment
        OBVIOUS
    <2> QED
        BY <2>1 DEF Segment, Ciphertext, Depths, SegmentDepths
<1>2. DepthsOf(seq) = [k \in 1 .. Len(seq) |-> Depths(seq[k])]
    BY DEF DepthsOf
<1> QED
    BY <1>1, <1>2

LEMMA DepthsOfAppended ==
    ASSUME NEW seq \in Seq(Segment), NEW seg \in Segment
    PROVE  DepthsOf(Append(seq, seg)) = Append(DepthsOf(seq), Depths(seg))
<1> DEFINE long == Append(seq, seg)
           short == DepthsOf(seq)
           size == Len(seq)
<1>1. /\ long \in Seq(Segment) /\ size \in Nat /\ Len(long) = size + 1
      /\ long[size + 1] = seg /\ \A k \in 1 .. size : long[k] = seq[k]
    OBVIOUS
<1>2. /\ short \in Seq(SegmentDepths) /\ Len(short) = size
      /\ \A k \in 1 .. size : short[k] = Depths(seq[k])
    BY DepthsOfSegments
<1>3. Depths(seg) \in SegmentDepths
    BY DEF Segment, Ciphertext, Depths, SegmentDepths
<1>4. /\ DepthsOf(long) \in Seq(SegmentDepths)
      /\ Len(DepthsOf(long)) = size + 1
      /\ \A k \in 1 .. size + 1 : DepthsOf(long)[k] = Depths(long[k])
    <2> HIDE DEF long
    <2> QED
        BY <1>1, DepthsOfSegments
<1> HIDE DEF long, short, size
<1>5. /\ Append(short, Depths(seg)) \in Seq(SegmentDepths)
      /\ Len(Append(short, Depths(seg))) = size + 1
      /\ Append(short, Depths(seg))[size + 1] = Depths(seg)
      /\ \A k \in 1 .. size : Append(short, Depths(seg))[k] = short[k]
    BY <1>2, <1>3, AppendProperties
<1>6. ASSUME NEW k \in 1 .. size + 1
      PROVE  DepthsOf(long)[k] = Append(short, Depths(seg))[k]
    <2>1. CASE k = size + 1
        BY <1>1, <1>4, <1>5, <2>1, Zenon
    <2>2. CASE k # size + 1
        <3>1. k \in 1 .. size
            BY <1>1, <2>2
        <3> QED
            BY <1>1, <1>2, <1>4, <1>5, <3>1, Zenon
    <2> QED
        BY <2>1, <2>2
<1>7. DepthsOf(long) = Append(short, Depths(seg))
    BY <1>4, <1>5, <1>6, SeqEqual
<1> QED
    BY <1>7 DEF long, short

LEMMA DepthsOfFirst ==
    ASSUME NEW seq \in Seq(Segment), NEW size \in 0 .. Len(seq)
    PROVE  /\ SubSeq(seq, 1, size) \in Seq(Segment)
           /\ DepthsOf(SubSeq(seq, 1, size)) = SubSeq(DepthsOf(seq), 1, size)
<1> DEFINE short == SubSeq(seq, 1, size)
           all == DepthsOf(seq)
<1>1. /\ all \in Seq(SegmentDepths) /\ Len(all) = Len(seq)
      /\ \A k \in 1 .. Len(seq) : all[k] = Depths(seq[k])
    BY DepthsOfSegments
<1>2. short \in Seq(Segment) /\ Len(short) = size /\ \A k \in 1 .. size : short[k] = seq[k]
    OBVIOUS
<1>3. /\ SubSeq(all, 1, size) \in Seq(SegmentDepths)
      /\ Len(SubSeq(all, 1, size)) = size
      /\ \A k \in 1 .. size : SubSeq(all, 1, size)[k] = all[k]
    <2> HIDE DEF all
    <2>1. size \in Nat /\ \A k \in 1 .. size : all[k] \in SegmentDepths
        BY <1>1
    <2>2. /\ SubSeq(all, 1, size) \in Seq(SegmentDepths)
          /\ Len(SubSeq(all, 1, size)) = IF 1 <= size THEN size - 1 + 1 ELSE 0
          /\ \A k \in 1 .. size - 1 + 1 : SubSeq(all, 1, size)[k] = all[1 + k - 1]
        BY <2>1, SubSeqProperties
    <2>3. ASSUME NEW k \in 1 .. size
          PROVE  SubSeq(all, 1, size)[k] = all[k]
        <3>1. k \in 1 .. size - 1 + 1 /\ 1 + k - 1 = k
            BY <2>1
        <3>2. SubSeq(all, 1, size)[k] = all[1 + k - 1]
            BY <2>2, <3>1
        <3> QED
            BY <3>1, <3>2
    <2> QED
        BY <2>1, <2>2, <2>3
<1> HIDE DEF short, all
<1>4. /\ DepthsOf(short) \in Seq(SegmentDepths)
      /\ Len(DepthsOf(short)) = size
      /\ \A k \in 1 .. size : DepthsOf(short)[k] = Depths(short[k])
    BY <1>2, DepthsOfSegments
<1>5. ASSUME NEW k \in 1 .. size
      PROVE  DepthsOf(short)[k] = SubSeq(all, 1, size)[k]
    <2>1. k \in 1 .. Len(seq)
        OBVIOUS
    <2> QED
        BY <1>1, <1>2, <1>3, <1>4, <2>1, Zenon
<1>6. DepthsOf(short) = SubSeq(all, 1, size)
    BY <1>3, <1>4, <1>5, SeqEqual
<1> QED
    BY <1>2, <1>6 DEF short, all

(* What a step does to the depths on the frontier.                         *)
LEMMA FirstByDepth ==
    ASSUME Init
    PROVE  ByDepth!TreeInit
<1>1. DepthsOf(<<>>) = <<>>
    BY DEF DepthsOf
<1> QED
    BY <1>1 DEF Init, Tree!TreeInit, ByDepth!TreeInit

LEMMA CloseByDepth ==
    ASSUME IInv, NEW x \in Payloads, NEW z \in Masks, CloseTree(x, z)
    PROVE  ByDepth!Push(DepthOfLeaf(received))
<1>1. /\ frontier \in Seq(Segment) /\ LeafSegment(x, z) \in Segment
      /\ frontier' = Append(frontier, LeafSegment(x, z))
    BY LeafType DEF IInv, TypeOK, CloseTree, Tree!Push
<1>2. DepthsOf(frontier)' = Append(DepthsOf(frontier), DepthOfLeaf(received))
    BY <1>1, DepthsOfAppended, DepthOfLeafSegment DEF DepthOfLeaf
<1> QED
    BY <1>2 DEF CloseTree, Tree!Push, Tree!Expected, ByDepth!Push, ByDepth!Expected

LEMMA WalkByDepth ==
    ASSUME TreeWalk
    PROVE  ByDepth!Descend \/ ByDepth!Counted
<1>1. frontier' = frontier
    BY DEF TreeWalk, Tree!Descend, Tree!Counted
<1>2. DepthsOf(frontier)' = DepthsOf(frontier)
    BY <1>1
<1>3. CASE Tree!Descend
    BY <1>2, <1>3 DEF Tree!Descend, Tree!EndsHere, Tree!Mid,
                      ByDepth!Descend, ByDepth!EndsHere, ByDepth!Mid
<1>4. CASE Tree!Counted
    BY <1>2, <1>4 DEF Tree!Counted, ByDepth!Counted
<1> QED
    BY <1>3, <1>4 DEF TreeWalk

LEMMA MergeByDepth ==
    ASSUME IInv, TreeMerge
    PROVE  ByDepth!Merge
<1> DEFINE size == Len(frontier)
           first == SubSeq(frontier, 1, size - 2)
           merged == CombineSegments(frontier[size - 1], frontier[size])
           short == DepthsOf(frontier)
<1>1. /\ frontier \in Seq(Segment) /\ size \in Nat /\ size >= 2
      /\ frontier' = Append(first, merged)
    BY DEF IInv, TypeOK, TreeMerge, Tree!Merge
<1>2. /\ size - 2 \in 0 .. size /\ size - 1 \in 1 .. size /\ size \in 1 .. size
      /\ frontier[size - 1] \in Segment /\ frontier[size] \in Segment
    BY <1>1
<1>3. first \in Seq(Segment) /\ DepthsOf(first) = SubSeq(short, 1, size - 2)
    BY <1>1, <1>2, DepthsOfFirst
<1>4. merged \in Segment
    BY <1>2, CombineType
<1>5. Depths(merged) = CombineDepths(short[size - 1], short[size])
    <2>1. /\ short[size - 1] = Depths(frontier[size - 1])
          /\ short[size] = Depths(frontier[size])
        BY <1>1, <1>2, DepthsOfSegments
    <2> QED
        BY <1>2, <2>1, DepthOfMerged
<1>6. Len(short) = size
    BY <1>1, DepthsOfSegments
<1>7. DepthsOf(Append(first, merged)) = Append(DepthsOf(first), Depths(merged))
    BY <1>3, <1>4, DepthsOfAppended
<1>8. DepthsOf(frontier)' = DepthsOf(Append(first, merged))
    BY <1>1
<1> HIDE DEF first, merged
<1>9. DepthsOf(frontier)'
          = Append(SubSeq(short, 1, size - 2), CombineDepths(short[size - 1], short[size]))
    BY <1>3, <1>5, <1>7, <1>8
<1> HIDE DEF short, size
<1>10. DepthsOf(frontier)'
          = LET k == Len(short) IN Append(SubSeq(short, 1, k - 2), CombineDepths(short[k - 1], short[k]))
    BY <1>6, <1>9
<1>11. pc = "merge" /\ merges > 0 /\ merges' = merges - 1 /\ UNCHANGED <<total, received, lo, hi, pc>>
    BY DEF TreeMerge, Tree!Merge
<1>12. Len(short) >= 2
    BY <1>1, <1>6
<1> QED
    BY <1>10, <1>11, <1>12 DEF ByDepth!Merge, short

LEMMA ArrivedByDepth ==
    ASSUME TreeArrived
    PROVE  ByDepth!Arrived
BY DEF TreeArrived, Tree!Arrived, ByDepth!Arrived

LEMMA StepByDepth ==
    ASSUME IInv, mode = "tree", [Next]_vars
    PROVE  [ByDepth!TreeNext]_(ByDepth!treeVars)
<1>1. ASSUME NEW x \in Payloads, NEW z \in Masks, ClosePeriod(x, z)
      PROVE  ByDepth!Push(DepthOfLeaf(received))
    BY <1>1, CloseByDepth DEF ClosePeriod, CloseFirst, CloseNext
<1>2. ASSUME UNCHANGED treeVars
      PROVE  UNCHANGED ByDepth!treeVars
    BY <1>2 DEF treeVars, ByDepth!treeVars
<1>3. CASE CollectTotals \/ UNCHANGED vars
    BY <1>2, <1>3 DEF CollectTotals, vars
<1>4. CASE TreeWalk \/ TreeMerge \/ TreeArrived
    BY <1>4, WalkByDepth, MergeByDepth, ArrivedByDepth DEF ByDepth!TreeNext, ByDepth!Step
<1> QED
    BY <1>1, <1>3, <1>4 DEF Next, ByDepth!TreeNext

(* The depths of a reduced range depend on its length only, and are those  *)
(* of tree_depth.                                                          *)
LEMMA HalvesInLength ==
    ASSUME NEW first \in Nat, NEW size \in Nat, size > 1
    PROVE  LET left == (size + 1) \div 2
               right == size \div 2
               last == first + size - 1
           IN  /\ left \in 1 .. size - 1 /\ right \in 1 .. size - 1
               /\ first < last /\ last \in Nat /\ first + left - 1 \in Nat
               /\ last = (first + left) + right - 1
               /\ first + left - 1 = ByDepth!Middle(<<first, last>>)
<1> DEFINE left == (size + 1) \div 2
           right == size \div 2
           last == first + size - 1
<1>1. left \in 1 .. size - 1 /\ right \in 1 .. size - 1 /\ left + right = size
    OBVIOUS
<1>2. last = (first + left) + right - 1
    BY <1>1
<1>3. (first + last) \div 2 = first + left - 1
    OBVIOUS
<1>4. ByDepth!Middle(<<first, last>>) = (first + last) \div 2
    BY DEF ByDepth!Middle
<1>5. first < last /\ last \in Nat /\ first + left - 1 \in Nat
    OBVIOUS
<1> QED
    BY <1>1, <1>2, <1>3, <1>4, <1>5

(* The reduction of so many leaves from a first one on.                    *)
Reduced(first, size) == ByDepth!reduceRange[<<first, first + size - 1>>]

LEMMA ReducedIs ==
    ASSUME NEW first \in Nat, NEW size \in Nat \ {0}
    PROVE  Reduced(first, size) =
             IF size = 1 THEN LeafDepth
             ELSE CombineDepths(Reduced(first, (size + 1) \div 2),
                                Reduced(first + (size + 1) \div 2, size \div 2))
<1>1. CASE size = 1
    <2>1. first + size - 1 = first
        BY <1>1
    <2>2. ByDepth!reduceRange[<<first, first>>] = LeafDepth
        BY ByDepth!ReduceLeaf, PeriodCountsAssumption DEF DepthOfLeaf
    <2>3. Reduced(first, size) = LeafDepth
        BY <2>1, <2>2, Zenon DEF Reduced
    <2> QED
        BY <1>1, <2>3
<1>2. CASE size # 1
    <2> DEFINE left == (size + 1) \div 2
               right == size \div 2
    <2>1. PICK last \in Nat : last = first + size - 1
        OBVIOUS
    <2>2. PICK mid \in Nat : mid = first + left - 1
        BY <1>2, HalvesInLength
    <2>3. /\ first < last /\ mid = ByDepth!Middle(<<first, last>>)
          /\ last = (first + left) + right - 1 /\ mid + 1 = first + left
        <3>1. size > 1
            BY <1>2
        <3>2. /\ left \in Nat /\ first < first + size - 1
              /\ first + size - 1 = (first + left) + right - 1
              /\ first + left - 1 = ByDepth!Middle(<<first, first + size - 1>>)
            BY <3>1, HalvesInLength
        <3> HIDE DEF left, right
        <3> QED
            BY <2>1, <2>2, <3>2
    <2> HIDE DEF left, right
    <2>4. ByDepth!reduceRange[<<first, last>>]
              = CombineDepths(ByDepth!reduceRange[<<first, mid>>],
                              ByDepth!reduceRange[<<mid + 1, last>>])
        BY <2>3, ByDepth!ReduceHalves, PeriodCountsAssumption
    <2>5. ByDepth!reduceRange[<<first, first + size - 1>>]
              = CombineDepths(ByDepth!reduceRange[<<first, first + left - 1>>],
                              ByDepth!reduceRange[<<first + left, (first + left) + right - 1>>])
        BY <2>1, <2>2, <2>3, <2>4, Zenon
    <2>6. Reduced(first, size) = CombineDepths(Reduced(first, left), Reduced(first + left, right))
        BY <2>5 DEF Reduced
    <2> QED
        BY <1>2, <2>6 DEF left, right
<1> QED
    BY <1>1, <1>2

LEMMA ReducedAnywhere ==
    ASSUME NEW size \in Nat \ {0}, NEW first \in Nat
    PROVE  Reduced(first, size) = Reduced(0, size)
<1> DEFINE W == {k \in Nat : \A m \in 1 .. k : \A a \in Nat : Reduced(a, m) = Reduced(0, m)}
<1>1. 0 \in W
    OBVIOUS
<1>2. ASSUME NEW k \in Nat, k \in W
      PROVE  k + 1 \in W
    <2>1. \A m \in 1 .. k : \A a \in Nat : Reduced(a, m) = Reduced(0, m)
        BY <1>2
    <2>2. ASSUME NEW a \in Nat, k > 0
          PROVE  Reduced(a, k + 1)
                   = CombineDepths(Reduced(0, (k + 2) \div 2), Reduced(0, (k + 1) \div 2))
        <3>1. PICK left \in 1 .. k : left = (k + 2) \div 2
            BY <2>2
        <3>2. PICK right \in 1 .. k : right = (k + 1) \div 2
            BY <2>2
        <3>3. Reduced(a, k + 1) = CombineDepths(Reduced(a, left), Reduced(a + left, right))
            <4>1. k + 1 \in Nat \ {0} /\ k + 1 # 1 /\ (k + 1) + 1 = k + 2
                BY <2>2
            <4> QED
                BY <3>1, <3>2, <4>1, ReducedIs
        <3>4. a + left \in Nat
            OBVIOUS
        <3>5. Reduced(a, left) = Reduced(0, left) /\ Reduced(a + left, right) = Reduced(0, right)
            BY <2>1, <3>4
        <3> QED
            BY <3>1, <3>2, <3>3, <3>5
    <2>3. ASSUME NEW a \in Nat
          PROVE  Reduced(a, k + 1) = Reduced(0, k + 1)
        <3>1. CASE k > 0
            BY <2>2, <3>1
        <3>2. CASE k = 0
            <4>1. Reduced(a, 1) = LeafDepth /\ Reduced(0, 1) = LeafDepth
                BY ReducedIs
            <4> QED
                BY <3>2, <4>1
        <3> QED
            BY <3>1, <3>2
    <2>4. ASSUME NEW m \in 1 .. k + 1, NEW a \in Nat
          PROVE  Reduced(a, m) = Reduced(0, m)
        <3>1. m \in 1 .. k \/ m = k + 1
            OBVIOUS
        <3> QED
            BY <2>1, <2>3, <3>1
    <2> QED
        BY <2>4
<1> HIDE DEF W
<1>3. size \in W
    BY <1>1, <1>2, NumberInduction
<1> QED
    BY <1>3 DEF W

(* g is the function that tree_depth is.                                   *)
DepthFunction(g) ==
    g = [n \in Nat \ {0} |-> IF n = 1 THEN LeafDepth
                             ELSE CombineDepths(g[(n + 1) \div 2], g[n \div 2])]

LEMMA TreeDepthIs ==
    ASSUME NEW size \in Nat \ {0}
    PROVE  tree_depth[size] = IF size = 1 THEN LeafDepth
                              ELSE CombineDepths(tree_depth[(size + 1) \div 2],
                                                 tree_depth[size \div 2])
<1>1. \E g : DepthFunction(g)
    <2> DEFINE g == [k \in Nat \ {0} |-> Reduced(0, k)]
    <2>1. ASSUME NEW k \in Nat \ {0}
          PROVE  g[k] = IF k = 1 THEN LeafDepth
                        ELSE CombineDepths(g[(k + 1) \div 2], g[k \div 2])
        <3>1. CASE k = 1
            BY <3>1, ReducedIs
        <3>2. CASE k # 1
            <4>1. PICK left \in Nat \ {0} : left = (k + 1) \div 2
                OBVIOUS
            <4>2. PICK right \in Nat \ {0} : right = k \div 2
                BY <3>2
            <4>3. Reduced(0, k) = CombineDepths(Reduced(0, left), Reduced(0 + left, right))
                BY <3>2, <4>1, <4>2, ReducedIs
            <4>4. Reduced(0 + left, right) = Reduced(0, right)
                BY ReducedAnywhere
            <4> QED
                BY <3>2, <4>1, <4>2, <4>3, <4>4
        <3> QED
            BY <3>1, <3>2
    <2>2. g = [k \in Nat \ {0} |-> g[k]]
        OBVIOUS
    <2> HIDE DEF g
    <2>3. DepthFunction(g)
        BY <2>1, <2>2 DEF DepthFunction
    <2> QED
        BY <2>3
<1>2. tree_depth = CHOOSE g : DepthFunction(g)
    BY ZenonT(60) DEF tree_depth, DepthFunction
<1>3. DepthFunction(tree_depth)
    BY <1>1, <1>2
<1> QED
    BY <1>3 DEF DepthFunction

LEMMA ReducedDepth ==
    ASSUME NEW size \in Nat \ {0}
    PROVE  Reduced(0, size) = tree_depth[size]
<1> DEFINE W == {k \in Nat : \A m \in 1 .. k : Reduced(0, m) = tree_depth[m]}
<1>1. 0 \in W
    OBVIOUS
<1>2. ASSUME NEW k \in Nat, k \in W
      PROVE  k + 1 \in W
    <2>1. \A m \in 1 .. k : Reduced(0, m) = tree_depth[m]
        BY <1>2
    <2>2. CASE k = 0
        <3>1. Reduced(0, 1) = LeafDepth /\ tree_depth[1] = LeafDepth
            BY ReducedIs, TreeDepthIs
        <3> QED
            BY <2>2, <3>1
    <2>3. CASE k > 0
        <3>1. PICK size1 \in Nat \ {0} : size1 = k + 1 /\ size1 # 1
            BY <2>3
        <3>2. PICK left \in 1 .. k : left = (size1 + 1) \div 2
            BY <2>3, <3>1
        <3>3. PICK right \in 1 .. k : right = size1 \div 2
            BY <2>3, <3>1
        <3>4. Reduced(0, size1) = CombineDepths(Reduced(0, left), Reduced(0 + left, right))
            BY <3>1, <3>2, <3>3, ReducedIs
        <3>5. Reduced(0 + left, right) = Reduced(0, right)
            BY ReducedAnywhere
        <3>6. tree_depth[size1] = CombineDepths(tree_depth[left], tree_depth[right])
            BY <3>1, <3>2, <3>3, TreeDepthIs
        <3>7. Reduced(0, size1) = tree_depth[size1]
            BY <2>1, <3>4, <3>5, <3>6
        <3>8. ASSUME NEW m \in 1 .. k + 1
              PROVE  Reduced(0, m) = tree_depth[m]
            <4>1. m \in 1 .. k \/ m = size1
                BY <3>1
            <4> QED
                BY <2>1, <3>7, <4>1
        <3> QED
            BY <3>8
    <2> QED
        BY <2>2, <2>3
<1> HIDE DEF W
<1>3. size \in W
    BY <1>1, <1>2, NumberInduction
<1> QED
    BY <1>3 DEF W

(* What the echo has cost so far.                                          *)
Closed == IF pc = "idle" THEN received ELSE received + 1

TreeCosts ==
    /\ ByDepth!FrontierInv
    /\ mulCount = Closed + 4 * (Closed - Len(frontier))
    /\ refreshCount = 0

Refreshed == {p \in 1 .. total - 2 : p % interval = 0 /\ p < received}

(* Up to the first refresh the carried value is one multiplication deeper  *)
(* every period; then the depth counts the periods since the last refresh, *)
(* but for the last period, which is never refreshed.                      *)
CollectiveCosts ==
    /\ received <= interval => current.depth = received
    /\ interval < received /\ received < total => current.depth = (received - 1) % interval
    /\ current.depth <= interval + 1
    /\ totals.depth = Smaller(received, interval + 1)
    /\ refreshCount = Cardinality(Refreshed)

SequentialCosts ==
    /\ mulCount = IF received = 0 THEN 0 ELSE 2 * received - 1
    /\ refreshMode = "collective" => CollectiveCosts
    /\ refreshMode = "none" =>
           current.depth = received /\ totals.depth = received /\ refreshCount = 0

CostInv ==
    /\ IInv
    /\ interval = 0 <=> ~(mode = "sequential" /\ refreshMode = "collective")
    /\ mode = "tree" => TreeCosts
    /\ mode = "sequential" => SequentialCosts

LEMMA CostsAtFirst == Init => CostInv
<1> SUFFICES ASSUME Init PROVE CostInv
    OBVIOUS
<1>1. IInv
    BY InitInv
<1>2. /\ received = 0 /\ pc = "idle" /\ Len(frontier) = 0 /\ mulCount = 0 /\ refreshCount = 0
      /\ current.depth = 0 /\ totals.depth = 0 /\ total \in Nat \ {0}
    BY PeriodCountsAssumption DEF Init, Tree!TreeInit, Encrypted
<1>3. interval = 0 <=> ~(mode = "sequential" /\ refreshMode = "collective")
    BY IntervalsAssumption DEF Init
<1>4. TreeCosts
    <2>1. ByDepth!FrontierInv
        BY FirstByDepth, ByDepth!FrontierAtFirst, PeriodCountsAssumption
    <2> QED
        BY <1>2, <2>1 DEF TreeCosts, Closed
<1>5. ASSUME mode = "sequential", refreshMode = "collective"
      PROVE  CollectiveCosts
    <2>1. interval \in Nat \ {0}
        BY <1>5, IntervalsAssumption DEF Init
    <2>2. Refreshed = {}
        BY <1>2 DEF Refreshed
    <2>3. Cardinality(Refreshed) = 0
        BY <2>2, FS_EmptySet
    <2> QED
        BY <1>2, <2>1, <2>3 DEF CollectiveCosts, Smaller
<1>6. mode = "sequential" => SequentialCosts
    BY <1>2, <1>5 DEF SequentialCosts
<1> QED
    BY <1>1, <1>3, <1>4, <1>6 DEF CostInv

(* The depth of what a period carries, and of what it is added to.         *)
LEMMA DepthOfCarried ==
    ASSUME IInv, NEW x \in Payloads, NEW z \in Masks
    PROVE  /\ gatedInput(x, z).depth = 1
           /\ Carried(x, z).depth = current.depth + 1
           /\ NewTotal(x, z).depth = Larger(totals.depth, current.depth + 1)
           /\ refresh(Carried(x, z)).depth = 0
           /\ current.depth \in Nat /\ totals.depth \in Nat
<1>1. current.depth \in Nat /\ totals.depth \in Nat
    BY DEF IInv, TypeOK, Ciphertext
<1>2. gatedInput(x, z).depth = 1
    BY DEF gatedInput, mul, Encrypted, Larger
<1>3. mul(current, oneMinus(Encrypted(z))).depth = current.depth + 1
    BY <1>1 DEF mul, oneMinus, Encrypted, Larger
<1>4. Carried(x, z).depth = current.depth + 1
    BY <1>1, <1>2, <1>3 DEF Carried, add, Larger
<1>5. NewTotal(x, z).depth = Larger(totals.depth, current.depth + 1)
    BY <1>4 DEF NewTotal, add
<1>6. refresh(Carried(x, z)).depth = 0
    BY DEF refresh
<1> QED
    BY <1>1, <1>2, <1>4, <1>5, <1>6

LEMMA NextRemainder ==
    ASSUME NEW m \in Nat \ {0}, NEW k \in Nat \ {0}
    PROVE  /\ (m - 1) % k \in 0 .. k - 1 /\ m % k \in 0 .. k - 1
           /\ m % k = 0 <=> (m - 1) % k = k - 1
           /\ m % k # 0 => m % k = ((m - 1) % k) + 1
           /\ m < k => m % k = m
           /\ m = k => m % k = 0
<1>1. PICK r \in 0 .. k - 1 : r = (m - 1) % k
    OBVIOUS
<1>2. (r + 1) % k = m % k
    <2>1. PICK before \in Int : before = m - 1
        OBVIOUS
    <2>2. PICK one \in Int : one = 1
        OBVIOUS
    <2>3. ((before % k) + one) % k = (before + one) % k
        BY ModPlus
    <2>4. before + 1 = m
        BY <2>1
    <2> QED
        BY <1>1, <2>1, <2>2, <2>3, <2>4, Zenon
<1>3. (r + 1) % k = IF r = k - 1 THEN 0 ELSE r + 1
    <2>1. CASE r = k - 1
        <3>1. (k * 1 + 0) % k = 0
            BY ModOfMultiple
        <3>2. r + 1 = k * 1 + 0
            BY <2>1
        <3> QED
            BY <2>1, <3>1, <3>2
    <2>2. CASE r # k - 1
        <3>1. r + 1 \in 0 .. k - 1
            BY <2>2
        <3>2. (k * 0 + (r + 1)) % k = r + 1
            BY <3>1, ModOfMultiple
        <3>3. k * 0 + (r + 1) = r + 1
            OBVIOUS
        <3> QED
            BY <2>2, <3>2, <3>3
    <2> QED
        BY <2>1, <2>2
<1>4. m < k => m % k = m
    <2>1. ASSUME m < k PROVE (k * 0 + m) % k = m
        <3>1. m \in 0 .. k - 1
            BY <2>1
        <3> QED
            BY <3>1, ModOfMultiple
    <2>2. k * 0 + m = m
        OBVIOUS
    <2> QED
        BY <2>1, <2>2
<1>5. m = k => m % k = 0
    <2>1. (k * 1 + 0) % k = 0 /\ k * 1 + 0 = k
        BY ModOfMultiple
    <2> QED
        BY <2>1
<1> QED
    BY <1>1, <1>2, <1>3, <1>4, <1>5

(* How each close and each step of the tree adds to the costs.             *)
LEMMA TreeStepCosts ==
    ASSUME CostInv, mode = "tree", [Next]_vars
    PROVE  TreeCosts'
<1>1. IInv /\ TreeCosts /\ total \in Nat \ {0} /\ received \in Nat
    BY PeriodCountsAssumption DEF CostInv, IInv, TypeOK, Tree!TreeTypeOK
<1>2. ByDepth!FrontierInv'
    <2>1. ByDepth!FrontierInv
        BY <1>1 DEF TreeCosts
    <2>2. [ByDepth!TreeNext]_(ByDepth!treeVars)
        BY <1>1, StepByDepth
    <2> QED
        BY <2>1, <2>2, ByDepth!StepKeepsFrontier, PeriodCountsAssumption
<1>3. frontier \in Seq(Segment) /\ Len(frontier) \in Nat /\ mulCount \in Nat
    BY <1>1 DEF IInv, TypeOK
<1>4. mulCount' = Closed' + 4 * (Closed' - Len(frontier')) /\ refreshCount' = refreshCount
    <2>1. mulCount = Closed + 4 * (Closed - Len(frontier))
        BY <1>1 DEF TreeCosts
    <2>2. ASSUME NEW x \in Payloads, NEW z \in Masks, ClosePeriod(x, z)
          PROVE  mulCount' = Closed' + 4 * (Closed' - Len(frontier')) /\ refreshCount' = refreshCount
        <3>1. CloseTree(x, z)
            BY <2>2 DEF ClosePeriod, CloseFirst, CloseNext
        <3>2. /\ pc = "idle" /\ pc' = "descend" /\ received' = received
              /\ mulCount' = mulCount + 1 /\ refreshCount' = refreshCount
              /\ frontier' = Append(frontier, LeafSegment(x, z))
            BY <3>1 DEF CloseTree, Tree!Push
        <3>3. LeafSegment(x, z) \in Segment
            BY LeafType
        <3>4. Len(frontier') = Len(frontier) + 1
            BY <1>3, <3>2, <3>3
        <3>5. Closed' = Closed + 1
            BY <3>2 DEF Closed
        <3>6. Closed \in Nat
            BY <1>1 DEF Closed
        <3> QED
            BY <1>3, <2>1, <3>2, <3>4, <3>5, <3>6
    <2>3. CASE TreeWalk
        <3>1. /\ frontier' = frontier /\ received' = received /\ mulCount' = mulCount
              /\ refreshCount' = refreshCount /\ pc = "descend" /\ pc' # "idle"
            BY <2>3 DEF TreeWalk, Tree!Descend, Tree!Counted
        <3> QED
            BY <2>1, <3>1 DEF Closed
    <2>4. CASE TreeMerge
        <3>1. /\ received' = received /\ mulCount' = mulCount + 4 /\ refreshCount' = refreshCount
              /\ pc' = pc /\ Len(frontier) >= 2
              /\ frontier' = LastTwoBecome(frontier, CombineSegments(frontier[Len(frontier) - 1],
                                                                     frontier[Len(frontier)]))
            BY <2>4 DEF TreeMerge, Tree!Merge, LastTwoBecome
        <3>2. /\ frontier[Len(frontier) - 1] \in Segment /\ frontier[Len(frontier)] \in Segment
            BY <1>3, <3>1
        <3>3. Len(frontier') = Len(frontier) - 1
            BY <1>3, <3>1, <3>2, CombineType, LastTwoMerge
        <3>4. Closed' = Closed /\ Closed \in Nat
            BY <1>1, <3>1 DEF Closed
        <3> QED
            BY <1>3, <2>1, <3>1, <3>3, <3>4
    <2>5. CASE TreeArrived
        <3>1. /\ received' = received + 1 /\ mulCount' = mulCount /\ refreshCount' = refreshCount
              /\ pc = "merge" /\ pc' = "idle" /\ frontier' = frontier
            BY <2>5 DEF TreeArrived, Tree!Arrived
        <3> QED
            BY <2>1, <3>1 DEF Closed
    <2>6. CASE CollectTotals \/ UNCHANGED vars
        <3>1. /\ received' = received /\ mulCount' = mulCount /\ refreshCount' = refreshCount
              /\ pc' = pc /\ frontier' = frontier
            BY <2>6 DEF CollectTotals, vars, treeVars
        <3> QED
            BY <2>1, <3>1 DEF Closed
    <2> QED
        BY <2>2, <2>3, <2>4, <2>5, <2>6 DEF Next
<1> QED
    BY <1>1, <1>2, <1>4 DEF TreeCosts

LEMMA CloseFirstCosts ==
    ASSUME CostInv, NEW x \in Payloads, NEW z \in Masks, CloseFirst(x, z)
    PROVE  SequentialCosts'
<1>1. /\ received = 0 /\ received' = 1 /\ mulCount' = mulCount + 1 /\ refreshCount' = refreshCount
      /\ current'.depth = 1 /\ totals'.depth = 1 /\ mode = "sequential"
      /\ UNCHANGED <<refreshMode, interval, total>>
    BY DepthOfCarried DEF CostInv, CloseFirst, config
<1>2. IInv /\ SequentialCosts /\ total \in Nat \ {0}
    BY <1>1, PeriodCountsAssumption DEF CostInv, IInv, TypeOK, Tree!TreeTypeOK
<1>3. mulCount' = 1
    BY <1>1, <1>2 DEF SequentialCosts
<1>4. ASSUME refreshMode = "collective"
      PROVE  CollectiveCosts'
    <2>1. interval \in Nat \ {0}
        BY <1>1, <1>4, IntervalsAssumption DEF CostInv, IInv, TypeOK
    <2>2. Refreshed' = {} /\ Refreshed = {}
        BY <1>1 DEF Refreshed
    <2>3. refreshCount' = Cardinality(Refreshed')
        BY <1>1, <1>2, <1>4, <2>2 DEF SequentialCosts, CollectiveCosts
    <2>4. Smaller(1, interval + 1) = 1
        BY <2>1 DEF Smaller
    <2> QED
        BY <1>1, <2>1, <2>3, <2>4 DEF CollectiveCosts
<1> QED
    BY <1>1, <1>2, <1>3, <1>4 DEF SequentialCosts

(* Periods so far and the next one: whether it is refreshed.               *)
LEMMA RefreshedNext ==
    ASSUME interval \in Nat \ {0}, interval' = interval, total \in Nat \ {0}, total' = total,
           received \in 1 .. total - 1, received' = received + 1, refreshMode = "collective"
    PROVE  Cardinality(Refreshed')
             = IF shouldRefresh(received) THEN Cardinality(Refreshed) + 1 ELSE Cardinality(Refreshed)
<1>1. IsFiniteSet(Refreshed)
    <2>1. IsFiniteSet(1 .. total - 2) /\ Refreshed \subseteq 1 .. total - 2
        BY FS_Interval DEF Refreshed
    <2> QED
        BY <2>1, FS_Subset
<1>2. CASE shouldRefresh(received)
    <2>1. Refreshed' = Refreshed \cup {received}
        <3>1. received \in 1 .. total - 2 /\ received % interval = 0
            BY <1>2 DEF shouldRefresh
        <3> QED
            BY <3>1 DEF Refreshed
    <2>2. received \notin Refreshed
        BY DEF Refreshed
    <2> QED
        BY <1>1, <1>2, <2>1, <2>2, FS_AddElement
<1>3. CASE ~shouldRefresh(received)
    <2>1. received \in 1 .. total - 2 => received % interval # 0
        BY <1>3 DEF shouldRefresh
    <2>2. Refreshed' = Refreshed
        BY <2>1 DEF Refreshed
    <2> QED
        BY <1>3, <2>2
<1> QED
    BY <1>2, <1>3

LEMMA CloseNextCosts ==
    ASSUME CostInv, NEW x \in Payloads, NEW z \in Masks, CloseNext(x, z)
    PROVE  SequentialCosts'
<1>1. /\ received \in 1 .. total - 1 /\ received' = received + 1 /\ mode = "sequential"
      /\ mulCount' = mulCount + 2 /\ UNCHANGED <<refreshMode, interval, total>>
    BY DEF CloseNext, config
<1>2. IInv /\ SequentialCosts /\ total \in Nat \ {0}
    BY <1>1, PeriodCountsAssumption DEF CostInv, IInv, TypeOK, Tree!TreeTypeOK
<1>3. /\ totals'.depth = Larger(totals.depth, current.depth + 1)
      /\ current'.depth = IF shouldRefresh(received) THEN 0 ELSE current.depth + 1
      /\ refreshCount' = IF shouldRefresh(received) THEN refreshCount + 1 ELSE refreshCount
      /\ current.depth \in Nat /\ totals.depth \in Nat
    BY <1>2, DepthOfCarried DEF CloseNext
<1>4. mulCount' = 2 * received' - 1
    BY <1>1, <1>2 DEF SequentialCosts
<1>5. ASSUME refreshMode = "none"
      PROVE  current'.depth = received' /\ totals'.depth = received' /\ refreshCount' = 0
    <2>1. current.depth = received /\ totals.depth = received /\ refreshCount = 0
        BY <1>2, <1>5 DEF SequentialCosts
    <2>2. ~shouldRefresh(received)
        BY <1>5 DEF shouldRefresh
    <2> QED
        BY <1>1, <1>3, <2>1, <2>2 DEF Larger
<1>6. ASSUME refreshMode = "collective"
      PROVE  CollectiveCosts'
    <2>1. interval \in Nat \ {0}
        BY <1>1, <1>6, IntervalsAssumption DEF CostInv, IInv, TypeOK
    <2>2. CollectiveCosts
        BY <1>2, <1>6 DEF SequentialCosts
    <2>3. refreshCount' = Cardinality(Refreshed')
        BY <1>1, <1>2, <1>3, <1>6, <2>1, <2>2, RefreshedNext DEF CollectiveCosts
    <2>0. received \in Nat \ {0}
        BY <1>1, <1>2
    <2>a. /\ (received - 1) % interval \in 0 .. interval - 1 /\ received % interval \in 0 .. interval - 1
          /\ received % interval = 0 <=> (received - 1) % interval = interval - 1
          /\ received % interval # 0 => received % interval = ((received - 1) % interval) + 1
          /\ received < interval => received % interval = received
          /\ received = interval => received % interval = 0
        BY <2>0, <2>1, NextRemainder, Zenon
    <2>4. PICK before \in 0 .. interval - 1 : before = (received - 1) % interval
        BY <2>a, Zenon
    <2>5. PICK after \in 0 .. interval - 1 : after = received % interval
        BY <2>a, Zenon
    <2>6. /\ after = 0 <=> before = interval - 1
          /\ after # 0 => after = before + 1
          /\ received < interval => after = received
          /\ received = interval => after = 0
        BY <2>a, <2>4, <2>5, Zenon
    <2>7. shouldRefresh(received) <=> received < total - 1 /\ after = 0
        BY <1>1, <1>6, <2>5 DEF shouldRefresh
    <2>8. /\ received <= interval => current.depth = received
          /\ interval < received => current.depth = before
          /\ totals.depth = IF received <= interval + 1 THEN received ELSE interval + 1
        BY <1>1, <1>2, <2>2, <2>4 DEF CollectiveCosts, Smaller
    <2>9. totals'.depth = Smaller(received', interval' + 1)
        <3>1. received > interval => totals.depth = interval + 1 /\ current.depth + 1 <= interval
            BY <1>1, <2>1, <2>8
        <3> QED
            BY <1>1, <1>3, <2>1, <2>8, <3>1 DEF Larger, Smaller
    <2>10. received' <= interval' => current'.depth = received'
        BY <1>1, <1>3, <2>1, <2>6, <2>7, <2>8
    <2>11. interval' < received' /\ received' < total' => current'.depth = (received' - 1) % interval'
        <3>1. (received' - 1) % interval' = after
            <4>1. received' - 1 = received /\ interval' = interval
                BY <1>1, <2>0
            <4> QED
                BY <4>1, <2>5, Zenon
        <3>2. interval' < received' /\ received' < total' => current'.depth = after
            <4>1. interval < received /\ after # 0 => current.depth + 1 = after
                BY <2>6, <2>8
            <4>2. received # interval \/ after = 0
                BY <2>6
            <4>3. interval < received' <=> interval <= received
                BY <1>1, <2>1
            <4>4. received' < total' <=> received < total - 1
                BY <1>1, <1>2
            <4> QED
                BY <1>1, <1>2, <1>3, <2>1, <2>7, <4>1, <4>2, <4>3, <4>4
        <3> QED
            BY <3>1, <3>2, Zenon
    <2>12. current'.depth <= interval' + 1
        BY <1>1, <1>3, <2>1, <2>8
    <2> QED
        BY <2>3, <2>9, <2>10, <2>11, <2>12 DEF CollectiveCosts
<1> QED
    BY <1>1, <1>4, <1>5, <1>6 DEF SequentialCosts

LEMMA StepCosts ==
    ASSUME CostInv, [Next]_vars
    PROVE  CostInv'
<1>1. IInv /\ IInv'
    BY NextInv DEF CostInv
<1>2. UNCHANGED config
    BY DEF Next, ClosePeriod, CloseTree, CloseFirst, CloseNext, TreeWalk, TreeMerge,
           TreeArrived, CollectTotals, vars
<1>3. mode' = mode /\ refreshMode' = refreshMode /\ interval' = interval
    BY <1>2 DEF config
<1>4. ASSUME mode' = "tree" PROVE TreeCosts'
    BY <1>3, <1>4, TreeStepCosts
<1>5. ASSUME mode' = "sequential" PROVE SequentialCosts'
    <2>1. mode = "sequential" /\ pc = "idle" /\ SequentialCosts
        BY <1>1, <1>3, <1>5 DEF CostInv, IInv, ModesAreSeparate
    <2>2. ASSUME NEW x \in Payloads, NEW z \in Masks, ClosePeriod(x, z)
          PROVE  SequentialCosts'
        BY <2>1, <2>2, CloseFirstCosts, CloseNextCosts DEF ClosePeriod, CloseTree
    <2>3. ~TreeWalk /\ ~TreeMerge /\ ~TreeArrived
        BY <2>1 DEF TreeWalk, TreeMerge, TreeArrived, Tree!Descend, Tree!Counted, Tree!Merge, Tree!Arrived
    <2>4. CASE CollectTotals \/ UNCHANGED vars
        <3>1. UNCHANGED <<total, received, current, totals, mulCount, refreshCount>>
            BY <2>4 DEF CollectTotals, vars, treeVars
        <3> QED
            BY <1>3, <2>1, <3>1 DEF SequentialCosts, CollectiveCosts, Refreshed
    <2> QED
        BY <2>2, <2>3, <2>4 DEF Next
<1> QED
    BY <1>1, <1>3, <1>4, <1>5 DEF CostInv

LEMMA CostsKept == Spec => []CostInv
<1> QED
    BY CostsAtFirst, StepCosts, PTL DEF Spec, SafeSpec

(* The multiplication depth in both modes, the ciphertext multiplications  *)
(* and the refreshes are those that analytical_requirements.py computes,   *)
(* and no ciphertext is deeper than the refresh interval allows: for every *)
(* number of periods and every interval.                                   *)
THEOREM CostsAlwaysAsAnalysed == Spec => []CostsAsAnalysed
<1>1. ASSUME CostInv
      PROVE  CostsAsAnalysed
    <2>1. /\ IInv /\ total \in Nat \ {0} /\ received \in 0 .. total
          /\ interval \in Nat /\ mode \in {"tree", "sequential"} /\ refreshMode \in {"collective", "none"}
        BY <1>1, PeriodCountsAssumption, IntervalsAssumption DEF CostInv, IInv, TypeOK, Tree!TreeTypeOK
    <2>2. RefreshBoundsDepth
        BY <1>1, <2>1 DEF CostInv, SequentialCosts, CollectiveCosts, RefreshBoundsDepth, Smaller
    <2>3. ASSUME TotalsReady, mode = "tree"
          PROVE  /\ Totals.depth = tree_depth[total].d
                 /\ mulCount = 4 * (total - 1) + total
                 /\ refreshCount = 0 /\ interval = 0
        <3>1. pc = "idle" /\ received = total /\ Len(frontier) = 1
            BY <2>3 DEF TotalsReady, Tree!ResultReady
        <3>2. TreeCosts
            BY <1>1, <2>3 DEF CostInv
        <3>3. mulCount = 4 * (total - 1) + total /\ refreshCount = 0
            BY <2>1, <3>1, <3>2 DEF TreeCosts, Closed
        <3>4. ByDepth!Result = ByDepth!reduceRange[<<0, total - 1>>]
            BY <3>1, <3>2, ByDepth!ResultIsIt, PeriodCountsAssumption DEF TreeCosts
        <3>5. ByDepth!Result = Depths(frontier[1])
            <4>1. frontier \in Seq(Segment) /\ 1 \in 1 .. Len(frontier)
                BY <2>1, <3>1 DEF IInv, TypeOK
            <4> QED
                BY <4>1, DepthsOfSegments DEF ByDepth!Result
        <3>6. ByDepth!reduceRange[<<0, total - 1>>] = tree_depth[total]
            <4>1. 0 + total - 1 = total - 1
                BY <2>1
            <4>2. Reduced(0, total) = tree_depth[total]
                BY <2>1, ReducedDepth
            <4> QED
                BY <4>1, <4>2, Zenon DEF Reduced
        <3>7. Totals.depth = Depths(frontier[1]).d
            BY <2>3 DEF Totals, Tree!Result, Depths
        <3>8. interval = 0
            BY <1>1, <2>3 DEF CostInv
        <3> QED
            BY <3>3, <3>4, <3>5, <3>6, <3>7, <3>8
    <2>4. ASSUME TotalsReady, mode = "sequential"
          PROVE  /\ Totals.depth = IF refreshMode = "none" THEN total ELSE Smaller(total, interval + 1)
                 /\ mulCount = 2 * total - 1
                 /\ refreshCount =
                      IF interval = 0 THEN 0
                      ELSE Cardinality({p \in 1 .. total - 2 : p % interval = 0})
        <3>1. received = total /\ Totals = totals /\ SequentialCosts
            BY <1>1, <2>4 DEF TotalsReady, Totals, CostInv
        <3>2. mulCount = 2 * total - 1
            BY <2>1, <3>1 DEF SequentialCosts
        <3>3. CASE refreshMode = "none"
            BY <1>1, <2>4, <3>1, <3>2, <3>3 DEF CostInv, SequentialCosts
        <3>4. CASE refreshMode = "collective"
            <4>1. CollectiveCosts /\ interval # 0
                BY <1>1, <2>4, <3>1, <3>4 DEF CostInv, SequentialCosts
            <4>2. Refreshed = {p \in 1 .. total - 2 : p % interval = 0}
                BY <2>1, <3>1 DEF Refreshed
            <4> QED
                BY <3>1, <3>2, <3>4, <4>1, <4>2 DEF CollectiveCosts
        <3> QED
            BY <2>1, <3>3, <3>4
    <2> QED
        BY <2>1, <2>2, <2>3, <2>4 DEF CostsAsAnalysed
<1> QED
    BY CostsKept, <1>1, PTL
=============================================================================
