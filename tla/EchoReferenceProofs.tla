------------------------ MODULE EchoReferenceProofs ------------------------
(***************************************************************************)
(* The voter-level echo, the log it is recomputed from and the workload    *)
(* drawn for it, proved for every number of voters, choices and periods,   *)
(* and every width of a random word.                                       *)
(***************************************************************************)
EXTENDS MCEchoReference, ArithmeticLemmas

IInv == TypeOK /\ TotalsShareThePeriods

(* Closing a period leaves every voter with a choice of the component or   *)
(* with none: a sentinel other than noSubmission is never stored.          *)
LEMMA StandingIsAChoice ==
    ASSUME TypeOK, NEW sub \in [Voters -> Submission],
           NEW c \in Component, NEW v \in Voters
    PROVE  Standing(sub, c, v) \in Slot(c) \cup {noSubmission}
<1>1. sub[v] \in Submission
    OBVIOUS
<1>2. sub[v][c] \in Choices(Width[c])
    BY <1>1 DEF Submission, SubmissionsOf, Component
<1>3. CASE submissionMask(sub[v]) = 1
    <2>1. sub[v][c] # zeroSubmission
        BY <1>1, <1>3, WidthAssumption
        DEF Submission, SubmissionsOf, submissionMask, Component, Choices, zeroSubmission, noSubmission
    <2> QED
        BY <2>1, <1>2, <1>3 DEF Standing, Choices, Slot
<1>4. CASE submissionMask(sub[v]) # 1
    BY <1>4 DEF Standing, TypeOK
<1> QED
    BY <1>3, <1>4

(* The initial state satisfies the invariant.                              *)
LEMMA InitInv == Init => IInv
<1> SUFFICES ASSUME Init PROVE IInv
    OBVIOUS
<1> USE PeriodsAssumption, WidthAssumption DEF Init
<1>1. TypeOK
    BY DEF TypeOK, Slot, noSubmission
<1>2. TotalsShareThePeriods
    BY DEF TotalsShareThePeriods, Slot
<1> QED
    BY <1>1, <1>2 DEF IInv

(* Closing a period preserves the invariant.                               *)
LEMMA CloseInv ==
    ASSUME IInv, NEW sub \in [Voters -> Submission], ClosePeriod(sub)
    PROVE  IInv'
<1> USE DEF IInv
<1>1. TypeOK'
    <2>1. period' \in 0 .. Periods
        BY PeriodsAssumption DEF TypeOK, ClosePeriod
    <2>2. \A c \in Component, v \in Voters : Standing(sub, c, v) \in Slot(c) \cup {noSubmission}
        BY StandingIsAChoice
    <2>3. \A c \in Component, v \in Voters : Standing(sub, c, v) \in Int
        BY <2>2 DEF Slot, noSubmission
    <2>4. /\ current' \in [Component -> [Voters -> Int]]
          /\ \A c \in Component, v \in Voters : current'[c][v] \in Slot(c) \cup {noSubmission}
        BY <2>2, <2>3 DEF ClosePeriod
    <2>5. /\ DOMAIN totals' = Component
          /\ \A c \in Component : totals'[c] \in [Voters -> [Slot(c) -> Nat]]
        BY DEF ClosePeriod, TypeOK
    <2> QED
        BY <2>1, <2>4, <2>5 DEF TypeOK
<1>2. TotalsShareThePeriods'
    <2> SUFFICES ASSUME NEW c \in Component, NEW v \in Voters,
                        NEW s1 \in Slot(c), NEW s2 \in Slot(c), s1 # s2
                 PROVE  totals'[c][v][s1] + totals'[c][v][s2] <= period'
        BY DEF TotalsShareThePeriods
    <2>1. /\ totals[c][v][s1] \in Nat /\ totals[c][v][s2] \in Nat /\ period \in Nat
          /\ totals[c][v][s1] + totals[c][v][s2] <= period
        BY DEF TypeOK, TotalsShareThePeriods
    <2>2. /\ totals'[c][v][s1] = totals[c][v][s1] + IF Echoes(sub, c, v, s1) THEN 1 ELSE 0
          /\ totals'[c][v][s2] = totals[c][v][s2] + IF Echoes(sub, c, v, s2) THEN 1 ELSE 0
          /\ period' = period + 1
        BY DEF ClosePeriod
    <2>3. ~(Echoes(sub, c, v, s1) /\ Echoes(sub, c, v, s2))
        BY DEF Echoes
    <2> QED
        BY <2>1, <2>2, <2>3
<1> QED
    BY <1>1, <1>2

(* Every reachable state is well typed and shares its periods out.         *)
THEOREM Invariant == Spec => []IInv
<1>1. IInv /\ [Next]_vars => IInv'
    <2> SUFFICES ASSUME IInv, [Next]_vars PROVE IInv'
        OBVIOUS
    <2>1. CASE Next
        BY <2>1, CloseInv DEF Next
    <2>2. CASE UNCHANGED vars
        BY <2>2 DEF vars, IInv, TypeOK, TotalsShareThePeriods
    <2> QED
        BY <2>1, <2>2
<1> QED
    BY InitInv, <1>1, PTL DEF Spec

(* TypeOK: standing choices stay within their component's range.           *)
THEOREM TypeCorrect == Spec => []TypeOK
<1>1. IInv => TypeOK
    BY DEF IInv
<1> QED
    BY Invariant, <1>1, PTL

(* AtMostOneMajority: the assertion of selectedChoice never fails, and the *)
(* per-slot majority indicator is one-hot.                                 *)
THEOREM MajorityIsUnique == Spec => []AtMostOneMajority
<1>1. IInv => AtMostOneMajority
    <2> SUFFICES ASSUME IInv, NEW c \in Component, NEW v \in Voters,
                        NEW s1 \in Slot(c), NEW s2 \in Slot(c),
                        Selected(c, v, s1), Selected(c, v, s2), s1 # s2
                 PROVE  FALSE
        BY DEF AtMostOneMajority
    <2>1. totals[c][v][s1] + totals[c][v][s2] <= Periods
        BY PeriodsAssumption DEF IInv, TypeOK, TotalsShareThePeriods
    <2>2. totals[c][v][s1] > Periods \div 2 /\ totals[c][v][s2] > Periods \div 2
        BY DEF Selected
    <2>3. totals[c][v][s1] \in Nat /\ totals[c][v][s2] \in Nat
        BY DEF IInv, TypeOK
    <2> QED
        BY <2>1, <2>2, <2>3, PeriodsAssumption
<1> QED
    BY Invariant, <1>1, PTL

(* TotalsShareThePeriods, the strengthening the majority argument needs.   *)
THEOREM TotalsShare == Spec => []TotalsShareThePeriods
<1>1. IInv => TotalsShareThePeriods
    BY DEF IInv
<1> QED
    BY Invariant, <1>1, PTL

----------------------------------------------------------------------------
(* The totals against the log.                                             *)

(* The log l has a real submission of voter v in period q.                 *)
Real(l, q, v) == \E c \in Component : l[q][v][c] \in Slot(c)

(* Period q of the log l is the last, up to p, with a real submission of v. *)
IsLatest(l, p, v, q) == q \in 1 .. p /\ Real(l, q, v) /\ \A r \in q + 1 .. p : ~Real(l, r, v)

Latest(l, p, v) ==
    CHOOSE q \in 1 .. p : /\ Real(l, q, v)
                          /\ \A r \in q + 1 .. p : ~Real(l, r, v)

(* What the log l says voter v has standing in component c after period p. *)
ChoiceByLog(l, p, c, v) ==
    IF \E q \in 1 .. p : Real(l, q, v) THEN l[Latest(l, p, v)][v][c] ELSE noSubmission

CurrentIsLatest ==
    \A c \in Component, v \in Voters : current[c][v] = ChoiceByLog(log, period, c, v)

TotalsAreOfTheLog ==
    \A c \in Component, v \in Voters : \A s \in Slot(c) :
        totals[c][v][s] = Cardinality({p \in 1 .. period : ChoiceByLog(log, p, c, v) = s})

LogInv ==
    /\ IInv
    /\ totals = [c \in Component |-> totals[c]]
    /\ log \in Seq([Voters -> Submission]) /\ Len(log) = period
    /\ CurrentIsLatest /\ TotalsAreOfTheLog

(* A submission is real when its mask is one.                              *)
LEMMA MaskOfReal ==
    ASSUME NEW s \in Submission
    PROVE  submissionMask(s) = 1 <=> \E c \in Component : s[c] \in Slot(c)
<1>1. ASSUME NEW c \in Component
      PROVE  (s[c] >= 0) <=> (s[c] \in Slot(c))
    <2>1. s[c] \in Choices(Width[c])
        BY DEF Submission, SubmissionsOf, Component
    <2>2. Width[c] \in Nat
        BY WidthAssumption
    <2> QED
        BY <2>1, <2>2 DEF Choices, Slot, zeroSubmission, noSubmission
<1> QED
    BY <1>1 DEF submissionMask

(* A latest number with a property there is, once there is any.            *)
LEMMA LatestExists ==
    ASSUME NEW A, NEW p \in Nat, \E q \in 1 .. p : q \in A
    PROVE  \E q \in 1 .. p : q \in A /\ \A r \in q + 1 .. p : r \notin A
<1> DEFINE Has(k) == \E q \in 1 .. k : q \in A
           Last(k) == \E q \in 1 .. k : q \in A /\ \A r \in q + 1 .. k : r \notin A
           W == {k \in Nat : Has(k) => Last(k)}
<1>1. 0 \in W
    OBVIOUS
<1>2. ASSUME NEW k \in Nat, k \in W
      PROVE  k + 1 \in W
    <2> SUFFICES ASSUME Has(k + 1) PROVE Last(k + 1)
        OBVIOUS
    <2>1. CASE k + 1 \in A
        BY <2>1
    <2>2. CASE k + 1 \notin A
        <3>1. Has(k)
            BY <2>2
        <3>2. PICK q \in 1 .. k : q \in A /\ \A r \in q + 1 .. k : r \notin A
            BY <1>2, <3>1
        <3>3. \A r \in q + 1 .. k + 1 : r \in q + 1 .. k \/ r = k + 1
            OBVIOUS
        <3> QED
            BY <2>2, <3>2, <3>3
    <2> QED
        BY <2>1, <2>2
<1> HIDE DEF W
<1>3. p \in W
    BY <1>1, <1>2, NumberInduction
<1> QED
    BY <1>3 DEF W

(* Latest names such a period.                                             *)
LEMMA LatestIsReal ==
    ASSUME NEW l, NEW p \in Nat, NEW v, \E q \in 1 .. p : Real(l, q, v)
    PROVE  IsLatest(l, p, v, Latest(l, p, v))
<1> DEFINE A == {q \in 1 .. p : Real(l, q, v)}
<1>1. \E q \in 1 .. p : q \in A
    OBVIOUS
<1>2. PICK q \in 1 .. p : q \in A /\ \A r \in q + 1 .. p : r \notin A
    BY <1>1, LatestExists
<1>3. \E x \in 1 .. p : Real(l, x, v) /\ \A r \in x + 1 .. p : ~Real(l, r, v)
    BY <1>2
<1> QED
    BY <1>3 DEF Latest, IsLatest

(* The latest one is the only one after which there is none.               *)
LEMMA LatestIs ==
    ASSUME NEW l, NEW p \in Nat, NEW v, NEW q, IsLatest(l, p, v, q)
    PROVE  Latest(l, p, v) = q
<1> DEFINE x == Latest(l, p, v)
<1>1. IsLatest(l, p, v, x)
    BY LatestIsReal DEF IsLatest
<1> HIDE DEF x
<1>2. ~(x < q) /\ ~(q < x)
    BY <1>1 DEF IsLatest
<1>3. x = q
    BY <1>1, <1>2 DEF IsLatest
<1> QED
    BY <1>3 DEF x

Agree(l, m, p) == \A q \in 1 .. p : l[q] = m[q]

(* Two logs that agree up to period p say the same of it.                  *)
LEMMA SameChoiceByLog ==
    ASSUME NEW l, NEW m, NEW p \in Nat, Agree(l, m, p), NEW c, NEW v
    PROVE  ChoiceByLog(l, p, c, v) = ChoiceByLog(m, p, c, v)
<1>1. \A q \in 1 .. p : l[q] = m[q] /\ (Real(l, q, v) <=> Real(m, q, v))
    BY DEF Real, Agree
<1>2. CASE \E q \in 1 .. p : Real(l, q, v)
    <2> DEFINE x == Latest(l, p, v)
    <2>1. IsLatest(l, p, v, x)
        BY <1>2, LatestIsReal
    <2> HIDE DEF x
    <2>2. IsLatest(m, p, v, x)
        <3>1. \A r \in x + 1 .. p : r \in 1 .. p
            BY <2>1 DEF IsLatest
        <3> QED
            BY <1>1, <2>1, <3>1 DEF IsLatest
    <2>3. Latest(m, p, v) = x
        BY <2>2, LatestIs
    <2>4. x \in 1 .. p
        BY <2>1 DEF IsLatest
    <2> QED
        BY <1>1, <1>2, <2>3, <2>4 DEF ChoiceByLog, x
<1>3. CASE ~\E q \in 1 .. p : Real(l, q, v)
    BY <1>1, <1>3 DEF ChoiceByLog
<1> QED
    BY <1>2, <1>3

(* The log after one more period: its submission stands if it is real, and *)
(* what stood before stands otherwise.                                     *)
LEMMA ChoiceAfterAppend ==
    ASSUME NEW l \in Seq([Voters -> Submission]), NEW sub \in [Voters -> Submission],
           NEW c \in Component, NEW v \in Voters
    PROVE  ChoiceByLog(Append(l, sub), Len(l) + 1, c, v) =
               IF submissionMask(sub[v]) = 1 THEN sub[v][c] ELSE ChoiceByLog(l, Len(l), c, v)
<1> DEFINE k == Len(l)
           m == Append(l, sub)
<1>1. /\ k \in Nat /\ m[k + 1] = sub
      /\ Agree(m, l, k)
    BY DEF Agree
<1> HIDE DEF m, k
<1>2. Real(m, k + 1, v) <=> submissionMask(sub[v]) = 1
    <2>1. sub[v] \in Submission
        OBVIOUS
    <2> QED
        BY <1>1, <2>1, MaskOfReal DEF Real
<1>3. CASE submissionMask(sub[v]) = 1
    <2>1. IsLatest(m, k + 1, v, k + 1)
        BY <1>1, <1>2, <1>3 DEF IsLatest
    <2>2. Latest(m, k + 1, v) = k + 1
        BY <1>1, <2>1, LatestIs
    <2>3. \E q \in 1 .. k + 1 : Real(m, q, v)
        BY <1>1, <1>2, <1>3
    <2> QED
        BY <1>1, <1>3, <2>2, <2>3 DEF ChoiceByLog, m, k
<1>4. CASE submissionMask(sub[v]) # 1
    <2>1. ChoiceByLog(m, k, c, v) = ChoiceByLog(l, k, c, v)
        BY <1>1, SameChoiceByLog
    <2>2. ChoiceByLog(m, k + 1, c, v) = ChoiceByLog(m, k, c, v)
        <3>1. (\E q \in 1 .. k + 1 : Real(m, q, v)) <=> (\E q \in 1 .. k : Real(m, q, v))
            BY <1>1, <1>2, <1>4
        <3>2. CASE \E q \in 1 .. k : Real(m, q, v)
            <4> DEFINE x == Latest(m, k, v)
            <4>1. IsLatest(m, k, v, x)
                BY <1>1, <3>2, LatestIsReal
            <4> HIDE DEF x
            <4>2. IsLatest(m, k + 1, v, x)
                BY <1>1, <1>2, <1>4, <4>1 DEF IsLatest
            <4>3. Latest(m, k + 1, v) = x
                BY <1>1, <4>2, LatestIs
            <4> QED
                BY <3>1, <3>2, <4>3 DEF ChoiceByLog, x
        <3>3. CASE ~\E q \in 1 .. k : Real(m, q, v)
            BY <3>1, <3>3 DEF ChoiceByLog
        <3> QED
            BY <3>2, <3>3
    <2> QED
        BY <1>4, <2>1, <2>2 DEF m, k
<1> QED
    BY <1>3, <1>4

(* Closing a period and logging its submissions preserves the invariant.   *)
LEMMA CloseLogs ==
    ASSUME LogInv, NEW sub \in [Voters -> Submission],
           ClosePeriod(sub), log' = Append(log, sub)
    PROVE  LogInv'
<1> USE DEF LogInv
<1>1. IInv'
    BY CloseInv
<1>2. /\ log' \in Seq([Voters -> Submission]) /\ Len(log') = period'
      /\ period' = period + 1 /\ period \in Nat
      /\ \A p \in 1 .. period : log'[p] = log[p]
    BY PeriodsAssumption DEF ClosePeriod, IInv, TypeOK
<1>3. ASSUME NEW c \in Component, NEW v \in Voters
      PROVE  /\ ChoiceByLog(log', period + 1, c, v) = Standing(sub, c, v)
             /\ \A p \in 1 .. period : ChoiceByLog(log', p, c, v) = ChoiceByLog(log, p, c, v)
    <2>1. ChoiceByLog(log', period + 1, c, v) =
              IF submissionMask(sub[v]) = 1 THEN sub[v][c] ELSE ChoiceByLog(log, period, c, v)
        BY ChoiceAfterAppend
    <2>2. ASSUME NEW p \in 1 .. period
          PROVE  ChoiceByLog(log', p, c, v) = ChoiceByLog(log, p, c, v)
        <3>1. p \in Nat /\ Agree(log', log, p)
            BY <1>2 DEF Agree
        <3> QED
            BY <3>1, SameChoiceByLog
    <2> QED
        BY <2>1, <2>2 DEF Standing, CurrentIsLatest
<1>4. CurrentIsLatest'
    BY <1>2, <1>3 DEF ClosePeriod, CurrentIsLatest
<1>5. TotalsAreOfTheLog'
    <2> SUFFICES ASSUME NEW c \in Component, NEW v \in Voters, NEW s \in Slot(c)
                 PROVE  totals'[c][v][s] =
                            Cardinality({p \in 1 .. period + 1 : ChoiceByLog(log', p, c, v) = s})
        BY <1>2 DEF TotalsAreOfTheLog
    <2> DEFINE P == {p \in 1 .. period : ChoiceByLog(log, p, c, v) = s}
               Q == {p \in 1 .. period + 1 : ChoiceByLog(log', p, c, v) = s}
    <2>1. totals'[c][v][s] = totals[c][v][s] + IF Echoes(sub, c, v, s) THEN 1 ELSE 0
        BY DEF ClosePeriod
    <2>2. totals[c][v][s] = Cardinality(P) /\ totals[c][v][s] \in Nat
        BY DEF TotalsAreOfTheLog, IInv, TypeOK
    <2>3. IsFiniteSet(P) /\ period + 1 \notin P
        <3>1. IsFiniteSet(1 .. period)
            BY <1>2, FS_Interval
        <3> QED
            BY <1>2, <3>1, FS_Subset
    <2>4. Q = P \cup (IF Echoes(sub, c, v, s) THEN {period + 1} ELSE {})
        <3>1. \A p \in 1 .. period + 1 : p \in 1 .. period \/ p = period + 1
            BY <1>2
        <3>2. \A p \in 1 .. period : p \in 1 .. period + 1
            BY <1>2
        <3>3. period + 1 \in 1 .. period + 1
            BY <1>2
        <3>4. ChoiceByLog(log', period + 1, c, v) = s <=> Echoes(sub, c, v, s)
            BY <1>3 DEF Echoes
        <3>5. \A p \in 1 .. period : ChoiceByLog(log', p, c, v) = ChoiceByLog(log, p, c, v)
            BY <1>3
        <3> QED
            BY <3>1, <3>2, <3>3, <3>4, <3>5
    <2> HIDE DEF P, Q
    <2>5. Cardinality(P \cup {period + 1}) = Cardinality(P) + 1
        BY <2>3, FS_AddElement
    <2>6. CASE Echoes(sub, c, v, s)
        <3>1. Q = P \cup {period + 1}
            BY <2>4, <2>6
        <3> QED
            BY <2>1, <2>2, <2>5, <2>6, <3>1 DEF Q
    <2>7. CASE ~Echoes(sub, c, v, s)
        <3>1. Q = P
            BY <2>4, <2>7
        <3>2. totals'[c][v][s] = totals[c][v][s]
            BY <2>1, <2>2, <2>7
        <3> QED
            BY <2>2, <3>1, <3>2 DEF Q
    <2> QED
        BY <2>6, <2>7
<1>6. totals' = [c \in Component |-> totals'[c]]
    BY DEF ClosePeriod
<1> QED
    BY <1>1, <1>2, <1>4, <1>5, <1>6

(* The submissions that are logged are submissions.                        *)
LEMMA ByHandAreSubmissions ==
    ASSUME NEW s0 \in Submission, NEW s1 \in Few
    PROVE  [v \in Voters |-> IF v = 0 THEN s0 ELSE IF v = 1 THEN s1 ELSE Silent]
               \in [Voters -> Submission]
<1>1. \A x \in {noSubmission, zeroSubmission, 0} : Both(x) \in Submission
    <2> SUFFICES ASSUME NEW x \in {noSubmission, zeroSubmission, 0}
                 PROVE  Both(x) \in Submission
        OBVIOUS
    <2>1. \A c \in Component : 0 \in 0 .. Width[c] - 1
        BY WidthAssumption
    <2>2. \A c \in Component : x \in Choices(Width[c])
        BY <2>1 DEF Choices
    <2> QED
        BY <2>2 DEF Submission, SubmissionsOf, Both, Component
<1>2. Few \subseteq Submission /\ Silent \in Submission
    BY <1>1 DEF Few, Silent
<1> QED
    BY <1>2

----------------------------------------------------------------------------
(* Drawing and draining the rows of one component.                         *)

(* In how many periods of the schedule ch voter v makes choice s.          *)
Times(ch, v, s) == Cardinality({p \in 1 .. Len(ch) : ch[p][v] = s})

(* A row of counts: all periods are shared out, and one choice has most.   *)
FullRow(c, row) ==
    SumOver(row, Slot(c)) = Periods /\ \E s \in Slot(c) : row[s] >= threshold

(* What is left of the counts cnt, beside the schedule ch made so far.     *)
Draining(c, cnt, rem, ch) ==
    /\ rem \in [Voters -> [Slot(c) -> Nat]]
    /\ Len(ch) <= Periods
    /\ \A p \in 1 .. Len(ch), v \in Voters : ch[p][v] \in Slot(c)
    /\ \A v \in Voters : SumOver(rem[v], Slot(c)) = Periods - Len(ch)
    /\ \A v \in Voters, s \in Slot(c) : rem[v][s] + Times(ch, v, s) = cnt[v][s]

(* A schedule that uses the counts cnt up.                                 *)
ScheduleOf(c, cnt, ch) ==
    /\ Len(ch) = Periods
    /\ \A p \in 1 .. Periods, v \in Voters : ch[p][v] \in Slot(c)
    /\ \A v \in Voters, s \in Slot(c) : Times(ch, v, s) = cnt[v][s]

Columns(c) == [Voters -> Slot(c) \cup {noSubmission}]

(* The slots of a component are finitely many, and none is a sentinel.     *)
LEMMA SlotFinite ==
    ASSUME NEW c \in Component
    PROVE  /\ IsFiniteSet(Slot(c)) /\ Slot(c) \subseteq Nat
           /\ Width[c] \in Nat \ {0} /\ noSubmission \notin Slot(c)
<1>1. Width[c] \in Nat \ {0}
    BY WidthAssumption
<1>2. IsFiniteSet(0 .. Width[c] - 1)
    BY <1>1, FS_Interval
<1> QED
    BY <1>1, <1>2 DEF Slot, noSubmission

(* A set of natural numbers has a least one.                               *)
LEMMA LeastElement ==
    ASSUME NEW S, S \subseteq Nat, S # {}
    PROVE  Sets!Min(S) \in S
<1> DEFINE Has == \E x \in S : \A y \in S : x <= y
           W == {k \in Nat : (\E x \in S : x <= k) => Has}
<1>1. 0 \in W
    OBVIOUS
<1>2. ASSUME NEW k \in Nat, k \in W
      PROVE  k + 1 \in W
    <2> SUFFICES ASSUME NEW x \in S, x <= k + 1 PROVE Has
        OBVIOUS
    <2>1. CASE \E y \in S : y <= k
        BY <1>2, <2>1
    <2>2. CASE ~\E y \in S : y <= k
        BY <2>2
    <2> QED
        BY <2>1, <2>2
<1>3. PICK k \in S : TRUE
    OBVIOUS
<1>4. k \in Nat /\ k <= k
    BY <1>3
<1> HIDE DEF W
<1>5. k \in W
    BY <1>1, <1>2, <1>4, NumberInduction
<1>6. Has
    BY <1>3, <1>4, <1>5 DEF W
<1> QED
    BY <1>6 DEF Sets!Min

(* A row with something left is drained by one, in a column that counts.   *)
LEMMA DrainARow ==
    ASSUME NEW c \in Component, NEW row \in [Slot(c) -> Nat], SumOver(row, Slot(c)) > 0
    PROVE  /\ drainOneHot(row) \in Slot(c) /\ drainOneHot(row) # noSubmission
           /\ row[drainOneHot(row)] > 0
           /\ SumOver([row EXCEPT ![drainOneHot(row)] = @ - 1], Slot(c))
                  = SumOver(row, Slot(c)) - 1
<1> DEFINE left == {s \in DOMAIN row : row[s] > 0}
           S == Slot(c)
<1>1. left # {}
    <2> SUFFICES ASSUME left = {} PROVE FALSE
        OBVIOUS
    <2>1. \A s \in S : row[s] = 0
        OBVIOUS
    <2>2. SumOver(row, S) = 0
        BY <2>1, SlotFinite, SumOfZeros
    <2> QED
        BY <2>2
<1> DEFINE x == drainOneHot(row)
<1>2. x \in left
    <2>1. left \subseteq Nat
        BY SlotFinite
    <2>2. Sets!Min(left) \in left
        BY <1>1, <2>1, LeastElement
    <2>3. x = Sets!Min(left)
        BY <1>1 DEF drainOneHot
    <2> QED
        BY <2>2, <2>3
<1>3. x \in S /\ row[x] > 0
    BY <1>2
<1> HIDE DEF x, left
<1> DEFINE less == [row EXCEPT ![x] = @ - 1]
<1>4. /\ \A s \in S : row[s] \in Int /\ less[s] \in Int
      /\ \A s \in S \ {x} : less[s] = row[s]
      /\ less[x] = row[x] - 1
    BY <1>3
<1> HIDE DEF less
<1>5. IsFiniteSet(S) /\ IsFiniteSet(S \ {x})
    BY SlotFinite, FS_RemoveElement
<1>6. /\ SumOver(row, S) = row[x] + SumOver(row, S \ {x})
      /\ SumOver(less, S) = less[x] + SumOver(less, S \ {x})
    BY <1>3, <1>4, <1>5, SumRemove
<1>7. /\ SumOver(less, S \ {x}) = SumOver(row, S \ {x})
      /\ SumOver(row, S \ {x}) \in Int
    BY <1>4, <1>5, SumSame, SumInteger
<1>8. SumOver(less, S) = SumOver(row, S) - 1
    BY <1>3, <1>4, <1>6, <1>7
<1> QED
    BY <1>3, <1>8, SlotFinite DEF x, less

(* One more period is one more time for the choice made in it.             *)
LEMMA TimesAfterAppend ==
    ASSUME NEW T, NEW ch \in Seq(T), NEW e \in T, NEW v, NEW s
    PROVE  /\ Times(ch, v, s) \in Nat
           /\ Times(Append(ch, e), v, s) = Times(ch, v, s) + IF e[v] = s THEN 1 ELSE 0
<1> DEFINE k == Len(ch)
           m == Append(ch, e)
           P == {p \in 1 .. k : ch[p][v] = s}
           Q == {p \in 1 .. k + 1 : m[p][v] = s}
<1>1. /\ k \in Nat /\ Len(m) = k + 1 /\ m[k + 1] = e
      /\ \A p \in 1 .. k : m[p] = ch[p]
    OBVIOUS
<1>2. Times(ch, v, s) = Cardinality(P) /\ Times(m, v, s) = Cardinality(Q)
    BY <1>1 DEF Times
<1> HIDE DEF m, k
<1>3. IsFiniteSet(P) /\ k + 1 \notin P /\ Cardinality(P) \in Nat
    <2>1. IsFiniteSet(1 .. k)
        BY <1>1, FS_Interval
    <2>2. IsFiniteSet(P) /\ k + 1 \notin P
        BY <1>1, <2>1, FS_Subset
    <2> QED
        BY <2>2, FS_CardinalityType
<1>4. CASE e[v] = s
    <2>1. Q = P \cup {k + 1}
        BY <1>1, <1>4
    <2>2. Cardinality(P \cup {k + 1}) = Cardinality(P) + 1
        BY <1>3, FS_AddElement
    <2> QED
        BY <1>2, <1>3, <1>4, <2>1, <2>2 DEF m
<1>5. CASE e[v] # s
    <2>1. Q = P
        BY <1>1, <1>5
    <2>2. Cardinality(P) + 0 = Cardinality(P)
        BY <1>3
    <2> QED
        BY <1>2, <1>3, <1>5, <2>1, <2>2 DEF m
<1> QED
    BY <1>4, <1>5

(* The words of one draw.                                                  *)
LEMMA Words ==
    /\ n \in Nat \ {0} /\ MaxWord \in Nat
    /\ \A m \in Nat \ {0} : randUint64n(m) \subseteq 0 .. m - 1
<1>1. n \in Nat
    BY DimensionsAssumption, FS_CardinalityType DEF n
<1>2. Width["delegation"] \in Nat \ {0}
    BY WidthAssumption DEF Component
<1>3. n \in Nat \ {0} /\ MaxWord \in Nat
    BY <1>1, <1>2, DimensionsAssumption DEF MaxWord
<1>4. ASSUME NEW m \in Nat \ {0}
      PROVE  randUint64n(m) \subseteq 0 .. m - 1
    <2> SUFFICES ASSUME NEW x \in AcceptedWords(m) PROVE x % m \in 0 .. m - 1
        BY DEF randUint64n
    <2>1. x \in Nat
        BY DEF AcceptedWords
    <2> QED
        BY <2>1
<1> QED
    BY <1>3, <1>4

(* The majority threshold is more than half of the periods.                *)
LEMMA ThresholdBounds ==
    threshold \in Nat /\ threshold <= Periods /\ threshold > Periods \div 2
<1>1. Periods \in Nat \ {0} /\ Periods % 2 = 1
    BY PeriodsAssumption, DimensionsAssumption
<1> QED
    BY <1>1 DEF threshold

(* A row as it is drawn is full.                                           *)
LEMMA DrawnRowIsFull ==
    ASSUME NEW c \in Component, NEW majorityCol \in randUint64n(Width[c]), NEW extra \in Spread(c),
           NEW row, row = [s \in Slot(c) |->
                              extra[s] + IF s = majorityCol THEN threshold ELSE 0]
    PROVE  row \in [Slot(c) -> Nat] /\ FullRow(c, row)
<1> DEFINE S == Slot(c)
           one == [s \in S |-> IF s = majorityCol THEN threshold ELSE 0]
<1>1. majorityCol \in S
    BY Words, SlotFinite DEF Slot
<1>2. /\ \A s \in S : extra[s] \in Nat
      /\ SumOver(extra, S) = Periods - threshold
    <2>1. extra \in [S -> 0 .. Periods - threshold]
        BY DEF Spread
    <2>2. SumOver(extra, S) = Periods - threshold
        BY DEF Spread, SumOver, Sets!MapThenSumSet, Sets!MapThenFoldSet
    <2> QED
        BY <2>1, <2>2
<1>3. /\ \A s \in S : one[s] \in Nat
      /\ \A s \in S \ {majorityCol} : one[s] = 0
      /\ one[majorityCol] = threshold
    BY <1>1, ThresholdBounds
<1>4. \A s \in S : row[s] = extra[s] + one[s]
    OBVIOUS
<1>5. DOMAIN row = S /\ row = [s \in S |-> row[s]]
    OBVIOUS
<1> HIDE DEF one
<1>6. IsFiniteSet(S)
    BY SlotFinite
<1>7. SumOver(one, S) = threshold
    BY <1>1, <1>3, <1>6, ThresholdBounds, SumOfOne
<1>8. SumOver(row, S) = SumOver(extra, S) + SumOver(one, S)
    BY <1>2, <1>3, <1>4, <1>6, SumPlus
<1>9. SumOver(row, S) = Periods
    BY <1>2, <1>7, <1>8, ThresholdBounds, PeriodsAssumption
<1>10. \A s \in S : row[s] \in Nat
    BY <1>2, <1>3, <1>4
<1>11. row[majorityCol] >= threshold
    BY <1>1, <1>2, <1>3, <1>4, ThresholdBounds
<1> QED
    BY <1>1, <1>5, <1>9, <1>10, <1>11 DEF FullRow

(* One turn of the loop of periodicChoicesFromCounts.                      *)
LEMMA DrainStep ==
    ASSUME NEW c \in Component, NEW cnt, NEW rem, NEW ch \in Seq(Columns(c)),
           Draining(c, cnt, rem, ch), Len(ch) < Periods,
           NEW e, e = [v \in Voters |-> drainOneHot(rem[v])],
           NEW less, less = [v \in Voters |->
                                IF drainOneHot(rem[v]) = noSubmission THEN rem[v]
                                ELSE [rem[v] EXCEPT ![drainOneHot(rem[v])] = @ - 1]]
    PROVE  /\ e \in Columns(c) /\ Append(ch, e) \in Seq(Columns(c)) /\ Append(ch, e) # <<>>
           /\ Draining(c, cnt, less, Append(ch, e))
<1> DEFINE k == Len(ch)
           m == Append(ch, e)
<1>1. k \in Nat /\ Periods \in Nat
    BY PeriodsAssumption
<1>2. ASSUME NEW v \in Voters
      PROVE  /\ e[v] \in Slot(c) /\ rem[v][e[v]] > 0 /\ rem[v] \in [Slot(c) -> Nat]
             /\ less[v] = [rem[v] EXCEPT ![e[v]] = @ - 1]
             /\ SumOver(less[v], Slot(c)) = Periods - (k + 1)
    <2>1. rem[v] \in [Slot(c) -> Nat]
        BY DEF Draining
    <2>2. SumOver(rem[v], Slot(c)) = Periods - k
        BY DEF Draining
    <2>3. SumOver(rem[v], Slot(c)) > 0
        BY <1>1, <2>2
    <2>4. e[v] = drainOneHot(rem[v])
        OBVIOUS
    <2>5. /\ e[v] \in Slot(c) /\ e[v] # noSubmission /\ rem[v][e[v]] > 0
          /\ SumOver([rem[v] EXCEPT ![e[v]] = @ - 1], Slot(c)) = SumOver(rem[v], Slot(c)) - 1
        BY <2>1, <2>3, <2>4, DrainARow
    <2>6. less[v] = [rem[v] EXCEPT ![e[v]] = @ - 1]
        BY <2>4, <2>5
    <2>7. SumOver(less[v], Slot(c)) = Periods - (k + 1)
        BY <1>1, <2>2, <2>5, <2>6
    <2> QED
        BY <2>1, <2>5, <2>6, <2>7
<1>3. e \in Columns(c)
    BY <1>2 DEF Columns
<1>4. /\ m \in Seq(Columns(c)) /\ Len(m) = k + 1 /\ m[k + 1] = e
      /\ \A p \in 1 .. k : m[p] = ch[p]
    BY <1>3
<1>5. m # <<>>
    BY <1>1, <1>4
<1>6. less \in [Voters -> [Slot(c) -> Nat]]
    <2>1. ASSUME NEW v \in Voters
          PROVE  less[v] \in [Slot(c) -> Nat]
        <3>1. e[v] \in Slot(c) /\ rem[v] \in [Slot(c) -> Nat] /\ rem[v][e[v]] > 0
            BY <1>2
        <3>3. rem[v][e[v]] - 1 \in Nat
            BY <3>1
        <3>2. less[v] = [rem[v] EXCEPT ![e[v]] = @ - 1]
            BY <1>2
        <3> QED
            BY <3>1, <3>2, <3>3
    <2>2. less = [v \in Voters |-> less[v]]
        OBVIOUS
    <2> QED
        BY <2>1, <2>2
<1>7. \A p \in 1 .. k + 1, v \in Voters : m[p][v] \in Slot(c)
    <2>1. \A p \in 1 .. k + 1 : p \in 1 .. k \/ p = k + 1
        BY <1>1
    <2>2. \A p \in 1 .. k, v \in Voters : ch[p][v] \in Slot(c)
        BY DEF Draining
    <2>3. ASSUME NEW p \in 1 .. k + 1, NEW v \in Voters
          PROVE  m[p][v] \in Slot(c)
        <3>1. CASE p \in 1 .. k
            BY <1>2, <1>4, <2>2, <3>1
        <3>2. CASE p = k + 1
            BY <1>2, <1>4, <3>2
        <3> QED
            BY <2>1, <3>1, <3>2
    <2> QED
        BY <2>3
<1>8. ASSUME NEW v \in Voters, NEW s \in Slot(c)
      PROVE  less[v][s] + Times(m, v, s) = cnt[v][s]
    <2>1. /\ Times(ch, v, s) \in Nat
          /\ Times(m, v, s) = Times(ch, v, s) + IF e[v] = s THEN 1 ELSE 0
        BY <1>3, TimesAfterAppend
    <2>2. rem[v][s] + Times(ch, v, s) = cnt[v][s] /\ rem[v][s] \in Nat
        BY DEF Draining
    <2>3. less[v][s] = IF e[v] = s THEN rem[v][s] - 1 ELSE rem[v][s]
        <3>1. e[v] \in Slot(c) /\ rem[v] \in [Slot(c) -> Nat]
            BY <1>2
        <3>2. less[v] = [rem[v] EXCEPT ![e[v]] = @ - 1]
            BY <1>2
        <3> QED
            BY <3>1, <3>2
    <2> HIDE DEF m
    <2>4. CASE e[v] = s
        <3>1. less[v][s] = rem[v][s] - 1 /\ Times(m, v, s) = Times(ch, v, s) + 1
            BY <2>1, <2>3, <2>4
        <3> QED
            BY <2>1, <2>2, <3>1
    <2>5. CASE e[v] # s
        <3>1. less[v][s] = rem[v][s] /\ Times(m, v, s) = Times(ch, v, s)
            BY <2>1, <2>3, <2>5
        <3> QED
            BY <2>2, <3>1
    <2> QED
        BY <2>4, <2>5
<1> HIDE DEF m
<1>9. Draining(c, cnt, less, m)
    <2>1. \A v \in Voters : SumOver(less[v], Slot(c)) = Periods - (k + 1)
        BY <1>2
    <2>2. k + 1 <= Periods
        BY <1>1
    <2> QED
        BY <1>4, <1>6, <1>7, <1>8, <2>1, <2>2 DEF Draining
<1> QED
    BY <1>3, <1>4, <1>5, <1>9 DEF m

(* After the last turn nothing is left, and the schedule uses all up.      *)
LEMMA DrainEnds ==
    ASSUME NEW c \in Component, NEW cnt, NEW rem, NEW ch \in Seq(Columns(c)),
           Draining(c, cnt, rem, ch), Len(ch) = Periods
    PROVE  /\ \A v \in Voters, s \in Slot(c) : rem[v][s] = 0
           /\ ScheduleOf(c, cnt, ch)
<1>1. ASSUME NEW v \in Voters, NEW s \in Slot(c)
      PROVE  rem[v][s] = 0 /\ Times(ch, v, s) = cnt[v][s]
    <2>1. rem[v] \in [Slot(c) -> Nat] /\ SumOver(rem[v], Slot(c)) = Periods - Len(ch)
        BY DEF Draining
    <2>2. SumOver(rem[v], Slot(c)) = 0
        BY <2>1, PeriodsAssumption
    <2>3. \A x \in Slot(c) : rem[v][x] \in Nat
        BY <2>1
    <2>4. rem[v][s] = 0
        BY <2>2, <2>3, SlotFinite, SumOfNaturals
    <2>5. Times(ch, v, s) \in Nat
        <3>1. IsFiniteSet(1 .. Len(ch))
            BY FS_Interval
        <3>2. IsFiniteSet({p \in 1 .. Len(ch) : ch[p][v] = s})
            BY <3>1, FS_Subset
        <3> QED
            BY <3>2, FS_CardinalityType DEF Times
    <2>6. rem[v][s] + Times(ch, v, s) = cnt[v][s]
        BY DEF Draining
    <2>7. 0 + Times(ch, v, s) = Times(ch, v, s)
        BY <2>5
    <2> QED
        BY <2>4, <2>6, <2>7
<1> QED
    BY <1>1 DEF Draining, ScheduleOf

(* Nothing is drained yet.                                                 *)
LEMMA DrainBegins ==
    ASSUME NEW c \in Component, NEW cnt \in [Voters -> [Slot(c) -> Nat]],
           \A v \in Voters : FullRow(c, cnt[v])
    PROVE  Draining(c, cnt, cnt, <<>>) /\ cnt # <<>>
<1>1. ASSUME NEW v \in Voters, NEW s \in Slot(c)
      PROVE  cnt[v][s] + Times(<<>>, v, s) = cnt[v][s]
    <2>1. {p \in 1 .. Len(<<>>) : <<>>[p][v] = s} = {}
        OBVIOUS
    <2>2. Times(<<>>, v, s) = 0
        BY <2>1, FS_EmptySet DEF Times
    <2>3. cnt[v][s] \in Nat
        OBVIOUS
    <2> QED
        BY <2>2, <2>3
<1>2. \A v \in Voters : SumOver(cnt[v], Slot(c)) = Periods - 0
    BY PeriodsAssumption DEF FullRow
<1>3. cnt # <<>>
    <2>1. 0 \in Voters
        BY Words, DimensionsAssumption
    <2> QED
        BY <2>1
<1>4. Len(<<>>) = 0 /\ 0 <= Periods /\ 1 .. 0 = {}
    BY PeriodsAssumption
<1> QED
    BY <1>1, <1>2, <1>3, <1>4 DEF Draining

----------------------------------------------------------------------------
(* The workload as a whole.                                                *)

Stages == {"byHand", "delegates", "candidate", "delegation", "restrict", "ready"}

Pending(c) == stage \in {"byHand", "delegates"} \/ (stage = "candidate" /\ c = "delegation")
Past(c) == stage \in {"restrict", "ready"} \/ (stage = "delegation" /\ c = "candidate")

WorkTyped ==
    /\ stage \in Stages /\ i \in 0 .. n
    /\ samples \in 0 .. n /\ (stage # "ready" => samples = 0)
    /\ counts = [c \in Component |-> counts[c]] /\ DOMAIN choices = Component
    /\ \A c \in Component : /\ counts[c] \in [Voters -> [Slot(c) -> Nat]]
                            /\ choices[c] \in Seq(Columns(c))

(* The shuffle so far: a permutation whose start are the delegates.        *)
Shuffling ==
    /\ i <= Width["delegation"] /\ remaining = <<>>
    /\ perm \in [Voters -> Voters]
    /\ \A u, v \in Voters : perm[u] = perm[v] => u = v
    /\ D \in [Voters -> [Slot("delegation") -> {0, 1}]]
    /\ \A v \in Voters, j \in Slot("delegation") : D[v][j] = 1 <=> j < i /\ perm[j] = v

(* The first k voters' rows of component c are drawn.                      *)
RowsDrawn(c, k) == \A v \in Voters : v < k => FullRow(c, counts[c][v])

SampledOnly(c, ch, k) ==
    \A p \in 1 .. Periods, v \in Voters :
        ch[p][v] \in IF p = 1 /\ v < k THEN Slot(c) ELSE {noSubmission}

Current(c) ==
    /\ RowsDrawn(c, i)
    /\ remaining = <<>> => choices[c] = <<>>
    /\ remaining # <<>> => i = n /\ Draining(c, counts[c], remaining, choices[c])

Finished(c) ==
    /\ RowsDrawn(c, n) /\ Len(choices[c]) = Periods
    /\ samples = 0 => ScheduleOf(c, counts[c], choices[c])
    /\ samples # 0 => SampledOnly(c, choices[c], samples)

WorkInv ==
    /\ WorkTyped
    /\ stage = "delegates" => Shuffling
    /\ \A c \in Component : /\ Pending(c) => choices[c] = <<>>
                            /\ stage = c => Current(c)
                            /\ Past(c) => Finished(c)

(* The initial states: nothing is drawn.                                   *)
LEMMA NothingDrawnYet ==
    ASSUME NothingDrawn, stage \in {"byHand", "delegates"}
    PROVE  WorkInv
<1>1. WorkTyped
    <2>1. \A c \in Component : counts[c] \in [Voters -> [Slot(c) -> Nat]]
        BY DEF NothingDrawn, NoCounts
    <2>2. \A c \in Component : choices[c] \in Seq(Columns(c))
        <3>1. \A c \in Component : choices[c] = <<>>
            BY DEF NothingDrawn
        <3>2. \A c \in Component : <<>> \in Seq(Columns(c))
            OBVIOUS
        <3> QED
            BY <3>1, <3>2
    <2>3. 0 \in 0 .. n
        BY Words
    <2> QED
        BY <2>1, <2>2, <2>3 DEF WorkTyped, NothingDrawn, Stages
<1>2. Shuffling
    <2>1. Width["delegation"] \in Nat
        BY WidthAssumption DEF Component
    <2>2. \A v \in Voters : \A j \in Slot("delegation") : j \in Nat /\ ~(j < 0)
        BY SlotFinite DEF Component
    <2>3. D \in [Voters -> [Slot("delegation") -> {0, 1}]]
        BY DEF NothingDrawn, NoDelegates
    <2>4. \A v \in Voters : \A j \in Slot("delegation") : D[v][j] = 0
        BY DEF NothingDrawn, NoDelegates
    <2>5. perm \in [Voters -> Voters] /\ \A u, v \in Voters : perm[u] = perm[v] => u = v
        BY DEF NothingDrawn
    <2>6. i = 0
        BY DEF NothingDrawn
    <2>7. remaining = <<>>
        BY DEF NothingDrawn
    <2> QED
        BY <2>1, <2>2, <2>3, <2>4, <2>5, <2>6, <2>7 DEF Shuffling
<1>3. \A c \in Component : stage # c /\ ~Past(c) /\ choices[c] = <<>>
    BY DEF Component, Past, NothingDrawn
<1> QED
    BY <1>1, <1>2, <1>3 DEF WorkInv

(* One swap of the shuffle keeps perm a permutation and D its start.       *)
LEMMA DrawDelegateWorks ==
    ASSUME WorkInv, DrawDelegate
    PROVE  WorkInv'
<1> USE DEF WorkInv
<1>1. PICK j \in Position :
          /\ perm' = [perm EXCEPT ![i] = perm[j], ![j] = perm[i]]
          /\ D' = [D EXCEPT ![perm[j]][i] = 1]
    BY DEF DrawDelegate
<1>2. /\ i' = i + 1 /\ stage = "delegates" /\ i < Width["delegation"]
      /\ UNCHANGED <<stage, counts, remaining, choices, samples>>
    BY DEF DrawDelegate
<1>3. /\ i \in 0 .. n - 1 /\ i + 1 \in 0 .. n /\ Width["delegation"] \in Nat
      /\ n \in Nat /\ Voters = 0 .. n - 1 /\ i \in Slot("delegation")
    <2>1. i \in 0 .. n
        BY DEF WorkTyped
    <2>2. n \in Nat \ {0} /\ Width["delegation"] < n /\ Voters = 0 .. n - 1
        BY Words, DimensionsAssumption
    <2>3. Width["delegation"] \in Nat
        BY WidthAssumption DEF Component
    <2> QED
        BY <1>2, <2>1, <2>2, <2>3 DEF Slot
<1>4. j \in i .. n - 1
    <2>1. n - i \in Nat \ {0}
        BY <1>3
    <2>2. PICK x \in randUint64n(n - i) : j = i + x
        BY DEF Position
    <2>3. x \in 0 .. n - i - 1
        BY <2>1, <2>2, Words
    <2> QED
        BY <1>3, <2>2, <2>3
<1>5. WorkTyped'
    BY <1>2, <1>3 DEF WorkTyped
<1>6. Shuffling'
    <2>1. /\ perm \in [Voters -> Voters] /\ i \in Voters /\ j \in Voters
          /\ \A u, v \in Voters : perm[u] = perm[v] => u = v
          /\ D \in [Voters -> [Slot("delegation") -> {0, 1}]]
          /\ \A v \in Voters, q \in Slot("delegation") : D[v][q] = 1 <=> q < i /\ perm[q] = v
        BY <1>2, <1>3, <1>4 DEF Shuffling
    <2>2. /\ perm' \in [Voters -> Voters]
          /\ \A u \in Voters : perm'[u] = IF u = j THEN perm[i]
                                         ELSE IF u = i THEN perm[j] ELSE perm[u]
        BY <1>1, <2>1
    <2>3. \A u, v \in Voters : perm'[u] = perm'[v] => u = v
        BY <2>1, <2>2
    <2>4. \A u \in Voters : u < i => perm'[u] = perm[u]
        BY <1>3, <1>4, <2>2
    <2>5. perm'[i] = perm[j]
        BY <2>1, <2>2
    <2>6. /\ D' \in [Voters -> [Slot("delegation") -> {0, 1}]]
          /\ \A v \in Voters, q \in Slot("delegation") :
                D'[v][q] = IF v = perm[j] /\ q = i THEN 1 ELSE D[v][q]
        <3>1. perm[j] \in Voters /\ i \in Slot("delegation")
            BY <1>3, <2>1
        <3> QED
            BY <1>1, <2>1, <3>1
    <2>7. Slot("delegation") \subseteq Voters
        BY <1>3, DimensionsAssumption DEF Slot
    <2>8. ASSUME NEW v \in Voters, NEW q \in Slot("delegation")
          PROVE  D'[v][q] = 1 <=> q < i + 1 /\ perm'[q] = v
        <3>1. q \in Voters /\ q \in Nat /\ i \in Nat
            BY <1>3, <2>7
        <3>2. CASE q = i
            <4>1. ~(q < i) /\ q < i + 1
                BY <3>1, <3>2
            <4>2. D[v][q] # 1
                BY <2>1, <4>1
            <4> QED
                BY <2>5, <2>6, <3>2, <4>1, <4>2
        <3>3. CASE q < i
            <4>1. q # i /\ q < i + 1 /\ perm'[q] = perm[q]
                BY <2>4, <3>1, <3>3
            <4> QED
                BY <2>1, <2>6, <3>3, <4>1
        <3>4. CASE q > i
            <4>1. q # i /\ ~(q < i + 1) /\ ~(q < i)
                BY <3>1, <3>4
            <4> QED
                BY <2>1, <2>6, <4>1
        <3> QED
            BY <3>1, <3>2, <3>3, <3>4
    <2>9. i + 1 <= Width["delegation"] /\ remaining = <<>>
        BY <1>2, <1>3 DEF Shuffling
    <2> QED
        BY <1>2, <2>2, <2>3, <2>6, <2>8, <2>9 DEF Shuffling
<1>7. \A c \in Component : /\ stage # c /\ ~Past(c) /\ Pending(c)
                          /\ stage' # c /\ ~Past(c)' /\ choices'[c] = <<>>
    BY <1>2 DEF Component, Past, Pending
<1> QED
    BY <1>5, <1>6, <1>7

(* The first component starts with no row drawn.                           *)
LEMMA DelegatesDrawnWorks ==
    ASSUME WorkInv, DelegatesDrawn
    PROVE  WorkInv'
<1> USE DEF WorkInv
<1>1. /\ stage = "delegates" /\ stage' = "candidate" /\ i' = 0
      /\ UNCHANGED <<counts, remaining, choices, samples>>
    BY DEF DelegatesDrawn
<1>2. WorkTyped'
    <2>1. 0 \in 0 .. n
        BY Words
    <2> QED
        BY <1>1, <2>1 DEF WorkTyped, Stages
<1>3. \A c \in Component : choices'[c] = <<>> /\ ~Past(c)'
    BY <1>1 DEF Past, Pending
<1>4. ASSUME NEW c \in Component, stage' = c
      PROVE  Current(c)'
    <2>1. \A v \in Voters : ~(v < 0)
        BY Words, DimensionsAssumption
    <2>2. remaining' = <<>>
        BY <1>1 DEF Shuffling
    <2> QED
        BY <1>1, <1>3, <2>1, <2>2 DEF Current, RowsDrawn
<1> QED
    BY <1>1, <1>2, <1>3, <1>4

(* Drawing a row adds a full one.                                          *)
LEMMA DrawRowWorks ==
    ASSUME WorkInv, NEW c \in Component, DrawRow(c)
    PROVE  WorkInv'
<1> USE DEF WorkInv
<1>1. PICK majorityCol \in randUint64n(Width[c]), extra \in Spread(c) :
          counts' = [counts EXCEPT ![c][i] = [s \in Slot(c) |->
                        extra[s] + IF s = majorityCol THEN threshold ELSE 0]]
    BY DEF DrawRow
<1>2. /\ stage = c /\ i < n /\ i' = i + 1
      /\ UNCHANGED <<stage, perm, D, remaining, choices, samples>>
    BY DEF DrawRow
<1> DEFINE row == [s \in Slot(c) |-> extra[s] + IF s = majorityCol THEN threshold ELSE 0]
<1>3. row \in [Slot(c) -> Nat] /\ FullRow(c, row)
    BY DrawnRowIsFull
<1>4. counts' = [counts EXCEPT ![c][i] = row]
    BY <1>1
<1> HIDE DEF row
<1>5. /\ i \in Voters /\ i + 1 \in 0 .. n /\ i \in Nat /\ n \in Nat
      /\ \A v \in Voters : v < i + 1 => v < i \/ v = i
    <2>1. n \in Nat \ {0} /\ Voters = 0 .. n - 1 /\ i \in 0 .. n
        BY Words, DimensionsAssumption DEF WorkTyped
    <2> QED
        BY <1>2, <2>1
<1>6. /\ counts = [d \in Component |-> counts[d]] /\ counts' = [d \in Component |-> counts'[d]]
      /\ DOMAIN counts = Component
      /\ \A d \in Component : counts[d] \in [Voters -> [Slot(d) -> Nat]]
    BY <1>4 DEF WorkTyped
<1>7. /\ \A d \in Component : d # c => counts'[d] = counts[d]
      /\ counts'[c] = [counts[c] EXCEPT ![i] = row]
    BY <1>4, <1>6
<1>8. \A d \in Component : counts'[d] \in [Voters -> [Slot(d) -> Nat]]
    <2>1. counts'[c] \in [Voters -> [Slot(c) -> Nat]]
        BY <1>3, <1>5, <1>6, <1>7
    <2> QED
        BY <1>6, <1>7, <2>1
<1>9. WorkTyped'
    BY <1>2, <1>5, <1>6, <1>8 DEF WorkTyped
<1>10. Current(c)'
    <2>1. Current(c) /\ remaining = <<>>
        BY <1>2, <1>5 DEF Current
    <2>2. counts'[c][i] = row /\ \A v \in Voters : v # i => counts'[c][v] = counts[c][v]
        BY <1>5, <1>6, <1>7
    <2>3. \A v \in Voters : v < i + 1 => FullRow(c, counts'[c][v])
        BY <1>3, <1>5, <2>1, <2>2 DEF Current, RowsDrawn
    <2>4. remaining' = <<>> /\ choices'[c] = <<>>
        BY <1>2, <2>1 DEF Current
    <2> QED
        BY <1>2, <2>3, <2>4 DEF Current, RowsDrawn
<1>11. stage' = c /\ ~Past(c)' /\ ~Pending(c)' /\ stage' # "delegates"
    BY <1>2 DEF Past, Pending, Component
<1>12. ASSUME NEW d \in Component, d # c
       PROVE  /\ Pending(d)' => choices'[d] = <<>>
              /\ stage' # d
              /\ Past(d)' => Finished(d)'
    <2>1. counts'[d] = counts[d] /\ choices'[d] = choices[d] /\ samples' = samples
        BY <1>2, <1>7, <1>12
    <2>2. (Pending(d)' <=> Pending(d)) /\ (Past(d)' <=> Past(d))
        BY <1>2 DEF Past, Pending
    <2>3. stage' # d
        BY <1>11, <1>12
    <2>4. Finished(d) => Finished(d)'
        BY <2>1 DEF Finished, RowsDrawn
    <2> QED
        BY <2>1, <2>2, <2>3, <2>4
<1> QED
    BY <1>9, <1>10, <1>11, <1>12

(* Draining starts when all rows are drawn.                                *)
LEMMA BeginDrainWorks ==
    ASSUME WorkInv, NEW c \in Component, BeginDrain(c)
    PROVE  WorkInv'
<1> USE DEF WorkInv
<1>1. /\ stage = c /\ i = n /\ choices[c] = <<>> /\ remaining' = counts[c]
      /\ UNCHANGED <<stage, perm, i, D, counts, choices, samples>>
    BY DEF BeginDrain
<1>2. WorkTyped'
    BY <1>1 DEF WorkTyped
<1>3. Current(c)'
    <2>1. counts[c] \in [Voters -> [Slot(c) -> Nat]] /\ RowsDrawn(c, n)
        BY <1>1 DEF WorkTyped, Current
    <2>2. \A v \in Voters : v < n
        BY Words, DimensionsAssumption
    <2>3. \A v \in Voters : FullRow(c, counts[c][v])
        BY <2>1, <2>2 DEF RowsDrawn
    <2>4. Draining(c, counts[c], counts[c], <<>>) /\ counts[c] # <<>>
        BY <2>1, <2>3, DrainBegins
    <2>5. RowsDrawn(c, i)'
        BY <1>1, <2>1 DEF RowsDrawn
    <2> QED
        BY <1>1, <2>4, <2>5 DEF Current
<1>4. stage' = c /\ ~Past(c)' /\ ~Pending(c)' /\ stage' # "delegates"
    BY <1>1 DEF Past, Pending, Component
<1>5. ASSUME NEW d \in Component, d # c
       PROVE  /\ Pending(d)' => choices'[d] = <<>>
              /\ stage' # d
              /\ Past(d)' => Finished(d)'
    BY <1>1, <1>5 DEF Past, Pending, Finished, RowsDrawn
<1> QED
    BY <1>2, <1>3, <1>4, <1>5

(* One period of the schedule takes one unit from every row.               *)
LEMMA DrainPeriodWorks ==
    ASSUME WorkInv, NEW c \in Component, DrainPeriod(c)
    PROVE  WorkInv'
<1> USE DEF WorkInv
<1> DEFINE e == [v \in Voters |-> drainOneHot(remaining[v])]
<1>1. /\ stage = c /\ remaining # <<>> /\ Len(choices[c]) < Periods
      /\ choices' = [choices EXCEPT ![c] = Append(@, e)]
      /\ remaining' = [v \in Voters |->
                          IF drainOneHot(remaining[v]) = noSubmission THEN remaining[v]
                          ELSE [remaining[v] EXCEPT ![drainOneHot(remaining[v])] = @ - 1]]
      /\ UNCHANGED <<stage, perm, i, D, counts, samples>>
    BY DEF DrainPeriod, Drained
<1>2. /\ choices[c] \in Seq(Columns(c)) /\ i = n
      /\ Draining(c, counts[c], remaining, choices[c]) /\ RowsDrawn(c, i)
    BY <1>1 DEF WorkTyped, Current
<1>3. /\ Append(choices[c], e) \in Seq(Columns(c)) /\ Append(choices[c], e) # <<>>
      /\ Draining(c, counts[c], remaining', Append(choices[c], e))
    BY <1>1, <1>2, DrainStep
<1> HIDE DEF e
<1>4. /\ choices'[c] = Append(choices[c], e) /\ DOMAIN choices' = Component
      /\ \A d \in Component : d # c => choices'[d] = choices[d]
    BY <1>1 DEF WorkTyped
<1>5. WorkTyped'
    BY <1>1, <1>3, <1>4 DEF WorkTyped
<1>6. Current(c)'
    <2>1. remaining' # <<>>
        <3>1. 0 \in Voters
            BY Words, DimensionsAssumption
        <3>2. DOMAIN remaining' = Voters
            BY <1>1
        <3> QED
            BY <3>1, <3>2
    <2>2. RowsDrawn(c, i)'
        BY <1>1, <1>2 DEF RowsDrawn
    <2> QED
        BY <1>1, <1>2, <1>3, <1>4, <2>1, <2>2 DEF Current
<1>7. stage' = c /\ ~Past(c)' /\ ~Pending(c)' /\ stage' # "delegates"
    BY <1>1 DEF Past, Pending, Component
<1>8. ASSUME NEW d \in Component, d # c
       PROVE  /\ Pending(d)' => choices'[d] = <<>>
              /\ stage' # d
              /\ Past(d)' => Finished(d)'
    BY <1>1, <1>4, <1>8 DEF Past, Pending, Finished, RowsDrawn
<1> QED
    BY <1>5, <1>6, <1>7, <1>8

(* The schedule is complete, and nothing is left to panic about.           *)
LEMMA EndDrainWorks ==
    ASSUME WorkInv, NEW c \in Component, EndDrain(c)
    PROVE  WorkInv'
<1> USE DEF WorkInv
<1>1. /\ stage = c /\ Len(choices[c]) = Periods /\ remaining' = <<>> /\ i' = 0
      /\ stage' = IF \E v \in Voters, s \in Slot(c) : remaining[v][s] # 0 THEN "panic"
                  ELSE IF c = "candidate" THEN "delegation" ELSE "restrict"
      /\ UNCHANGED <<perm, D, counts, choices, samples>>
    BY DEF EndDrain
<1>2. /\ choices[c] \in Seq(Columns(c)) /\ Current(c) /\ samples = 0
    BY <1>1 DEF WorkTyped, Component
<1>3. remaining # <<>>
    <2>1. Len(choices[c]) # 0
        BY <1>1, PeriodsAssumption
    <2> QED
        BY <1>2, <2>1 DEF Current
<1>4. i = n /\ Draining(c, counts[c], remaining, choices[c]) /\ RowsDrawn(c, n)
    BY <1>2, <1>3 DEF Current
<1>5. /\ \A v \in Voters, s \in Slot(c) : remaining[v][s] = 0
      /\ ScheduleOf(c, counts[c], choices[c])
    BY <1>1, <1>2, <1>4, DrainEnds
<1>6. stage' = IF c = "candidate" THEN "delegation" ELSE "restrict"
    BY <1>1, <1>5
<1>7. WorkTyped'
    <2>1. 0 \in 0 .. n
        BY Words
    <2> QED
        BY <1>1, <1>2, <1>6, <2>1 DEF WorkTyped, Stages
<1>8. Finished(c)' /\ stage' # c /\ ~Pending(c)' /\ stage' # "delegates"
    BY <1>1, <1>2, <1>4, <1>5, <1>6 DEF Finished, RowsDrawn, Pending, Component
<1>9. ASSUME NEW d \in Component, d # c
       PROVE  /\ Pending(d)' => choices'[d] = <<>>
              /\ stage' = d => Current(d)'
              /\ Past(d)' => Finished(d)'
    <2>1. CASE c = "candidate"
        <3>1. d = "delegation" /\ stage' = d /\ Pending(d) /\ ~Pending(d)' /\ ~Past(d)'
            BY <1>1, <1>6, <1>9, <2>1 DEF Component, Pending, Past
        <3>2. \A v \in Voters : ~(v < 0)
            BY Words, DimensionsAssumption
        <3>3. Current(d)'
            BY <1>1, <3>1, <3>2 DEF Current, RowsDrawn
        <3> QED
            BY <3>1, <3>3
    <2>2. CASE c = "delegation"
        <3>1. d = "candidate" /\ stage' # d /\ Past(d) /\ ~Pending(d)'
            BY <1>1, <1>6, <1>9, <2>2 DEF Component, Pending, Past
        <3>2. Finished(d)'
            BY <1>1, <3>1 DEF Finished, RowsDrawn
        <3> QED
            BY <3>1, <3>2
    <2> QED
        BY <2>1, <2>2 DEF Component
<1> QED
    BY <1>7, <1>8, <1>9

(* A benchmark keeps the sampled voters' first submissions only.           *)
LEMMA RestrictWorks ==
    ASSUME WorkInv, RestrictSubmissions
    PROVE  WorkInv'
<1> USE DEF WorkInv
<1>1. /\ stage = "restrict" /\ stage' = "ready" /\ samples' \in Samples
      /\ UNCHANGED <<perm, i, D, counts, remaining>>
    BY DEF RestrictSubmissions
<1>2. samples = 0 /\ samples' \in 0 .. n /\ n \in Nat
    BY <1>1, DimensionsAssumption, Words DEF WorkTyped
<1>3. \A c \in Component : /\ Finished(c) /\ ScheduleOf(c, counts[c], choices[c])
                          /\ choices[c] \in Seq(Columns(c)) /\ Len(choices[c]) = Periods
                          /\ stage' # c /\ ~Pending(c)'
    BY <1>1, <1>2 DEF Past, Pending, Finished, Component, WorkTyped
<1>4. ASSUME NEW c \in Component
      PROVE  /\ choices'[c] \in Seq(Columns(c)) /\ Len(choices'[c]) = Periods
             /\ samples' = 0 => choices'[c] = choices[c]
             /\ samples' # 0 => SampledOnly(c, choices'[c], samples')
    <2>1. CASE samples' = 0
        <3>1. choices' = choices
            BY <2>1 DEF RestrictSubmissions, Fresh
        <3> QED
            BY <1>3, <2>1, <3>1
    <2>2. CASE samples' # 0
        <3> DEFINE ch == [p \in 1 .. Periods |-> [v \in Voters |->
                             IF Kept(p, v) THEN choices[c][p][v] ELSE noSubmission]]
        <3>1. choices'[c] = ch
            BY <2>2 DEF RestrictSubmissions, Fresh
        <3>2. \A p \in 1 .. Periods, v \in Voters : choices[c][p][v] \in Slot(c)
            BY <1>3 DEF ScheduleOf
        <3>3. SampledOnly(c, ch, samples')
            BY <3>2 DEF SampledOnly, Kept
        <3>4. \A p \in 1 .. Periods : ch[p] \in Columns(c)
            BY <3>2 DEF Columns
        <3>5. Periods \in Nat /\ ch = [p \in 1 .. Periods |-> ch[p]]
            BY PeriodsAssumption
        <3>6. DOMAIN ch = 1 .. Periods
            OBVIOUS
        <3> HIDE DEF ch
        <3>7. ch \in Seq(Columns(c)) /\ Len(ch) = Periods
            BY <3>4, <3>5, <3>6
        <3> QED
            BY <2>2, <3>1, <3>3, <3>7
    <2> QED
        BY <2>1, <2>2
<1>5. DOMAIN choices' = Component
    BY DEF RestrictSubmissions, WorkTyped
<1>6. WorkTyped'
    BY <1>1, <1>2, <1>4, <1>5 DEF WorkTyped, Stages
<1>7. \A c \in Component : Finished(c)'
    BY <1>1, <1>3, <1>4 DEF Finished, RowsDrawn
<1> QED
    BY <1>1, <1>3, <1>6, <1>7

----------------------------------------------------------------------------
(* Workload, schedule and echo together.                                   *)

(* A schedule is echoed from its first period on, only when it is complete. *)
LogIsScheduled ==
    /\ stage \notin {"byHand", "ready"} => period = 0 /\ log = <<>>
    /\ stage = "ready" => \A p \in 1 .. period, v \in Voters, c \in Component :
                              log[p][v][c] = choices[c][p][v]

LInv == LogInv /\ WorkInv /\ LogIsScheduled

(* The initial states satisfy the whole invariant.                         *)
LEMMA LInitInv == LInit => LInv
<1> SUFFICES ASSUME LInit PROVE LInv
    OBVIOUS
<1>1. IInv /\ log = <<>> /\ period = 0 /\ Len(log) = 0
    BY InitInv DEF LInit, Init
<1>2. NothingDrawn /\ stage \in {"byHand", "delegates"}
    BY DEF LInit, WorkloadInit
<1>3. log \in Seq([Voters -> Submission])
    BY <1>1
<1>4. CurrentIsLatest
    <2>1. \A c, v : ChoiceByLog(log, 0, c, v) = noSubmission
        <3>1. 1 .. 0 = {}
            OBVIOUS
        <3> QED
            BY <3>1 DEF ChoiceByLog
    <2> QED
        BY <1>1, <2>1 DEF CurrentIsLatest, LInit, Init
<1>5. TotalsAreOfTheLog
    <2> SUFFICES ASSUME NEW c \in Component, NEW v \in Voters, NEW s \in Slot(c)
                 PROVE  totals[c][v][s] = Cardinality({p \in 1 .. 0 : ChoiceByLog(log, p, c, v) = s})
        BY <1>1 DEF TotalsAreOfTheLog
    <2>1. {p \in 1 .. 0 : ChoiceByLog(log, p, c, v) = s} = {}
        OBVIOUS
    <2>2. totals[c][v][s] = 0
        BY DEF LInit, Init
    <2> QED
        BY <2>1, <2>2, FS_EmptySet
<1>6. WorkInv
    BY <1>2, NothingDrawnYet
<1>7. LogIsScheduled
    BY <1>1, <1>2 DEF LogIsScheduled
<1>8. totals = [c \in Component |-> totals[c]]
    BY DEF LInit, Init
<1> QED
    BY <1>1, <1>3, <1>4, <1>5, <1>6, <1>7, <1>8 DEF LInv, LogInv

(* Every step of the drawing preserves its invariant.                      *)
LEMMA WorkloadStep ==
    ASSUME WorkInv, WorkloadNext
    PROVE  /\ WorkInv'
           /\ stage \notin {"byHand", "ready"} /\ stage' # "byHand"
<1>1. CASE DrawDelegate
    BY <1>1, DrawDelegateWorks DEF DrawDelegate
<1>2. CASE DelegatesDrawn
    BY <1>2, DelegatesDrawnWorks DEF DelegatesDrawn
<1>3. CASE \E c \in Component : DrawRow(c) \/ BeginDrain(c) \/ DrainPeriod(c) \/ EndDrain(c)
    <2>1. PICK c \in Component : DrawRow(c) \/ BeginDrain(c) \/ DrainPeriod(c) \/ EndDrain(c)
        BY <1>3
    <2>2. CASE DrawRow(c)
        BY <2>2, DrawRowWorks DEF DrawRow, Component
    <2>3. CASE BeginDrain(c)
        BY <2>3, BeginDrainWorks DEF BeginDrain, Component
    <2>4. CASE DrainPeriod(c)
        BY <2>4, DrainPeriodWorks DEF DrainPeriod, Component
    <2>5. CASE EndDrain(c)
        BY <2>5, EndDrainWorks DEF EndDrain, Component
    <2> QED
        BY <2>1, <2>2, <2>3, <2>4, <2>5
<1>4. CASE RestrictSubmissions
    BY <1>4, RestrictWorks DEF RestrictSubmissions
<1> QED
    BY <1>1, <1>2, <1>3, <1>4 DEF WorkloadNext

(* What is neither echoed nor logged changes nothing of the log.           *)
LEMMA LogInvStable ==
    ASSUME LogInv, UNCHANGED <<vars, log>>
    PROVE  LogInv'
BY DEF LogInv, vars, IInv, TypeOK, TotalsShareThePeriods, CurrentIsLatest, TotalsAreOfTheLog

(* Nor does a period echoed change anything of the workload.               *)
LEMMA WorkInvStable ==
    ASSUME WorkInv, UNCHANGED workloadVars
    PROVE  WorkInv'
<1>1. UNCHANGED <<stage, perm, i, D, counts, remaining, choices, samples>>
    BY DEF workloadVars
<1> QED
    BY <1>1 DEF WorkInv, WorkTyped, Shuffling, Pending, Past, Current, Finished, RowsDrawn

(* Periods submitted by hand.                                              *)
LEMMA ByHandInv ==
    ASSUME LInv, ByHand
    PROVE  LInv'
<1> USE DEF LInv
<1>1. stage = "byHand" /\ UNCHANGED workloadVars
    BY DEF ByHand
<1>2. PICK s0 \in Submission, s1 \in Few :
          LET sub == [v \in Voters |-> IF v = 0 THEN s0 ELSE IF v = 1 THEN s1 ELSE Silent]
          IN  ClosePeriod(sub) /\ log' = Append(log, sub)
    BY DEF ByHand
<1>3. LogInv'
    BY <1>2, ByHandAreSubmissions, CloseLogs
<1>4. WorkInv'
    BY <1>1, WorkInvStable
<1>5. LogIsScheduled'
    BY <1>1 DEF LogIsScheduled, workloadVars
<1> QED
    BY <1>3, <1>4, <1>5

(* Periods submitted from the schedule.                                    *)
LEMMA ScheduledInv ==
    ASSUME LInv, Scheduled
    PROVE  LInv'
<1> USE DEF LInv
<1> DEFINE sub == [v \in Voters |-> [c \in Component |-> choices[c][period + 1][v]]]
<1>1. /\ stage = "ready" /\ UNCHANGED workloadVars /\ period < Periods
      /\ ClosePeriod(sub) /\ log' = Append(log, sub)
    BY DEF Scheduled
<1>2. period \in Nat /\ period + 1 \in 1 .. Periods
    BY <1>1, PeriodsAssumption DEF LogInv, IInv, TypeOK
<1>3. \A c \in Component : choices[c] \in Seq(Columns(c)) /\ Len(choices[c]) = Periods
    BY <1>1 DEF WorkInv, WorkTyped, Past, Finished
<1>4. ASSUME NEW c \in Component, NEW v \in Voters
      PROVE  choices[c][period + 1][v] \in Slot(c) \cup {noSubmission}
    <2>1. choices[c][period + 1] \in Columns(c)
        BY <1>2, <1>3
    <2> QED
        BY <2>1 DEF Columns
<1>5. sub \in [Voters -> Submission]
    <2>1. \A c \in Component, v \in Voters :
              /\ choices[c][period + 1][v] \in Choices(Width[c])
              /\ choices[c][period + 1][v] # zeroSubmission
        BY <1>4, SlotFinite DEF Choices, Slot, noSubmission, zeroSubmission
    <2> QED
        BY <2>1 DEF Submission, SubmissionsOf, Component
<1>6. LogInv'
    BY <1>1, <1>5, CloseLogs
<1>7. WorkInv'
    BY <1>1, WorkInvStable
<1>8. LogIsScheduled'
    <2>1. stage' = "ready" /\ choices' = choices /\ period' = period + 1
        BY <1>1 DEF workloadVars, ClosePeriod
    <2>2. /\ Len(log) = period /\ log \in Seq([Voters -> Submission])
        BY DEF LogInv
    <2>3. /\ log'[period + 1] = sub
          /\ \A p \in 1 .. period : log'[p] = log[p]
        BY <1>1, <1>2, <1>5, <2>2
    <2>4. \A p \in 1 .. period + 1 : p \in 1 .. period \/ p = period + 1
        BY <1>2
    <2>5. \A p \in 1 .. period, v \in Voters, c \in Component :
              log'[p][v][c] = choices[c][p][v]
        <3>1. \A p \in 1 .. period, v \in Voters, c \in Component :
                  log[p][v][c] = choices[c][p][v]
            BY <1>1 DEF LogIsScheduled
        <3> QED
            BY <2>3, <3>1
    <2>6. \A v \in Voters, c \in Component :
              log'[period + 1][v][c] = choices[c][period + 1][v]
        BY <2>3
    <2> QED
        BY <2>1, <2>4, <2>5, <2>6 DEF LogIsScheduled
<1> QED
    BY <1>6, <1>7, <1>8

(* Every reachable state of the echo of any workload satisfies LInv.       *)
THEOREM WorkloadInvariant == LSpec => []LInv
<1>1. LInv /\ [LNext]_<<vars, workloadVars, log>> => LInv'
    <2> SUFFICES ASSUME LInv, [LNext]_<<vars, workloadVars, log>> PROVE LInv'
        OBVIOUS
    <2>1. CASE ByHand
        BY <2>1, ByHandInv
    <2>2. CASE Scheduled
        BY <2>2, ScheduledInv
    <2>3. CASE WorkloadNext /\ UNCHANGED <<vars, log>>
        <3>1. /\ WorkInv' /\ stage \notin {"byHand", "ready"} /\ stage' # "byHand"
            BY <2>3, WorkloadStep DEF LInv
        <3>2. LogInv'
            BY <2>3, LogInvStable DEF LInv
        <3>3. LogIsScheduled'
            <4>1. period = 0 /\ log = <<>> /\ period' = 0 /\ log' = <<>>
                BY <2>3, <3>1 DEF LInv, LogIsScheduled, vars
            <4>2. 1 .. 0 = {}
                OBVIOUS
            <4> QED
                BY <4>1, <4>2 DEF LogIsScheduled
        <3> QED
            BY <3>1, <3>2, <3>3 DEF LInv
    <2>4. CASE UNCHANGED <<vars, workloadVars, log>>
        <3>1. LogInv' /\ WorkInv'
            BY <2>4, LogInvStable, WorkInvStable DEF LInv
        <3>2. LogIsScheduled'
            BY <2>4 DEF LInv, LogIsScheduled, workloadVars, vars
        <3> QED
            BY <3>1, <3>2 DEF LInv
    <2> QED
        BY <2>1, <2>2, <2>3, <2>4 DEF LNext
<1> QED
    BY LInitInv, <1>1, PTL DEF LSpec

(* TotalsCountLatestAccepted: whatever is submitted in whatever order, a   *)
(* total counts the closed periods in which the latest real submission     *)
(* made that choice.                                                       *)
THEOREM TotalsCountTheLatest == LSpec => []TotalsCountLatestAccepted
<1>1. LInv => TotalsCountLatestAccepted
    <2> SUFFICES ASSUME LInv, NEW c \in Component, NEW v \in Voters, NEW s \in Slot(c)
                 PROVE  totals[c][v][s] =
                            Cardinality({p \in 1 .. Len(log) :
                                HasAccepted(p, v) /\ log[LatestAccepted(p, v)][v][c] = s})
        BY DEF TotalsCountLatestAccepted
    <2>1. totals[c][v][s] = Cardinality({p \in 1 .. Len(log) : ChoiceByLog(log, p, c, v) = s})
        BY DEF LInv, LogInv, TotalsAreOfTheLog
    <2>2. \A p \in 1 .. Len(log) :
              (HasAccepted(p, v) /\ log[LatestAccepted(p, v)][v][c] = s)
                  <=> ChoiceByLog(log, p, c, v) = s
        <3>1. s # noSubmission
            BY SlotFinite
        <3>2. \A p : LatestAccepted(p, v) = Latest(log, p, v)
            BY DEF LatestAccepted, Latest, Accepted, Real
        <3>3. \A p : HasAccepted(p, v) <=> \E q \in 1 .. p : Real(log, q, v)
            BY DEF HasAccepted, Accepted, Real
        <3> QED
            BY <3>1, <3>2, <3>3 DEF ChoiceByLog
    <2>3. {p \in 1 .. Len(log) : HasAccepted(p, v) /\ log[LatestAccepted(p, v)][v][c] = s}
              = {p \in 1 .. Len(log) : ChoiceByLog(log, p, c, v) = s}
        BY <2>2
    <2> QED
        BY <2>1, <2>3
<1> QED
    BY WorkloadInvariant, <1>1, PTL

(* The log of a workload echoed in full is its schedule.                   *)
LEMMA EchoedLog ==
    ASSUME LInv, WorkloadEchoed, NEW c \in Component, NEW v \in Voters
    PROVE  /\ period = Periods /\ Periods \in Nat \ {0} /\ v \in Nat /\ v < n
           /\ \A p \in 1 .. Periods : log[p][v][c] = choices[c][p][v]
           /\ \A s \in Slot(c) :
                 totals[c][v][s] = Cardinality({p \in 1 .. Periods : ChoiceByLog(log, p, c, v) = s})
           /\ Finished(c)
<1>1. period = Periods /\ stage = "ready"
    BY DEF WorkloadEchoed
<1>2. v \in Nat /\ v < n /\ Periods \in Nat \ {0}
    BY Words, DimensionsAssumption, PeriodsAssumption
<1>3. \A p \in 1 .. Periods : log[p][v][c] = choices[c][p][v]
    BY <1>1 DEF LInv, LogIsScheduled
<1>4. \A s \in Slot(c) :
          totals[c][v][s] = Cardinality({p \in 1 .. Periods : ChoiceByLog(log, p, c, v) = s})
    BY <1>1 DEF LInv, LogInv, TotalsAreOfTheLog
<1>5. Finished(c)
    BY <1>1 DEF LInv, WorkInv, Past
<1> QED
    BY <1>1, <1>2, <1>3, <1>4, <1>5

(* A fresh workload is echoed choice by choice.                            *)
LEMMA FreshTotals ==
    ASSUME LInv, WorkloadEchoed, samples = 0,
           NEW c \in Component, NEW v \in Voters, NEW s \in Slot(c)
    PROVE  totals[c][v][s] = counts[c][v][s]
<1>1. ScheduleOf(c, counts[c], choices[c])
    BY EchoedLog DEF Finished
<1>2. \A p \in 1 .. Periods : log[p][v][c] = choices[c][p][v] /\ choices[c][p][v] \in Slot(c)
    BY <1>1, EchoedLog DEF ScheduleOf
<1>3. ASSUME NEW p \in 1 .. Periods
      PROVE  ChoiceByLog(log, p, c, v) = choices[c][p][v]
    <2>1. Real(log, p, v)
        BY <1>2 DEF Real
    <2>2. p \in Nat /\ p \in 1 .. p /\ p + 1 .. p = {}
        OBVIOUS
    <2>3. IsLatest(log, p, v, p)
        BY <2>1, <2>2 DEF IsLatest
    <2>4. Latest(log, p, v) = p
        BY <2>2, <2>3, LatestIs
    <2> QED
        BY <1>2, <2>1, <2>2, <2>4 DEF ChoiceByLog
<1>4. {p \in 1 .. Periods : ChoiceByLog(log, p, c, v) = s}
          = {p \in 1 .. Periods : choices[c][p][v] = s}
    BY <1>3
<1>5. totals[c][v][s] = Times(choices[c], v, s)
    BY <1>1, <1>4, EchoedLog DEF Times, ScheduleOf
<1> QED
    BY <1>1, <1>5 DEF ScheduleOf

(* TotalsAreTheDrawnCounts: periodicChoicesFromCounts never panics, and    *)
(* echoing its schedule gives back the counts that were drawn.             *)
THEOREM EchoReturnsTheDraw == LSpec => []TotalsAreTheDrawnCounts
<1>1. LInv => TotalsAreTheDrawnCounts
    <2> SUFFICES ASSUME LInv PROVE TotalsAreTheDrawnCounts
        OBVIOUS
    <2>1. stage # "panic"
        BY DEF LInv, WorkInv, WorkTyped, Stages
    <2>2. ASSUME WorkloadEchoed, samples = 0
          PROVE  totals = counts
        <3>1. /\ DOMAIN totals = Component
              /\ \A c \in Component : totals[c] \in [Voters -> [Slot(c) -> Nat]]
            BY DEF LInv, LogInv, IInv, TypeOK
        <3>2. \A c \in Component : counts[c] \in [Voters -> [Slot(c) -> Nat]]
            BY DEF LInv, WorkInv, WorkTyped
        <3>3. ASSUME NEW c \in Component, NEW v \in Voters
              PROVE  totals[c][v] = counts[c][v]
            <4>1. totals[c][v] \in [Slot(c) -> Nat] /\ counts[c][v] \in [Slot(c) -> Nat]
                BY <3>1, <3>2
            <4>2. \A s \in Slot(c) : totals[c][v][s] = counts[c][v][s]
                BY <2>2, FreshTotals
            <4> QED
                BY <4>1, <4>2
        <3>4. ASSUME NEW c \in Component
              PROVE  totals[c] = counts[c]
            <4>1. totals[c] \in [Voters -> [Slot(c) -> Nat]] /\ counts[c] \in [Voters -> [Slot(c) -> Nat]]
                BY <3>1, <3>2
            <4>2. \A v \in Voters : totals[c][v] = counts[c][v]
                BY <3>3
            <4> QED
                BY <4>1, <4>2
        <3>5. totals = [c \in Component |-> totals[c]] /\ counts = [c \in Component |-> counts[c]]
            BY DEF LInv, LogInv, WorkInv, WorkTyped
        <3> QED
            BY <3>4, <3>5
    <2> QED
        BY <2>1, <2>2 DEF TotalsAreTheDrawnCounts
<1> QED
    BY WorkloadInvariant, <1>1, PTL

(* EverySenderHasAMajority: the voters with a majority choice are all the  *)
(* voters of a fresh run and the sampled ones of a benchmark.              *)
THEOREM SendersHaveMajorities == LSpec => []EverySenderHasAMajority
<1>1. LInv => EverySenderHasAMajority
    <2> SUFFICES ASSUME LInv, WorkloadEchoed, NEW c \in Component, NEW v \in Voters
                 PROVE  (\E s \in Slot(c) : Selected(c, v, s)) <=> (samples = 0 \/ v < samples)
        BY DEF EverySenderHasAMajority
    <2>1. /\ period = Periods /\ Periods \in Nat \ {0} /\ v \in Nat /\ v < n /\ Finished(c)
          /\ samples \in 0 .. n /\ n \in Nat
        BY EchoedLog, Words DEF LInv, WorkInv, WorkTyped
    <2>2. CASE samples = 0
        <3>1. PICK s \in Slot(c) : counts[c][v][s] >= threshold
            BY <2>1 DEF Finished, RowsDrawn, FullRow
        <3>2. totals[c][v][s] = counts[c][v][s] /\ totals[c][v][s] \in Nat
            BY <2>2, FreshTotals DEF LInv, LogInv, IInv, TypeOK
        <3>3. Selected(c, v, s)
            BY <2>1, <3>1, <3>2, ThresholdBounds DEF Selected
        <3> QED
            BY <2>2, <3>3
    <2>3. CASE samples # 0
        <3>1. \A d \in Component, p \in 1 .. Periods :
                  log[p][v][d] \in IF p = 1 /\ v < samples THEN Slot(d) ELSE {noSubmission}
            BY <2>3, EchoedLog DEF Finished, SampledOnly
        <3>2. \A d \in Component : noSubmission \notin Slot(d)
            BY SlotFinite
        <3>3. CASE v < samples
            <4> DEFINE s == log[1][v][c]
            <4>1. 1 \in 1 .. Periods
                BY <2>1
            <4>2. s \in Slot(c)
                BY <3>1, <3>3, <4>1
            <4>3. Real(log, 1, v)
                BY <4>2 DEF Real
            <4>4. ASSUME NEW p \in 1 .. Periods
                  PROVE  ChoiceByLog(log, p, c, v) = s
                <5>1. p \in Nat /\ 1 \in 1 .. p
                    OBVIOUS
                <5>2. \A r \in 1 + 1 .. p : r \in 1 .. Periods /\ r # 1
                    BY <2>1
                <5>3. \A r \in 1 + 1 .. p : ~Real(log, r, v)
                    BY <3>1, <3>2, <5>2 DEF Real
                <5>4. IsLatest(log, p, v, 1)
                    BY <4>3, <5>1, <5>3 DEF IsLatest
                <5>5. Latest(log, p, v) = 1
                    BY <5>1, <5>4, LatestIs
                <5> QED
                    BY <4>3, <5>1, <5>5 DEF ChoiceByLog
            <4> HIDE DEF s
            <4>5. {p \in 1 .. Periods : ChoiceByLog(log, p, c, v) = s} = 1 .. Periods
                BY <4>4
            <4>6. Cardinality(1 .. Periods) = Periods
                BY <2>1, FS_Interval
            <4>7. totals[c][v][s] = Periods
                BY <4>2, <4>5, <4>6, EchoedLog
            <4>8. Periods > Periods \div 2
                BY <2>1
            <4> QED
                BY <3>3, <4>2, <4>7, <4>8 DEF Selected
        <3>4. CASE ~(v < samples)
            <4>1. ASSUME NEW s \in Slot(c)
                  PROVE  ~Selected(c, v, s)
                <5>1. ASSUME NEW p \in 1 .. Periods
                      PROVE  ChoiceByLog(log, p, c, v) # s
                    <6>1. \A q \in 1 .. p : q \in 1 .. Periods
                        BY <2>1
                    <6>2. \A q \in 1 .. p : ~Real(log, q, v)
                        BY <3>1, <3>2, <3>4, <6>1 DEF Real
                    <6> QED
                        BY <3>2, <6>2 DEF ChoiceByLog
                <5>2. {p \in 1 .. Periods : ChoiceByLog(log, p, c, v) = s} = {}
                    BY <5>1
                <5>3. totals[c][v][s] = 0
                    BY <5>2, EchoedLog, FS_EmptySet
                <5>4. ~(0 > Periods \div 2)
                    BY <2>1
                <5> QED
                    BY <5>3, <5>4 DEF Selected
            <4> QED
                BY <2>3, <3>4, <4>1
        <3> QED
            BY <3>3, <3>4
    <2> QED
        BY <2>2, <2>3
<1> QED
    BY WorkloadInvariant, <1>1, PTL

(* Every residue is hit by as many of the words below a multiple.          *)
LEMMA UniformResidues ==
    ASSUME NEW m \in Nat \ {0}, NEW r \in 0 .. m - 1
    PROVE  Cardinality({x \in AcceptedWords(m) : x % m = r}) = MaxWord \div m
<1> DEFINE q == MaxWord \div m
           f == [k \in 0 .. q - 1 |-> k * m + r]
           A == {x \in AcceptedWords(m) : x % m = r}
<1>1. q \in Nat /\ MaxWord \in Nat /\ MaxWord % m \in 0 .. m - 1 /\ MaxWord = q * m + (MaxWord % m)
    BY Words, Division
<1>2. AcceptedWords(m) = 0 .. q * m - 1 /\ q * m \in Nat
    BY <1>1 DEF AcceptedWords, limit
<1> HIDE DEF q
<1>3. ASSUME NEW k \in 0 .. q - 1
      PROVE  f[k] = k * m + r /\ f[k] \in A
    <2>1. k \in Nat /\ k * m \in Nat /\ k + 1 \in Nat /\ k + 1 <= q
        BY <1>1
    <2>2. (k + 1) * m <= q * m
        BY <1>1, <2>1, TimesMonotone
    <2>3. (k + 1) * m = k * m + m
        BY <2>1
    <2>4. k * m + r \in 0 .. q * m - 1
        BY <1>2, <2>1, <2>2, <2>3
    <2>5. (m * k + r) % m = r /\ m * k = k * m
        BY <2>1, ModOfMultiple
    <2> QED
        BY <1>2, <2>4, <2>5
<1>4. ASSUME NEW x \in A
      PROVE  \E k \in 0 .. q - 1 : f[k] = x
    <2>1. x \in Nat /\ x < q * m /\ x % m = r
        BY <1>2
    <2>2. x \div m \in Nat /\ x = (x \div m) * m + r
        BY <2>1, Division
    <2>3. x \div m < q
        <3> SUFFICES ASSUME q <= x \div m PROVE FALSE
            BY <1>1, <2>2
        <3>1. q * m <= (x \div m) * m /\ (x \div m) * m \in Nat
            BY <1>1, <2>2, TimesMonotone
        <3> QED
            BY <1>2, <2>1, <2>2, <3>1
    <2>4. x \div m \in 0 .. q - 1
        BY <1>1, <2>2, <2>3
    <2> QED
        BY <2>2, <2>4
<1>5. \A j, k \in 0 .. q - 1 : f[j] = f[k] => j = k
    <2> SUFFICES ASSUME NEW j \in 0 .. q - 1, NEW k \in 0 .. q - 1, j * m + r = k * m + r
                 PROVE  j = k
        OBVIOUS
    <2> QED
        BY <1>1, DivisionUnique
<1>6. f \in Bijection(0 .. q - 1, A)
    <2>1. DOMAIN f = 0 .. q - 1 /\ f = [k \in 0 .. q - 1 |-> f[k]]
        OBVIOUS
    <2> HIDE DEF A, f
    <2>2. f \in [0 .. q - 1 -> A]
        BY <1>3, <2>1
    <2> QED
        BY <1>4, <1>5, <2>1, <2>2 DEF Bijection, Injection, Surjection, IsInjective
<1>7. IsFiniteSet(0 .. q - 1) /\ Cardinality(0 .. q - 1) = q
    <2>1. 0 \in Int /\ q - 1 \in Int /\ q \in Nat
        BY <1>1
    <2> HIDE DEF f, A
    <2>2. IsFiniteSet(0 .. q - 1)
        BY <2>1, FS_Interval
    <2>3. Cardinality(0 .. q - 1) = IF 0 > q - 1 THEN 0 ELSE (q - 1) - 0 + 1
        BY <2>1, FS_Interval
    <2> QED
        BY <2>1, <2>2, <2>3
<1>8. Cardinality(A) = q
    BY <1>6, <1>7, FS_Bijection DEF ExistsBijection
<1> QED
    BY <1>8 DEF q

(* DrawsAreFair: the draws are uniform whatever the width of a word, and   *)
(* the shuffle keeps the delegates apart.                                  *)
THEOREM FairDraws == LSpec => []DrawsAreFair
<1>1. LInv => DrawsAreFair
    <2> SUFFICES ASSUME LInv PROVE DrawsAreFair
        OBVIOUS
    <2>1. Uniform
        <3> DEFINE m == IF stage = "delegates" THEN n - i
                        ELSE IF stage \in Component THEN Width[stage] ELSE 1
        <3>1. m \in Nat \ {0}
            <4>1. CASE stage = "delegates"
                <5>1. i \in 0 .. n /\ i <= Width["delegation"]
                    BY <4>1 DEF LInv, WorkInv, WorkTyped, Shuffling
                <5>2. Width["delegation"] \in Nat /\ Width["delegation"] < n
                    BY WidthAssumption, DimensionsAssumption DEF Component
                <5> QED
                    BY <4>1, <5>1, <5>2, Words
            <4>2. CASE stage # "delegates"
                BY <4>2, WidthAssumption
            <4> QED
                BY <4>1, <4>2
        <3> HIDE DEF m
        <3>2. \A r \in 0 .. m - 1 :
                  Cardinality({x \in AcceptedWords(m) : x % m = r}) = MaxWord \div m
            BY <3>1, UniformResidues
        <3> QED
            BY <3>2 DEF Uniform, m
    <2>2. ASSUME stage = "delegates"
          PROVE  Distinct
        <3>1. Shuffling /\ i \in 0 .. n
            BY <2>2 DEF LInv, WorkInv, WorkTyped
        <3>2. ASSUME NEW j \in 0 .. i - 1
              PROVE  Cardinality({v \in Voters : D[v][j] = 1}) = 1
            <4>1. j \in Voters /\ j \in Slot("delegation") /\ j < i
                BY <3>1, Words, DimensionsAssumption, WidthAssumption
                DEF Shuffling, Slot, Component
            <4>2. perm[j] \in Voters
                BY <3>1, <4>1 DEF Shuffling
            <4>3. {v \in Voters : D[v][j] = 1} = {perm[j]}
                BY <3>1, <4>1, <4>2 DEF Shuffling
            <4> QED
                BY <4>3, FS_Singleton
        <3>3. ASSUME NEW v \in Voters
              PROVE  Cardinality({j \in Slot("delegation") : D[v][j] = 1}) <= 1
            <4> DEFINE J == {j \in Slot("delegation") : D[v][j] = 1}
            <4>1. Slot("delegation") \subseteq Voters
                BY Words, DimensionsAssumption, WidthAssumption DEF Slot, Component
            <4>2. \A j, k \in J : j = k
                BY <3>1, <4>1 DEF Shuffling
            <4>3. CASE J = {}
                BY <4>3, FS_EmptySet
            <4>4. CASE J # {}
                <5>1. PICK j \in J : TRUE
                    BY <4>4
                <5>2. J = {j}
                    BY <4>2, <5>1
                <5> QED
                    BY <5>2, FS_Singleton
            <4> QED
                BY <4>3, <4>4
        <3> QED
            BY <3>2, <3>3 DEF Distinct
    <2> QED
        BY <2>1, <2>2 DEF DrawsAreFair
<1> QED
    BY WorkloadInvariant, <1>1, PTL
=============================================================================
