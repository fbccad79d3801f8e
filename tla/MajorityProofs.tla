--------------------------- MODULE MajorityProofs ---------------------------
(***************************************************************************)
(* Who has a majority, from the echoes that add up to a count per voter to *)
(* the polynomial that tells a majority among the counts.                  *)
(*                                                                         *)
(* The pair of echoes implements the plaintext reference, for every set of *)
(* voters, widths, number of periods and every modulus above that number.  *)
(* The argument is that a voter's block is written as a whole: its mask is *)
(* one value, so a block is either kept or replaced by a payload that has  *)
(* at most one choice; and that totals stay below the modulus.             *)
(*                                                                         *)
(* The polynomial is the indicator of the majorities for every prime whose *)
(* square fits into a word.  The argument follows the loops: a factor of   *)
(* the basis polynomial adds a root and multiplies its value at the node   *)
(* left out, which a prime never makes zero; modInverse inverts that       *)
(* value, as for every turn of Euclid's algorithm; and adding the scaled   *)
(* polynomial changes the result at its own node alone.                    *)
(***************************************************************************)
EXTENDS SubmissionEcho, MCLagrangeIndicator, ArithmeticLemmas

IInv == TypeOK /\ BlocksAreOneHot

(* A gated slot is the new input or the old value.                         *)
LEMMA Gate ==
    ASSUME NEW m \in Nat, m > 1, NEW u \in {0, 1}, NEW x \in {0, 1}, NEW z \in {0, 1}
    PROVE  (u * (1 - z) + x * z) % m = IF z = 1 THEN x ELSE u
<1>1. u * (1 - z) + x * z = IF z = 1 THEN x ELSE u
    <2>1. CASE z = 1
        BY <2>1
    <2>2. CASE z = 0
        BY <2>2
    <2> QED
        BY <2>1, <2>2
<1>2. 0 % m = 0 /\ 1 % m = 1
    OBVIOUS
<1> QED
    BY <1>1, <1>2

LEMMA Bounds == Periods \in Nat /\ Modulus \in Nat /\ Modulus > 1 /\ Periods > 0
BY PeriodsAssumption, ModulusAssumption

(* What a submission puts into the slots of its voter's block.             *)
LEMMA SubmissionSlots ==
    ASSUME NEW sub \in [Voters -> Submission], NEW v \in Voters, NEW c \in Component
    PROVE  /\ submissionMask(sub[v]) \in {0, 1}
           /\ \A o \in Nat : payloadSlot(sub[v], c, o) \in {0, 1}
           /\ \A o \in Nat : payloadSlot(sub[v], c, o) = 1 <=> sub[v][c] = o
           /\ \A o \in Nat : o >= Width[c] => payloadSlot(sub[v], c, o) = 0
           /\ submissionMask(sub[v]) = 1 => sub[v][c] \in 0 .. Width[c] - 1 \cup {noSubmission}
<1>1. sub[v] \in Submission /\ Width[c] \in Nat
    BY WidthAssumption
<1>2. sub[v][c] \in Choices(Width[c])
    BY <1>1 DEF Submission, SubmissionsOf, Component
<1>3. submissionMask(sub[v]) = 1 => sub[v][c] # zeroSubmission
    BY <1>1, WidthAssumption
    DEF Submission, SubmissionsOf, submissionMask, Component, Choices, zeroSubmission, noSubmission
<1> QED
    BY <1>1, <1>2, <1>3
    DEF submissionMask, payloadSlot, Choices, zeroSubmission, noSubmission

(* One period close, in terms of blocks.                                   *)
LEMMA CloseInBlocks ==
    ASSUME IInv, NEW sub \in [Voters -> Submission], ClosePeriod(sub)
    PROVE  /\ closed < Periods /\ closed' = closed + 1
           /\ UNCHANGED <<periods, done, resC, resD>>
           /\ \A c \in Component :
                 /\ Value(c)' \in [Slots -> {0, 1}]
                 /\ Total(c)' \in [Slots -> Int]
                 /\ \A v \in Voters, o \in Offset :
                      /\ Value(c)'[<<v, o>>] =
                            IF submissionMask(sub[v]) = 1
                            THEN payloadSlot(sub[v], c, o) ELSE Value(c)[<<v, o>>]
                      /\ Total(c)'[<<v, o>>] = Total(c)[<<v, o>>] + Value(c)'[<<v, o>>]
<1> DEFINE Gated(c, s) == (Value(c)[s] * (1 - SharedMask(c, sub)[s])
                            + Payload(c, sub)[s] * SharedMask(c, sub)[s]) % Modulus
<1>1. /\ closed < Periods /\ closed' = closed + 1
      /\ UNCHANGED <<periods, done, resC, resD>>
      /\ uC' = [s \in Slots |-> Gated("candidate", s)]
      /\ uD' = [s \in Slots |-> Gated("delegation", s)]
      /\ tC' = [s \in Slots |-> (tC[s] + Gated("candidate", s)) % Modulus]
      /\ tD' = [s \in Slots |-> (tD[s] + Gated("delegation", s)) % Modulus]
    BY DEF ClosePeriod, Candidate!Close, Delegation!Close, Candidate!EchoValue,
           Delegation!EchoValue, IInv, TypeOK, Value
<1>2. ASSUME NEW c \in Component
      PROVE  /\ Value(c)' = [s \in Slots |-> Gated(c, s)]
             /\ Total(c)' = [s \in Slots |-> (Total(c)[s] + Gated(c, s)) % Modulus]
    BY <1>1 DEF Value, Total, Component
<1>3. ASSUME NEW c \in Component, NEW v \in Voters, NEW o \in Offset
      PROVE  /\ Gated(c, <<v, o>>) =
                   IF submissionMask(sub[v]) = 1
                   THEN payloadSlot(sub[v], c, o) ELSE Value(c)[<<v, o>>]
             /\ Gated(c, <<v, o>>) \in {0, 1}
             /\ (Total(c)[<<v, o>>] + Gated(c, <<v, o>>)) % Modulus
                   = Total(c)[<<v, o>>] + Gated(c, <<v, o>>)
    <2>1. <<v, o>> \in Slots /\ o \in Nat
        BY DEF Slots, Offset
    <2>2. /\ Payload(c, sub)[<<v, o>>] = payloadSlot(sub[v], c, o)
          /\ SharedMask(c, sub)[<<v, o>>] = submissionMask(sub[v])
        BY <2>1 DEF Payload, SharedMask
    <2>3. /\ Value(c)[<<v, o>>] \in {0, 1}
          /\ Total(c)[<<v, o>>] \in 0 .. closed /\ closed \in Nat
        BY <2>1 DEF IInv, TypeOK
    <2>4. payloadSlot(sub[v], c, o) \in {0, 1} /\ submissionMask(sub[v]) \in {0, 1}
        BY <2>1, SubmissionSlots
    <2>5. Gated(c, <<v, o>>) =
             IF submissionMask(sub[v]) = 1 THEN payloadSlot(sub[v], c, o) ELSE Value(c)[<<v, o>>]
        BY <2>2, <2>3, <2>4, Gate, Bounds
    <2>6. Gated(c, <<v, o>>) \in {0, 1}
        BY <2>3, <2>4, <2>5
    <2> HIDE DEF Gated
    <2>7. /\ Total(c)[<<v, o>>] + Gated(c, <<v, o>>) \in 0 .. Modulus - 1
        BY <2>3, <2>6, <1>1, Bounds, ModulusAssumption
    <2>8. \A y \in 0 .. Modulus - 1 : y % Modulus = y
        BY Bounds
    <2> QED
        BY <2>5, <2>6, <2>7, <2>8
<1> HIDE DEF Gated
<1>4. ASSUME NEW c \in Component
      PROVE  /\ Value(c)' \in [Slots -> {0, 1}]
             /\ Total(c)' \in [Slots -> Int]
             /\ \A v \in Voters, o \in Offset :
                  /\ Value(c)'[<<v, o>>] = Gated(c, <<v, o>>)
                  /\ Total(c)'[<<v, o>>] = Total(c)[<<v, o>>] + Gated(c, <<v, o>>)
    <2>1. \A s \in Slots : \E v \in Voters, o \in Offset : s = <<v, o>>
        BY DEF Slots
    <2>2. \A v \in Voters, o \in Offset : <<v, o>> \in Slots
        BY DEF Slots
    <2>3. \A s \in Slots : Gated(c, s) \in {0, 1} /\ Total(c)[s] \in Int
        BY <2>1, <1>3 DEF IInv, TypeOK
    <2>4. \A s \in Slots : (Total(c)[s] + Gated(c, s)) % Modulus = Total(c)[s] + Gated(c, s)
        BY <2>1, <1>3
    <2>5. \A s \in Slots : Total(c)[s] + Gated(c, s) \in Int
        BY <2>3
    <2> QED
        BY <1>2, <2>2, <2>3, <2>4, <2>5
<1> QED
    BY <1>1, <1>3, <1>4

----------------------------------------------------------------------------
(* The invariant.                                                          *)

LEMMA InitInv == Init => IInv
<1> SUFFICES ASSUME Init PROVE IInv
    OBVIOUS
<1>1. /\ periods = Periods /\ closed = 0 /\ done = FALSE
      /\ uC = [s \in Slots |-> 0] /\ tC = [s \in Slots |-> 0] /\ resC = [s \in Slots |-> 0]
      /\ uD = [s \in Slots |-> 0] /\ tD = [s \in Slots |-> 0] /\ resD = [s \in Slots |-> 0]
    BY DEF Init, Candidate!Init, Delegation!Init, Candidate!Zero, Delegation!Zero
<1>2. TypeOK
    <2>1. \A c \in Component : Value(c) = [s \in Slots |-> 0] /\ Total(c) = [s \in Slots |-> 0]
        BY <1>1 DEF Value, Total
    <2>2. closed \in 0 .. Periods /\ 0 \in 0 .. closed /\ 0 \in 0 .. Periods
        BY <1>1, Bounds
    <2>3. resC \in [Slots -> 0 .. Periods] /\ resD \in [Slots -> 0 .. Periods]
        BY <1>1, <2>2
    <2>4. \A c \in Component : Value(c) \in [Slots -> {0, 1}] /\ Total(c) \in [Slots -> 0 .. closed]
        BY <2>1, <2>2
    <2> QED
        BY <1>1, <2>2, <2>3, <2>4 DEF TypeOK
<1>3. \A c \in Component, v \in Voters, o \in Offset :
         Value(c)[<<v, o>>] = 0 /\ Total(c)[<<v, o>>] = 0
    BY <1>1 DEF Value, Total, Slots
<1>4. BlocksAreOneHot
    BY <1>3 DEF BlocksAreOneHot
<1> QED
    BY <1>2, <1>4 DEF IInv

LEMMA CloseInv ==
    ASSUME IInv, NEW sub \in [Voters -> Submission], ClosePeriod(sub)
    PROVE  IInv'
<1>1. TypeOK'
    <2>1. /\ periods' = Periods /\ closed' \in 0 .. Periods /\ done' \in BOOLEAN
          /\ resC' \in [Slots -> 0 .. Periods] /\ resD' \in [Slots -> 0 .. Periods]
        BY CloseInBlocks, Bounds DEF IInv, TypeOK
    <2>2. ASSUME NEW c \in Component
          PROVE  Value(c)' \in [Slots -> {0, 1}] /\ Total(c)' \in [Slots -> 0 .. closed']
        <3>1. Value(c)' \in [Slots -> {0, 1}] /\ Total(c)' \in [Slots -> Int]
            BY CloseInBlocks
        <3>2. ASSUME NEW v \in Voters, NEW o \in Offset
              PROVE  Total(c)'[<<v, o>>] \in 0 .. closed'
            <4>1. <<v, o>> \in Slots
                BY DEF Slots
            <4>2. Total(c)[<<v, o>>] \in 0 .. closed /\ closed \in Nat
                BY <4>1 DEF IInv, TypeOK
            <4>3. Value(c)'[<<v, o>>] \in {0, 1}
                BY <4>1, <3>1
            <4>4. /\ Total(c)'[<<v, o>>] = Total(c)[<<v, o>>] + Value(c)'[<<v, o>>]
                  /\ closed' = closed + 1
                BY CloseInBlocks
            <4> QED
                BY <4>2, <4>3, <4>4
        <3>3. \A s \in Slots : Total(c)'[s] \in 0 .. closed'
            BY <3>2 DEF Slots
        <3> QED
            BY <3>1, <3>3
    <2> QED
        BY <2>1, <2>2 DEF TypeOK
<1>2. BlocksAreOneHot'
    <2> SUFFICES ASSUME NEW c \in Component, NEW v \in Voters
                 PROVE  /\ \A o, p \in Offset :
                              Value(c)'[<<v, o>>] = 1 /\ Value(c)'[<<v, p>>] = 1 => o = p
                        /\ \A o \in Offset : o >= Width[c] =>
                              Value(c)'[<<v, o>>] = 0 /\ Total(c)'[<<v, o>>] = 0
        BY DEF BlocksAreOneHot
    <2>1. \A o \in Offset :
             /\ Value(c)'[<<v, o>>] =
                   IF submissionMask(sub[v]) = 1
                   THEN payloadSlot(sub[v], c, o) ELSE Value(c)[<<v, o>>]
             /\ Total(c)'[<<v, o>>] = Total(c)[<<v, o>>] + Value(c)'[<<v, o>>]
        BY CloseInBlocks
    <2>2. /\ \A o, p \in Offset : Value(c)[<<v, o>>] = 1 /\ Value(c)[<<v, p>>] = 1 => o = p
          /\ \A o \in Offset : o >= Width[c] =>
                Value(c)[<<v, o>>] = 0 /\ Total(c)[<<v, o>>] = 0
        BY DEF IInv, BlocksAreOneHot
    <2>3. \A o \in Offset : o \in Nat
        BY DEF Offset
    <2>4. CASE submissionMask(sub[v]) = 1
        BY <2>1, <2>2, <2>3, <2>4, SubmissionSlots
    <2>5. CASE submissionMask(sub[v]) # 1
        BY <2>1, <2>2, <2>5
    <2> QED
        BY <2>4, <2>5
<1> QED
    BY <1>1, <1>2 DEF IInv

(* Taking the totals: they count at most one echo for every period.        *)
LEMMA TotalsInv ==
    ASSUME IInv, Totals
    PROVE  IInv'
<1>1. /\ closed = periods /\ done' = TRUE /\ resC' = tC /\ resD' = tD
      /\ UNCHANGED <<periods, closed, uC, tC, uD, tD>>
    BY DEF Totals, Candidate!Publish, Delegation!Publish
<1>2. resC' \in [Slots -> 0 .. Periods] /\ resD' \in [Slots -> 0 .. Periods]
    <2>1. Total("candidate") = tC /\ Total("delegation") = tD
        BY DEF Total
    <2> QED
        BY <1>1, <2>1 DEF IInv, TypeOK, Component
<1>3. \A c \in Component : Value(c)' = Value(c) /\ Total(c)' = Total(c)
    BY <1>1 DEF Value, Total
<1>4. TypeOK'
    BY <1>1, <1>2, <1>3 DEF IInv, TypeOK
<1>5. BlocksAreOneHot'
    BY <1>3 DEF IInv, BlocksAreOneHot
<1> QED
    BY <1>4, <1>5 DEF IInv

LEMMA StutterInv ==
    ASSUME IInv, UNCHANGED vars
    PROVE  IInv'
<1>1. \A c \in Component : Value(c)' = Value(c) /\ Total(c)' = Total(c)
    BY DEF vars, Value, Total
<1> QED
    BY <1>1 DEF vars, IInv, TypeOK, BlocksAreOneHot

LEMMA StepInv == IInv /\ [Next]_vars => IInv'
<1> SUFFICES ASSUME IInv, [Next]_vars PROVE IInv'
    OBVIOUS
<1>1. ASSUME NEW sub \in [Voters -> Submission], ClosePeriod(sub) PROVE IInv'
    BY <1>1, CloseInv
<1>2. CASE Totals
    BY <1>2, TotalsInv
<1>3. CASE UNCHANGED vars
    BY <1>3, StutterInv
<1> QED
    BY <1>1, <1>2, <1>3 DEF Next

(* Every reachable state is well typed and its blocks hold at most one     *)
(* choice: the current values of both echoes are Boolean and their totals  *)
(* never wrap around, whatever the submissions.                            *)
THEOREM BlocksOneHot == Spec => [](TypeOK /\ BlocksAreOneHot)
BY InitInv, StepInv, PTL DEF Spec, IInv

----------------------------------------------------------------------------
(* The refinement of the plaintext reference.                              *)

(* A block at most one of whose slots is set stands for the choice of that *)
(* slot, and for no submission when none is.                               *)
LEMMA StandingOfBlock ==
    ASSUME NEW c \in Component, NEW v \in Voters,
           \A o, p \in Offset : Value(c)[<<v, o>>] = 1 /\ Value(c)[<<v, p>>] = 1 => o = p
    PROVE  /\ \A o \in Offset : Value(c)[<<v, o>>] = 1 => Standing(c, v) = o
           /\ (\A o \in Offset : Value(c)[<<v, o>>] # 1) => Standing(c, v) = noSubmission
           /\ \A o \in Offset : Standing(c, v) = o => Value(c)[<<v, o>>] = 1
<1>1. ASSUME NEW o \in Offset, Value(c)[<<v, o>>] = 1 PROVE Standing(c, v) = o
    <2> DEFINE P(p) == Value(c)[<<v, p>>] = 1
    <2>1. P(CHOOSE p \in Offset : P(p)) /\ (CHOOSE p \in Offset : P(p)) \in Offset
        BY <1>1
    <2>2. (CHOOSE p \in Offset : P(p)) = o
        BY <1>1, <2>1
    <2> QED
        BY <1>1, <2>2 DEF Standing
<1>2. (\A o \in Offset : Value(c)[<<v, o>>] # 1) => Standing(c, v) = noSubmission
    BY DEF Standing
<1>3. noSubmission \notin Offset
    BY DEF noSubmission, Offset
<1> QED
    BY <1>1, <1>2, <1>3

(* The reference's instance speaks of the same submissions.                *)
LEMMA SameSubmissions ==
    /\ Reference!Component = Component /\ Reference!noSubmission = noSubmission
    /\ Reference!Submission = Submission
    /\ \A x : Reference!submissionMask(x) = submissionMask(x)
<1>1. Reference!Component = Component
    BY DEF Reference!Component, Component
<1>2. Reference!noSubmission = noSubmission /\ Reference!zeroSubmission = zeroSubmission
    BY DEF Reference!noSubmission, noSubmission, Reference!zeroSubmission, zeroSubmission
<1>3. \A w : Reference!Choices(w) = Choices(w)
    BY <1>2 DEF Reference!Choices, Choices
<1>4. Reference!Submission = Submission
    BY <1>2, <1>3 DEF Reference!Submission, Submission, Reference!SubmissionsOf, SubmissionsOf
<1>5. \A x : Reference!submissionMask(x) = submissionMask(x)
    BY <1>1 DEF Reference!submissionMask, submissionMask
<1> QED
    BY <1>1, <1>2, <1>4, <1>5

LEMMA WidthsInBlock == \A c \in Component : \A s \in 0 .. Width[c] - 1 : s \in Offset
BY WidthAssumption DEF Component, Offset, blockSize

(* A period close is a period close of the reference: a masked block keeps *)
(* its choice, an unmasked one takes the submission's.                     *)
LEMMA CloseRefines ==
    ASSUME IInv, IInv', NEW sub \in [Voters -> Submission], ClosePeriod(sub)
    PROVE  Reference!ClosePeriod(sub)
<1>1. closed < Periods /\ closed' = closed + 1
    BY CloseInBlocks
<1>2. ASSUME NEW c \in Component, NEW v \in Voters
      PROVE  /\ Standing(c, v)' =
                    IF submissionMask(sub[v]) = 1 THEN sub[v][c] ELSE Standing(c, v)
             /\ \A s \in 0 .. Width[c] - 1 :
                    Total(c)'[<<v, s>>] =
                        Total(c)[<<v, s>>] + IF Standing(c, v)' = s THEN 1 ELSE 0
    <2>1. \A o \in Offset :
             /\ Value(c)'[<<v, o>>] =
                   IF submissionMask(sub[v]) = 1
                   THEN payloadSlot(sub[v], c, o) ELSE Value(c)[<<v, o>>]
             /\ Total(c)'[<<v, o>>] = Total(c)[<<v, o>>] + Value(c)'[<<v, o>>]
        BY CloseInBlocks
    <2>2. /\ \A o \in Offset : Value(c)'[<<v, o>>] = 1 => Standing(c, v)' = o
          /\ (\A o \in Offset : Value(c)'[<<v, o>>] # 1) => Standing(c, v)' = noSubmission
          /\ \A o \in Offset : Standing(c, v)' = o => Value(c)'[<<v, o>>] = 1
        <3>1. \A o, p \in Offset : Value(c)'[<<v, o>>] = 1 /\ Value(c)'[<<v, p>>] = 1 => o = p
            BY DEF IInv, BlocksAreOneHot
        <3>2. Standing(c, v)' = IF \E o \in Offset : Value(c)'[<<v, o>>] = 1
                                THEN CHOOSE o \in Offset : Value(c)'[<<v, o>>] = 1
                                ELSE noSubmission
            BY DEF Standing
        <3>3. noSubmission \notin Offset
            BY DEF noSubmission, Offset
        <3>4. ASSUME NEW o \in Offset, Value(c)'[<<v, o>>] = 1 PROVE Standing(c, v)' = o
            <4> DEFINE P(p) == Value(c)'[<<v, p>>] = 1
            <4>1. P(CHOOSE p \in Offset : P(p)) /\ (CHOOSE p \in Offset : P(p)) \in Offset
                BY <3>4
            <4>2. (CHOOSE p \in Offset : P(p)) = o
                BY <3>1, <3>4, <4>1
            <4> QED
                BY <3>2, <3>4, <4>2
        <3> QED
            BY <3>2, <3>3, <3>4
    <2>3. \A o \in Offset : o \in Nat
        BY DEF Offset
    <2>4. Standing(c, v)' = IF submissionMask(sub[v]) = 1 THEN sub[v][c] ELSE Standing(c, v)
        <3>1. CASE submissionMask(sub[v]) = 1
            <4>1. sub[v][c] \in 0 .. Width[c] - 1 \cup {noSubmission}
                BY <3>1, SubmissionSlots
            <4>2. \A o \in Offset : Value(c)'[<<v, o>>] = 1 <=> sub[v][c] = o
                BY <2>1, <2>3, <3>1, SubmissionSlots
            <4>3. CASE sub[v][c] \in 0 .. Width[c] - 1
                BY <2>2, <3>1, <4>2, <4>3, WidthsInBlock
            <4>4. CASE sub[v][c] = noSubmission
                <5>1. \A o \in Offset : sub[v][c] # o
                    BY <4>4 DEF Offset, noSubmission
                <5> QED
                    BY <2>2, <3>1, <4>2, <4>4, <5>1
            <4> QED
                BY <4>1, <4>3, <4>4
        <3>2. CASE submissionMask(sub[v]) # 1
            <4>1. \A o \in Offset : Value(c)'[<<v, o>>] = Value(c)[<<v, o>>]
                BY <2>1, <3>2
            <4>2. \A o, p \in Offset : Value(c)[<<v, o>>] = 1 /\ Value(c)[<<v, p>>] = 1 => o = p
                BY DEF IInv, BlocksAreOneHot
            <4>3. CASE \E o \in Offset : Value(c)[<<v, o>>] = 1
                BY <2>2, <3>2, <4>1, <4>2, <4>3, StandingOfBlock
            <4>4. CASE \A o \in Offset : Value(c)[<<v, o>>] # 1
                BY <2>2, <3>2, <4>1, <4>2, <4>4, StandingOfBlock
            <4> QED
                BY <4>3, <4>4
        <3> QED
            BY <3>1, <3>2
    <2>5. ASSUME NEW s \in 0 .. Width[c] - 1
          PROVE  Total(c)'[<<v, s>>] = Total(c)[<<v, s>>] + IF Standing(c, v)' = s THEN 1 ELSE 0
        <3>1. s \in Offset /\ <<v, s>> \in Slots
            BY WidthsInBlock DEF Slots
        <3>2. Value(c)'[<<v, s>>] \in {0, 1}
            BY <3>1, CloseInBlocks
        <3>3. Value(c)'[<<v, s>>] = 1 <=> Standing(c, v)' = s
            BY <3>1, <2>2
        <3>4. Total(c)'[<<v, s>>] = Total(c)[<<v, s>>] + Value(c)'[<<v, s>>]
            BY <3>1, <2>1
        <3> QED
            BY <3>2, <3>3, <3>4
    <2> QED
        BY <2>4, <2>5
<1> DEFINE current == [c \in Component |-> [v \in Voters |-> Standing(c, v)]]
           totals == [c \in Component |-> [v \in Voters |->
                        [s \in 0 .. Width[c] - 1 |-> Total(c)[<<v, s>>]]]]
<1>3. current' = [c \in Component |-> [v \in Voters |->
                     IF submissionMask(sub[v]) = 1 THEN sub[v][c] ELSE current[c][v]]]
    BY <1>2
<1>4. totals' = [c \in Component |-> [v \in Voters |-> [s \in 0 .. Width[c] - 1 |->
                     totals[c][v][s] + IF Standing(c, v)' = s THEN 1 ELSE 0]]]
    BY <1>2
<1>5. \A c \in Component, v \in Voters :
         Reference!Standing(sub, c, v) = Standing(c, v)'
    BY <1>2, SameSubmissions DEF Reference!Standing
<1>6. [c \in Component |-> [v \in Voters |-> Standing(c, v)']]
         = [c \in Component |-> [v \in Voters |-> Reference!Standing(sub, c, v)]]
    BY <1>5
<1>7. totals' = [c \in Component |-> [v \in Voters |-> [s \in Reference!Slot(c) |->
                     totals[c][v][s] + IF Reference!Echoes(sub, c, v, s) THEN 1 ELSE 0]]]
    <2>1. \A c \in Component : Reference!Slot(c) = 0 .. Width[c] - 1
        BY DEF Reference!Slot
    <2>2. \A c \in Component, v \in Voters : \A s \in 0 .. Width[c] - 1 :
             Reference!Echoes(sub, c, v, s) <=> Standing(c, v)' = s
        BY <1>5 DEF Reference!Echoes
    <2> HIDE DEF totals
    <2>3. \A c \in Component, v \in Voters :
             [s \in 0 .. Width[c] - 1 |-> totals[c][v][s] + IF Standing(c, v)' = s THEN 1 ELSE 0]
             = [s \in 0 .. Width[c] - 1 |->
                   totals[c][v][s] + IF Reference!Echoes(sub, c, v, s) THEN 1 ELSE 0]
        BY <2>2
    <2>4. \A c \in Component, v \in Voters :
             [s \in 0 .. Width[c] - 1 |-> totals[c][v][s] + IF Standing(c, v)' = s THEN 1 ELSE 0]
             = [s \in Reference!Slot(c) |->
                   totals[c][v][s] + IF Reference!Echoes(sub, c, v, s) THEN 1 ELSE 0]
        BY <2>1, <2>3
    <2> QED
        BY <1>4, <2>4
<1> QED
    BY <1>1, <1>6, <1>7, SameSubmissions DEF Reference!ClosePeriod

(* Every period close is the reference's close for the same submission, in *)
(* every behaviour.                                                        *)
THEOREM SubmissionsApplied == Spec => EachSubmissionIsApplied
<1> DEFINE Applied == \A sub \in [Voters -> Submission] :
                         ClosePeriod(sub) => Reference!ClosePeriod(sub)
<1>1. IInv /\ [Next]_vars => [Applied]_vars
    <2> SUFFICES ASSUME IInv, [Next]_vars, NEW sub \in [Voters -> Submission], ClosePeriod(sub)
                 PROVE  Reference!ClosePeriod(sub)
        OBVIOUS
    <2> QED
        BY StepInv, CloseRefines
<1> QED
    BY <1>1, InitInv, StepInv, PTL DEF Spec, EachSubmissionIsApplied

(* The two encrypted echoes together implement the plaintext reference     *)
(* periodicEchoTotalsPlain for both components, for every number of        *)
(* voters, candidates, delegates and periods below the modulus.            *)
THEOREM RefinesTheReference == Spec => RefinesReference
<1>1. Init => Reference!Init
    <2> SUFFICES ASSUME Init PROVE Reference!Init
        OBVIOUS
    <2>0. closed = 0
        BY DEF Init, Candidate!Init
    <2>1. \A c \in Component, v \in Voters, o \in Offset :
             Value(c)[<<v, o>>] = 0 /\ Total(c)[<<v, o>>] = 0
        BY DEF Init, Candidate!Init, Delegation!Init, Candidate!Zero, Delegation!Zero,
               Value, Total, Slots
    <2>2. \A c \in Component, v \in Voters : Standing(c, v) = noSubmission
        <3> SUFFICES ASSUME NEW c \in Component, NEW v \in Voters PROVE Standing(c, v) = noSubmission
            OBVIOUS
        <3>1. ASSUME NEW o \in Offset PROVE Value(c)[<<v, o>>] # 1
            <4>1. Value(c)[<<v, o>>] = 0
                BY <2>1
            <4> QED
                BY <4>1
        <3> QED
            BY <3>1 DEF Standing
    <2>3. \A c \in Component, v \in Voters : \A s \in 0 .. Width[c] - 1 : Total(c)[<<v, s>>] = 0
        BY <2>1, WidthsInBlock
    <2> QED
        BY <2>0, <2>2, <2>3, SameSubmissions DEF Reference!Init, Reference!Slot
<1>2. IInv /\ IInv' /\ [Next]_vars => [Reference!Next]_Reference!vars
    <2> SUFFICES ASSUME IInv, IInv', [Next]_vars
                 PROVE  [Reference!Next]_Reference!vars
        OBVIOUS
    <2>1. ASSUME NEW sub \in [Voters -> Submission], ClosePeriod(sub)
          PROVE  Reference!Next
        <3>1. Reference!ClosePeriod(sub)
            BY <2>1, CloseRefines
        <3> QED
            BY <3>1, SameSubmissions DEF Reference!Next
    <2>2. CASE Totals \/ UNCHANGED vars
        <3>1. UNCHANGED <<closed, uC, tC, uD, tD>>
            BY <2>2 DEF vars, Totals, Candidate!Publish, Delegation!Publish
        <3>2. \A c \in Component : Value(c)' = Value(c) /\ Total(c)' = Total(c)
            BY <3>1 DEF Value, Total
        <3>3. \A c \in Component, v \in Voters : Standing(c, v)' = Standing(c, v)
            BY <3>2 DEF Standing
        <3> QED
            BY <3>1, <3>2, <3>3 DEF Reference!vars
    <2> QED
        BY <2>1, <2>2 DEF Next
<1> QED
    BY <1>1, <1>2, InitInv, StepInv, PTL DEF Spec, RefinesReference, Reference!Spec

(* Words: as long as products of residues do not wrap, the operations of   *)
(* helpers.go are those of the residues.                                   *)
LEMMA WordSize == Word \in Nat
<1>1. IsFiniteSet(1 .. WordBits) /\ Cardinality(1 .. WordBits) = WordBits
    <2>1. WordBits \in Nat /\ 1 \in Int /\ WordBits \in Int /\ WordBits - 1 + 1 = WordBits
        BY WordAssumption
    <2> QED
        BY <2>1, FS_Interval
<1>2. /\ IsFiniteSet(SUBSET (1 .. WordBits))
      /\ Cardinality(SUBSET (1 .. WordBits)) = 2 ^ Cardinality(1 .. WordBits)
    BY <1>1, FS_SUBSET
<1>3. Cardinality(SUBSET (1 .. WordBits)) \in Nat
    BY <1>2, FS_CardinalityType
<1> QED
    BY <1>1, <1>2, <1>3 DEF Word

LEMMA ModulusFits ==
    ASSUME modulus \in Moduli
    PROVE  /\ modulus \in Nat /\ modulus > 1 /\ modulus \in Nat \ {0}
           /\ \A d \in 2 .. modulus - 1 : modulus % d # 0
           /\ modulus < Word /\ Word \in Nat \ {0}
<1>1. modulus \in Nat /\ IsPrime(modulus) /\ modulus < Word
    BY ModuliAssumption
<1>2. modulus > 1 /\ \A d \in 2 .. modulus - 1 : modulus % d # 0
    BY <1>1 DEF IsPrime
<1> QED
    BY <1>1, <1>2, WordSize

(* Moduli whose products fit are less than half a word.                    *)
LEMMA ProductsFitResidues ==
    ASSUME modulus \in Moduli, ProductsFit
    PROVE  ResiduesFit
<1>1. PICK m \in Nat, w \in Nat, two \in Nat : m = modulus /\ w = Word /\ two = 2
    BY ModulusFits
<1>2. two <= m
    BY <1>1, ModulusFits
<1>3. two * m <= m * m
    BY <1>2, TimesMonotone
<1>4. PICK square \in Nat : square = m * m
    OBVIOUS
<1>5. square < w
    BY <1>1, <1>4 DEF ProductsFit
<1>6. 2 * m < w
    BY <1>1, <1>3, <1>4, <1>5
<1> QED
    BY <1>1, <1>6 DEF ResiduesFit

LEMMA SmallResidue ==
    ASSUME NEW m \in Nat \ {0}, NEW v \in Int
    PROVE  /\ 0 <= v /\ v < m => v % m = v
           /\ v < 0 /\ -m < v => v % m = v + m
<1>1. 0 <= v /\ v < m => v % m = v
    OBVIOUS
<1>2. ASSUME v < 0, -m < v
      PROVE  v % m = v + m
    <2>1. v + m \in 0 .. m - 1
        BY <1>2
    <2>2. (m * (-1) + (v + m)) % m = v + m
        BY <2>1, ModOfMultiple
    <2>3. m * (-1) + (v + m) = v
        OBVIOUS
    <2> QED
        BY <2>2, <2>3
<1> QED
    BY <1>1, <1>2

(* What stays within the modulus is the same as a signed word.             *)
LEMMA SignedIs ==
    ASSUME modulus \in Moduli, ResiduesFit, NEW v \in -modulus .. modulus
    PROVE  Signed(v) = v
<1>1. PICK m \in Nat, w \in Nat \ {0} : m = modulus /\ w = Word /\ 2 * m < w
    BY ModulusFits DEF ResiduesFit
<1>2. v \in Int /\ -m <= v /\ v <= m
    BY <1>1
<1>3. PICK u \in Int : u = IF v < 0 THEN v + w ELSE v
    BY <1>1
<1>4. Unsigned(v) = u
    <2>1. v % w = u
        BY <1>1, <1>2, <1>3, SmallResidue
    <2> QED
        BY <1>1, <2>1 DEF Unsigned
<1>5. 2 * u < w <=> ~(v < 0)
    BY <1>1, <1>2, <1>3
<1> QED
    BY <1>1, <1>3, <1>4, <1>5 DEF Signed

LEMMA ReduceSignedIs ==
    ASSUME modulus \in Moduli, ProductsFit, NEW v \in Int, -modulus < v, v < modulus
    PROVE  modReduceSigned(v) = v % modulus
<1>1. modulus \in Nat \ {0} /\ modulus < Word
    BY ModulusFits
<1>2. PICK size \in Nat : size = Word
    BY WordSize
<1>3. size \in Nat \ {0} /\ modulus <= size
    BY <1>1, <1>2
<1>4. Signed(modulus) = modulus /\ Magnitude(modulus) = modulus
    <2>1. modulus \in -modulus .. modulus
        BY <1>1
    <2> QED
        BY <1>1, <2>1, ProductsFitResidues, SignedIs DEF Magnitude
<1>5. CASE v < 0
    <2>1. GoRemainder(v, modulus) = v
        <3>1. 0 <= -v /\ -v < modulus /\ -v \in Int
            BY <1>1, <1>5
        <3>2. (-v) % modulus = -v
            BY <1>1, <3>1, SmallResidue
        <3> QED
            BY <1>4, <1>5, <3>2 DEF GoRemainder
    <2>2. v + modulus \in Int /\ 0 <= v + modulus /\ v + modulus < size
        BY <1>1, <1>3, <1>5
    <2>3. (v + modulus) % size = v + modulus
        BY <1>3, <2>2, SmallResidue
    <2>4. v % modulus = v + modulus
        BY <1>1, <1>5, SmallResidue
    <2> QED
        BY <1>2, <1>4, <1>5, <2>1, <2>3, <2>4 DEF modReduceSigned, Unsigned
<1>6. CASE ~(v < 0)
    <2>1. GoRemainder(v, modulus) = v % modulus /\ v % modulus = v
        BY <1>1, <1>4, <1>6, SmallResidue DEF GoRemainder
    <2>2. v % size = v
        BY <1>1, <1>3, <1>6, SmallResidue
    <2> QED
        BY <1>2, <1>4, <1>6, <2>1, <2>2 DEF modReduceSigned, Unsigned
<1> QED
    BY <1>5, <1>6

(* Whether or not it wraps, a product is reduced to a residue.             *)
LEMMA MulIsResidue ==
    ASSUME modulus \in Moduli, NEW a \in Int, NEW b \in Int
    PROVE  modMul(a, b) \in Residue
<1>1. PICK m \in Nat \ {0}, w \in Nat \ {0} : m = modulus /\ w = Word
    BY ModulusFits
<1>2. PICK p \in Int : p = a * b
    OBVIOUS
<1>3. PICK u \in Int : u = p % w
    BY <1>1, <1>2
<1>4. modMul(a, b) = u % m
    BY <1>1, <1>2, <1>3 DEF modMul, Unsigned
<1> QED
    BY <1>1, <1>3, <1>4 DEF Residue

LEMMA MulIs ==
    ASSUME modulus \in Moduli, ProductsFit, NEW a \in Residue, NEW b \in 0 .. modulus
    PROVE  modMul(a, b) = (a * b) % modulus /\ modMul(a, b) \in Residue
<1>1. modulus \in Nat \ {0} /\ modulus * modulus < Word
    BY ModulusFits DEF ProductsFit
<1>2. PICK size \in Nat : size = Word
    BY WordSize
<1>3. PICK p \in Nat, square \in Nat : p = a * b /\ square = modulus * modulus
    BY <1>1 DEF Residue
<1>4. p < square
    <2>1. a * b <= (modulus - 1) * b
        BY <1>1, TimesMonotone DEF Residue
    <2>2. b * (modulus - 1) <= modulus * (modulus - 1)
        <3>1. b \in Nat /\ modulus \in Nat /\ modulus - 1 \in Nat /\ b <= modulus
            BY <1>1
        <3> QED
            BY <3>1, TimesMonotone
    <2>3. /\ (modulus - 1) * b = b * (modulus - 1)
          /\ modulus * (modulus - 1) = modulus * modulus - modulus
        BY <1>1
    <2>4. PICK u \in Int : u = (modulus - 1) * b
        BY <1>1
    <2>5. p <= u /\ u <= square - modulus
        BY <1>3, <2>1, <2>2, <2>3, <2>4
    <2> QED
        BY <1>1, <2>5
<1>5. p % size = p
    BY <1>1, <1>2, <1>3, <1>4, SmallResidue
<1>6. p % modulus \in 0 .. modulus - 1
    BY <1>1
<1> QED
    BY <1>2, <1>3, <1>5, <1>6 DEF modMul, Unsigned, Residue

LEMMA AddIs ==
    ASSUME modulus \in Moduli, ProductsFit, NEW a \in Residue, NEW b \in Residue
    PROVE  modAdd(a, b) = (a + b) % modulus /\ modAdd(a, b) \in Residue
<1>1. PICK m \in Nat \ {0}, w \in Nat \ {0} : m = modulus /\ w = Word /\ 2 * m < w
    BY ModulusFits, ProductsFitResidues DEF ResiduesFit
<1>2. PICK sum \in Nat : sum = a + b /\ sum < w
    BY <1>1 DEF Residue
<1>3. sum % w = sum
    BY <1>1, <1>2, SmallResidue
<1>4. modAdd(a, b) = sum % m
    BY <1>1, <1>2, <1>3 DEF modAdd, Unsigned
<1> QED
    BY <1>1, <1>2, <1>4 DEF Residue

----------------------------------------------------------------------------
(* Polynomials.                                                            *)

Terms(p, x) == [e \in DOMAIN p |-> p[e] * Power(x)[e]]

LEMMA PowerIs ==
    ASSUME NEW x \in Int
    PROVE  /\ Power(x)[0] = 1
           /\ \A e \in Nat : Power(x)[e] \in Int /\ Power(x)[e + 1] = x * Power(x)[e]
<1>1. PICK h : PowersOf(h, x)
    BY PowersExist
<1>2. Power(x) = CHOOSE f : PowersOf(f, x)
    BY DEF Power, PowersOf
<1>3. PowersOf(Power(x), x)
    BY <1>1, <1>2
<1> QED
    BY <1>3, PowersAre

LEMMA EvalIs ==
    ASSUME NEW p, NEW d \in Nat, DOMAIN p = 0 .. d, \A e \in 0 .. d : p[e] \in Int, NEW x \in Int
    PROVE  /\ IsFiniteSet(0 .. d) /\ \A e \in 0 .. d : Terms(p, x)[e] \in Int
           /\ SumOver(Terms(p, x), 0 .. d) \in Int
           /\ Eval(p, x) = SumOver(Terms(p, x), 0 .. d) % modulus
<1>1. IsFiniteSet(0 .. d)
    BY FS_Interval
<1>2. \A e \in 0 .. d : Terms(p, x)[e] = p[e] * Power(x)[e]
    BY DEF Terms
<1>3. \A e \in 0 .. d : Power(x)[e] \in Int
    BY PowerIs
<1>4. ASSUME NEW e \in 0 .. d PROVE Terms(p, x)[e] \in Int
    BY <1>2, <1>3
<1> HIDE DEF Terms
<1>5. SumOver(Terms(p, x), 0 .. d) \in Int
    BY <1>1, <1>4, SumInteger
<1> DEFINE Adding(f) ==
               f = [u \in SUBSET DOMAIN p |->
                       IF u = {} THEN 0
                       ELSE p[CHOOSE e \in u : TRUE] * Power(x)[CHOOSE e \in u : TRUE]
                               + f[u \ {CHOOSE e \in u : TRUE}]]
           sum == CHOOSE f : Adding(f)
<1>6. Eval(p, x) = sum[DOMAIN p] % modulus
    BY DEF Eval, Sets!MapThenSumSet, Sets!MapThenFoldSet
<1>7. PICK f : Adds(f, Terms(p, x), DOMAIN p)
    BY <1>1, AddsExists
<1>8. \A u \in SUBSET DOMAIN p : u # {} =>
          Terms(p, x)[CHOOSE e \in u : TRUE]
              = p[CHOOSE e \in u : TRUE] * Power(x)[CHOOSE e \in u : TRUE]
    BY <1>2
<1>9. Adding(f)
    BY <1>7, <1>8, ZenonT(60) DEF Adds
<1> HIDE DEF Adding
<1>10. Adding(sum)
    BY <1>9
<1> HIDE DEF sum
<1>11. Adds(sum, Terms(p, x), DOMAIN p)
    BY <1>8, <1>10, ZenonT(60) DEF Adds, Adding
<1>12. sum[0 .. d] = SumOver(Terms(p, x), 0 .. d)
    BY <1>1, <1>11, SumAdds
<1> QED
    BY <1>1, <1>4, <1>5, <1>6, <1>12


(* A factor.                                                               *)
LEMMA NextBasisCoefficients ==
    ASSUME modulus \in Moduli, ProductsFit, NEW d \in Nat, basis \in [0 .. d -> Residue],
           NEW node \in Nat, node < modulus
    PROVE  /\ NextBasis(node) \in [0 .. d + 1 -> Residue]
           /\ \A e \in 0 .. d + 1 : NextBasis(node)[e]
                 = ((IF e <= d THEN basis[e] * (-node) ELSE 0)
                      + (IF e >= 1 THEN basis[e - 1] ELSE 0)) % modulus
<1>1. PICK m \in Nat \ {0} : m = modulus
    BY ModulusFits
<1>2. Sets!Max(DOMAIN basis) = d
    <2>1. DOMAIN basis = 0 .. d /\ d \in 0 .. d /\ \A y \in 0 .. d : y <= d
        OBVIOUS
    <2>2. \A z \in 0 .. d : (\A y \in 0 .. d : z >= y) => z = d
        BY <2>1
    <2> QED
        BY <2>1, <2>2 DEF Sets!Max
<1>3. PICK negJ \in Residue : negJ = modReduceSigned(-node) /\ negJ = (-node) % modulus
    <2>1. -node \in Int /\ -modulus < -node /\ -node < modulus
        BY <1>1
    <2>2. modReduceSigned(-node) = (-node) % modulus
        BY <2>1, ReduceSignedIs
    <2>3. (-node) % modulus \in Residue
        BY <1>1 DEF Residue
    <2> QED
        BY <2>2, <2>3
<1>4. DOMAIN basis \cup {d + 1} = 0 .. d + 1
    OBVIOUS
<1> DEFINE scaled(e) == IF e <= d THEN basis[e] * (-node) ELSE 0
           shifted(e) == IF e >= 1 THEN basis[e - 1] ELSE 0
<1>5. /\ DOMAIN NextBasis(node) = 0 .. d + 1
      /\ \A e \in 0 .. d + 1 : NextBasis(node)[e]
            = modAdd(IF e <= d THEN modMul(basis[e], negJ) ELSE 0, shifted(e))
    <2>1. \A e \in 0 .. d + 1 : (e \in DOMAIN basis <=> e <= d)
                                /\ (e - 1 \in DOMAIN basis <=> e >= 1)
        OBVIOUS
    <2> QED
        BY <1>2, <1>3, <1>4, <2>1 DEF NextBasis
<1>6. ASSUME NEW e \in 0 .. d + 1
      PROVE  /\ NextBasis(node)[e] \in Residue
             /\ NextBasis(node)[e] = (scaled(e) + shifted(e)) % modulus
    <2>1. PICK s \in Residue : s = shifted(e) /\ s \in Int
        BY <1>1 DEF Residue
    <2>2. CASE e <= d
        <3>1. PICK b \in Residue : b = basis[e]
            BY <2>2
        <3>2. b \in Int /\ negJ \in 0 .. modulus /\ -node \in Int
            BY <1>1 DEF Residue
        <3>3. modMul(b, negJ) = (b * negJ) % modulus /\ modMul(b, negJ) \in Residue
              /\ modMul(b, negJ) \in Int
            <4>1. modMul(b, negJ) = (b * negJ) % modulus /\ modMul(b, negJ) \in Residue
                BY <3>2, MulIs
            <4> QED
                BY <1>1, <4>1 DEF Residue
        <3>4. (b * negJ) % m = (b * (-node)) % m
            <4>1. (((-node) % m) * b) % m = ((-node) * b) % m
                BY <3>2, ModTimes
            <4>2. ((-node) % m) * b = b * negJ /\ (-node) * b = b * (-node)
                BY <1>1, <1>3, <3>2
            <4> QED
                BY <4>1, <4>2
        <3>5. (modMul(b, negJ) + s) % m = (b * (-node) + s) % m
            <4>1. PICK y \in Int : y = b * (-node)
                BY <3>2
            <4>2. modMul(b, negJ) = y % m
                BY <1>1, <3>3, <3>4, <4>1
            <4>3. s \in Int /\ ((y % m) + s) % m = (y + s) % m
                BY <2>1, <4>1, ModPlus
            <4> QED
                BY <4>1, <4>2, <4>3
        <3>6. NextBasis(node)[e] = modAdd(modMul(b, negJ), s)
            BY <1>5, <2>1, <2>2, <3>1
        <3> QED
            BY <1>1, <2>1, <2>2, <3>1, <3>3, <3>5, <3>6, AddIs
    <2>3. CASE ~(e <= d)
        <3>1. NextBasis(node)[e] = modAdd(0, s)
            BY <1>5, <2>1, <2>3
        <3>2. PICK nought \in Residue : nought = 0 /\ nought \in Int
            BY <1>1 DEF Residue
        <3>3. /\ NextBasis(node)[e] = (nought + s) % modulus
              /\ NextBasis(node)[e] \in Residue
            BY <3>1, <3>2, AddIs
        <3> QED
            BY <2>1, <2>3, <3>2, <3>3
    <2> QED
        BY <2>2, <2>3
<1> HIDE DEF scaled, shifted
<1>7. NextBasis(node) = [e \in 0 .. d + 1 |-> NextBasis(node)[e]]
    <2>1. \E f : NextBasis(node) = [e \in DOMAIN basis \cup {Sets!Max(DOMAIN basis) + 1} |-> f[e]]
        <3> DEFINE f == [e \in DOMAIN basis \cup {Sets!Max(DOMAIN basis) + 1} |->
                            modAdd(IF e \in DOMAIN basis
                                   THEN modMul(basis[e], modReduceSigned(-node)) ELSE 0,
                                   IF e - 1 \in DOMAIN basis THEN basis[e - 1] ELSE 0)]
        <3>1. NextBasis(node) = f
            BY DEF NextBasis
        <3>2. f = [e \in DOMAIN basis \cup {Sets!Max(DOMAIN basis) + 1} |-> f[e]]
            OBVIOUS
        <3> QED
            BY <3>1, <3>2
    <2> QED
        BY <1>5, <2>1
<1>8. NextBasis(node) \in [0 .. d + 1 -> Residue]
    BY <1>6, <1>7
<1> QED
    BY <1>6, <1>8 DEF scaled, shifted

LEMMA NextBasisIs ==
    ASSUME modulus \in Moduli, ProductsFit, NEW d \in Nat, basis \in [0 .. d -> Residue],
           NEW node \in Nat, node < modulus, NEW x \in Int
    PROVE  Eval(NextBasis(node), x) = (Eval(basis, x) * (x - node)) % modulus
<1>1. PICK m \in Nat \ {0} : m = modulus
    BY ModulusFits
<1>2. PICK b : b = NextBasis(node)
    OBVIOUS
<1>3. /\ DOMAIN b = 0 .. d + 1 /\ \A e \in 0 .. d + 1 : b[e] \in Int
      /\ \A e \in 0 .. d + 1 : b[e] = ((IF e <= d THEN basis[e] * (-node) ELSE 0)
                                         + (IF e >= 1 THEN basis[e - 1] ELSE 0)) % m
    <2>1. /\ b \in [0 .. d + 1 -> Residue]
          /\ \A e \in 0 .. d + 1 : b[e] = ((IF e <= d THEN basis[e] * (-node) ELSE 0)
                                            + (IF e >= 1 THEN basis[e - 1] ELSE 0)) % modulus
        BY <1>2, NextBasisCoefficients
    <2>2. \A e \in Residue : e \in Int
        BY <1>1 DEF Residue
    <2> QED
        BY <1>1, <2>1, <2>2
<1>4. PICK X : /\ X = Power(x) /\ \A e \in Nat : X[e] \in Int /\ X[e + 1] = x * X[e]
    BY PowerIs
<1> DEFINE K == 0 .. d
           L == 0 .. d + 1
           A == [e \in L |-> IF e <= d THEN (-node) * (basis[e] * X[e]) ELSE 0]
           B == [e \in L |-> IF e >= 1 THEN x * (basis[e - 1] * X[e - 1]) ELSE 0]
           C == [e \in L |-> A[e] + B[e]]
           P == Terms(basis, x)
           Q == Terms(b, x)
           H == [e \in L |-> Q[e] % m]
           M == [e \in K |-> x * P[e]]
           S == SumOver(P, K)
<1>5. IsFiniteSet(K) /\ IsFiniteSet(L)
    BY FS_Interval
<1>6. \A e \in K : basis[e] \in Int
    BY <1>1 DEF Residue
<1>7. S \in Int /\ Eval(basis, x) = S % m /\ \A e \in K : P[e] \in Int
    BY <1>1, <1>6, EvalIs
<1>8. Eval(b, x) = SumOver(Q, L) % m /\ \A e \in L : Q[e] \in Int
    <2>1. d + 1 \in Nat
        OBVIOUS
    <2> QED
        BY <1>1, <1>3, <2>1, EvalIs
<1>9. (\A e \in K : P[e] = basis[e] * X[e]) /\ (\A e \in L : Q[e] = b[e] * X[e])
    BY <1>3, <1>4 DEF Terms
<1> HIDE DEF P, Q, S
<1>10. \A e \in L : A[e] \in Int /\ B[e] \in Int /\ C[e] \in Int
    <2>1. ASSUME NEW e \in L
          PROVE  A[e] \in Int
        <3>1. CASE e <= d
            <4>0. e \in K /\ e \in Nat
                BY <3>1
            <4>1. PICK a \in Int, y \in Int : a = basis[e] /\ y = X[e]
                BY <1>4, <1>6, <4>0
            <4>2. A[e] = (-node) * (a * y)
                BY <3>1, <4>1
            <4> QED
                BY <4>2
        <3>2. CASE ~(e <= d)
            BY <3>2
        <3> QED
            BY <3>1, <3>2
    <2>2. ASSUME NEW e \in L
          PROVE  B[e] \in Int
        <3>1. CASE e >= 1
            <4>1. e - 1 \in K /\ e - 1 \in Nat
                BY <3>1
            <4>2. PICK a \in Int, y \in Int : a = basis[e - 1] /\ y = X[e - 1]
                BY <1>4, <1>6, <4>1
            <4>3. B[e] = x * (a * y)
                BY <3>1, <4>2
            <4> QED
                BY <4>3
        <3>2. CASE ~(e >= 1)
            BY <3>2
        <3> QED
            BY <3>1, <3>2
    <2>3. \A e \in L : C[e] = A[e] + B[e]
        OBVIOUS
    <2> HIDE DEF A, B, C
    <2> QED
        BY <2>1, <2>2, <2>3
<1>11. ASSUME NEW e \in L
       PROVE  C[e] % m = H[e]
    <2>1. PICK u \in Int : u = IF e <= d THEN basis[e] * (-node) ELSE 0
        BY <1>6
    <2>2. PICK v \in Int : v = IF e >= 1 THEN basis[e - 1] ELSE 0
        BY <1>6
    <2>3. PICK y \in Int : y = X[e]
        <3>1. e \in Nat
            OBVIOUS
        <3> QED
            BY <1>4, <3>1
    <2>4. b[e] = (u + v) % m
        BY <1>3, <2>1, <2>2
    <2>5. H[e] = (((u + v) % m) * y) % m
        BY <1>9, <2>3, <2>4
    <2>6. H[e] = ((u + v) * y) % m
        <3>1. PICK z \in Int : z = u + v
            OBVIOUS
        <3>2. ((z % m) * y) % m = (z * y) % m
            BY ModTimes
        <3> QED
            BY <2>5, <3>1, <3>2
    <2>7. A[e] = u * y
        <3>1. CASE e <= d
            <4>1. PICK a \in Int : a = basis[e]
                BY <1>6, <3>1
            <4>2. (-node) * (a * y) = (a * (-node)) * y
                OBVIOUS
            <4> QED
                BY <2>1, <2>3, <3>1, <4>1, <4>2
        <3>2. CASE ~(e <= d)
            BY <2>1, <3>2
        <3> QED
            BY <3>1, <3>2
    <2>8. B[e] = v * y
        <3>1. CASE e >= 1
            <4>0. e - 1 \in K /\ e - 1 \in Nat
                BY <3>1
            <4>1. PICK a \in Int, z \in Int : a = basis[e - 1] /\ z = X[e - 1]
                BY <1>4, <1>6, <4>0
            <4>2. y = x * z
                <5>1. e - 1 \in Nat /\ (e - 1) + 1 = e
                    BY <3>1
                <5> QED
                    BY <1>4, <2>3, <4>1, <5>1
            <4>3. x * (a * z) = a * (x * z)
                OBVIOUS
            <4> QED
                BY <2>2, <3>1, <4>1, <4>2, <4>3
        <3>2. CASE ~(e >= 1)
            BY <2>2, <3>2
        <3> QED
            BY <3>1, <3>2
    <2>9. (u + v) * y = u * y + v * y
        OBVIOUS
    <2> QED
        BY <2>6, <2>7, <2>8, <2>9
<1>12. SumOver(H, L) % m = SumOver(Q, L) % m /\ SumOver(H, L) % m = SumOver(C, L) % m
    <2>1. \A e \in L : Q[e] \in Int /\ H[e] = Q[e] % m
        BY <1>8
    <2>2. \A e \in L : C[e] \in Int /\ H[e] = C[e] % m
        BY <1>10, <1>11
    <2> HIDE DEF H, C, L
    <2> QED
        BY <1>5, <2>1, <2>2, SumReduced
<1>13. SumOver(C, L) = SumOver(A, L) + SumOver(B, L)
    <2>1. \A e \in L : A[e] \in Int /\ B[e] \in Int /\ C[e] = A[e] + B[e]
        BY <1>10
    <2> HIDE DEF A, B, C, L
    <2> QED
        BY <1>5, <2>1, SumPlus
<1>14. SumOver(A, L) = (-node) * S
    <2>1. K \in SUBSET L /\ (\A e \in K : A[e] \in Int) /\ (\A e \in L \ K : A[e] = 0)
        BY <1>10
    <2>2. \A e \in K : P[e] \in Int /\ A[e] = (-node) * P[e]
        BY <1>7, <1>9
    <2>3. PICK c \in Int : c = -node
        OBVIOUS
    <2> HIDE DEF A, K, L
    <2>4. SumOver(A, L) = SumOver(A, K)
        BY <1>5, <2>1, SumOutside
    <2>5. SumOver(A, K) = c * SumOver(P, K)
        BY <1>5, <2>2, <2>3, SumScaled
    <2> QED
        BY <2>3, <2>4, <2>5 DEF S
<1>15. SumOver(B, L) = x * S
    <2> DEFINE N == 1 .. d + 1
               back == [e \in N |-> e - 1]
    <2>1. N \in SUBSET L /\ (\A e \in N : B[e] \in Int) /\ (\A e \in L \ N : B[e] = 0)
        <3>1. \A e \in N : e \in L
            OBVIOUS
        <3>2. \A e \in L \ N : e = 0
            OBVIOUS
        <3>3. \A e \in L : e = 0 => B[e] = 0
            OBVIOUS
        <3> QED
            BY <1>10, <3>1, <3>2, <3>3
    <2>2. \A e \in K : P[e] \in Int /\ M[e] = x * P[e] /\ M[e] \in Int
        BY <1>7
    <2>3. \A e \in N : back[e] \in K /\ B[e] = M[back[e]]
        BY <1>9
    <2>4. \A e, f \in N : back[e] = back[f] => e = f
        OBVIOUS
    <2>5. \A f \in K : M[f] # 0 => \E e \in N : back[e] = f
        <3> SUFFICES ASSUME NEW f \in K PROVE \E e \in N : back[e] = f
            OBVIOUS
        <3>1. f + 1 \in N /\ back[f + 1] = f
            OBVIOUS
        <3> QED
            BY <3>1
    <2>6. IsFiniteSet(N)
        BY FS_Interval
    <2> HIDE DEF B, K, L, M, N, back
    <2>7. SumOver(B, L) = SumOver(B, N)
        BY <1>5, <2>1, SumOutside
    <2>8. SumOver(M, K) = SumOver(B, N)
        BY <1>5, <2>2, <2>3, <2>4, <2>5, <2>6, SumTransport
    <2>9. SumOver(M, K) = x * SumOver(P, K)
        BY <1>5, <2>2, SumScaled
    <2> QED
        BY <2>7, <2>8, <2>9 DEF S
<1> HIDE DEF A, B, C, H, K, L, M
<1>16. PICK s \in Int : s = S
    BY <1>7
<1>17. SumOver(C, L) = s * (x - node)
    <2>1. (-node) * s + x * s = s * (x - node)
        OBVIOUS
    <2> QED
        BY <1>13, <1>14, <1>15, <1>16, <2>1
<1>18. Eval(b, x) = (s * (x - node)) % m
    BY <1>8, <1>12, <1>17
<1>19. ((s % m) * (x - node)) % m = (s * (x - node)) % m
    <2>1. x - node \in Int
        OBVIOUS
    <2> QED
        BY <2>1, ModTimes
<1> QED
    BY <1>1, <1>2, <1>7, <1>16, <1>18, <1>19


(* A scaled polynomial is added.                                           *)
Added(c, b, inv, d) == [e \in 0 .. d |-> modAdd(c[e], modMul(b[e], inv))]

LEMMA AddedIs ==
    ASSUME modulus \in Moduli, ProductsFit, NEW d \in Nat,
           NEW b \in [0 .. d -> Residue], NEW c \in [0 .. d -> Residue], NEW inv \in 0 .. modulus,
           NEW a, a = Added(c, b, inv, d), NEW x \in Int
    PROVE  /\ a \in [0 .. d -> Residue]
           /\ Eval(a, x) = (Eval(c, x) + inv * Eval(b, x)) % modulus
<1>1. PICK m \in Nat \ {0} : m = modulus
    BY ModulusFits
<1>2. \A e \in Residue : e \in Int
    BY <1>1 DEF Residue
<1>3. ASSUME NEW e \in 0 .. d
      PROVE  a[e] \in Residue /\ a[e] = (c[e] + b[e] * inv) % m
    <2>1. PICK u \in Residue, v \in Residue : u = b[e] /\ v = c[e]
        OBVIOUS
    <2>2. modMul(u, inv) = (u * inv) % modulus /\ modMul(u, inv) \in Residue
        BY MulIs
    <2>3. PICK w \in Residue : w = modMul(u, inv) /\ w \in Int
        BY <1>2, <2>2
    <2>4. u \in Int /\ v \in Int /\ inv \in Int
        BY <1>1, <1>2
    <2>5. PICK y \in Int : y = u * inv
        BY <2>4
    <2>6. modAdd(v, w) = (v + w) % modulus /\ modAdd(v, w) \in Residue
        BY <2>4, AddIs
    <2>7. ((y % m) + v) % m = (y + v) % m
        BY <2>4, ModPlus
    <2>8. w = y % m
        BY <1>1, <2>2, <2>3, <2>5
    <2>9. (y % m) + v = v + w /\ y + v = v + y
        BY <1>1, <2>4, <2>8
    <2> QED
        BY <1>1, <2>1, <2>3, <2>5, <2>6, <2>7, <2>9 DEF Added
<1> DEFINE K == 0 .. d
           A == Terms(a, x)
           B == Terms(b, x)
           C == Terms(c, x)
           E == [e \in K |-> inv * B[e]]
           D == [e \in K |-> C[e] + E[e]]
           H == [e \in K |-> A[e] % m]
<1>4. IsFiniteSet(K) /\ DOMAIN a = K /\ DOMAIN b = K /\ DOMAIN c = K /\ inv \in Int
    BY <1>1, FS_Interval DEF Added
<1>5. \A e \in K : a[e] \in Int /\ b[e] \in Int /\ c[e] \in Int
    BY <1>2, <1>3
<1>6. /\ SumOver(A, K) \in Int /\ Eval(a, x) = SumOver(A, K) % m /\ \A e \in K : A[e] \in Int
      /\ SumOver(B, K) \in Int /\ Eval(b, x) = SumOver(B, K) % m /\ \A e \in K : B[e] \in Int
      /\ SumOver(C, K) \in Int /\ Eval(c, x) = SumOver(C, K) % m /\ \A e \in K : C[e] \in Int
    BY <1>1, <1>4, <1>5, EvalIs
<1>7. PICK X : X = Power(x) /\ \A e \in Nat : X[e] \in Int
    BY PowerIs
<1>8. \A e \in K : A[e] = a[e] * X[e] /\ B[e] = b[e] * X[e] /\ C[e] = c[e] * X[e]
    BY <1>4, <1>7 DEF Terms
<1> HIDE DEF A, B, C
<1>9. \A e \in K : E[e] \in Int /\ D[e] \in Int
    BY <1>4, <1>6
<1>10. ASSUME NEW e \in K
       PROVE  D[e] % m = H[e]
    <2>1. e \in Nat
        OBVIOUS
    <2>2. PICK u \in Int, v \in Int, y \in Int : u = b[e] /\ v = c[e] /\ y = X[e]
        BY <1>5, <1>7, <2>1
    <2>3. PICK z \in Int : z = v + u * inv
        BY <1>4
    <2>4. a[e] = z % m
        BY <1>3, <2>2, <2>3
    <2>5. H[e] = ((z % m) * y) % m
        BY <1>8, <2>2, <2>4
    <2>6. H[e] = (z * y) % m
        BY <2>5, ModTimes
    <2>7. D[e] = v * y + inv * (u * y)
        BY <1>8, <2>2
    <2>8. v * y + inv * (u * y) = (v + u * inv) * y
        BY <1>4
    <2> QED
        BY <2>3, <2>6, <2>7, <2>8
<1>11. SumOver(H, K) % m = SumOver(A, K) % m /\ SumOver(H, K) % m = SumOver(D, K) % m
    <2>1. \A e \in K : A[e] \in Int /\ H[e] = A[e] % m
        BY <1>6
    <2>2. \A e \in K : D[e] \in Int /\ H[e] = D[e] % m
        BY <1>9, <1>10
    <2> HIDE DEF H, D, K
    <2> QED
        BY <1>4, <2>1, <2>2, SumReduced
<1>12. SumOver(D, K) = SumOver(C, K) + inv * SumOver(B, K)
    <2>1. \A e \in K : C[e] \in Int /\ E[e] \in Int /\ D[e] = C[e] + E[e]
        BY <1>6, <1>9
    <2>2. \A e \in K : B[e] \in Int /\ E[e] = inv * B[e]
        BY <1>6
    <2> HIDE DEF D, E, K
    <2>3. SumOver(D, K) = SumOver(C, K) + SumOver(E, K)
        BY <1>4, <2>1, SumPlus
    <2>4. SumOver(E, K) = inv * SumOver(B, K)
        BY <1>4, <2>2, SumScaled
    <2> QED
        BY <2>3, <2>4
<1> HIDE DEF D, E, H, K
<1>13. PICK s \in Int, z \in Int : s = SumOver(B, K) /\ z = SumOver(C, K)
    BY <1>6
<1>14. Eval(a, x) = (z + inv * s) % m /\ Eval(b, x) = s % m /\ Eval(c, x) = z % m
    BY <1>6, <1>11, <1>12, <1>13
<1>15. (z + inv * s) % m = ((z % m) + inv * (s % m)) % m
    <2>1. PICK y \in Int : y = s % m
        BY <1>1
    <2>2. ((s % m) * inv) % m = (s * inv) % m
        BY <1>4, ModTimes
    <2>3. PICK f \in Int, g \in Int : f = s * inv /\ g = y * inv
        BY <1>4
    <2>4. ((f % m) + z) % m = (f + z) % m /\ ((g % m) + z) % m = (g + z) % m
        BY ModPlus
    <2>5. (z + f) % m = (z + g) % m
        <3>1. f % m = g % m /\ z + f = f + z /\ z + g = g + z
            BY <2>1, <2>2, <2>3
        <3> QED
            BY <2>4, <3>1
    <2>6. ((z % m) + g) % m = (z + g) % m
        BY ModPlus
    <2>7. inv * s = f /\ inv * y = g
        BY <1>4, <2>3
    <2> QED
        BY <2>1, <2>5, <2>6, <2>7
<1>16. a \in [0 .. d -> Residue]
    BY <1>3 DEF Added
<1> QED
    BY <1>1, <1>14, <1>15, <1>16

LEMMA EvalOfOne ==
    ASSUME modulus \in Moduli, NEW p, p = [e \in {0} |-> 1], NEW x \in Int
    PROVE  p \in [0 .. 0 -> Residue] /\ Eval(p, x) = 1
<1>1. modulus \in Nat /\ modulus > 1
    BY ModulusFits
<1>2. PICK d \in Nat : d = 0 /\ 0 .. d = {0}
    OBVIOUS
<1>3. DOMAIN p = 0 .. d /\ \A e \in 0 .. d : p[e] \in Int
    BY <1>2
<1>4. Eval(p, x) = SumOver(Terms(p, x), 0 .. d) % modulus
    BY <1>3, EvalIs
<1>5. Terms(p, x)[0] = 1
    <2>1. Power(x)[0] = 1
        BY PowerIs
    <2> QED
        BY <2>1 DEF Terms
<1>6. SumOver(Terms(p, x), {0}) = 1
    <2>1. PICK nought, f : nought = 0 /\ f = Terms(p, x)
        OBVIOUS
    <2>2. IsFiniteSet({nought}) /\ f[nought] \in Int /\ \A y \in {nought} \ {nought} : f[y] = 0
        <3>1. IsFiniteSet({nought})
            BY FS_Singleton
        <3>2. f[nought] = 1
            BY <1>5, <2>1
        <3> QED
            BY <3>1, <3>2
    <2>3. SumOver(f, {nought}) = f[nought]
        BY <2>2, SumOfOne
    <2> QED
        BY <1>5, <2>1, <2>3
<1>7. 1 % modulus = 1
    <2>1. PICK one \in Int : one = 1
        OBVIOUS
    <2>2. 0 <= one /\ one < modulus
        BY <1>1, <2>1
    <2> QED
        BY <1>1, <2>1, <2>2, SmallResidue
<1>8. p \in [0 .. 0 -> Residue]
    BY <1>1, <1>2 DEF Residue
<1> QED
    BY <1>2, <1>4, <1>6, <1>7, <1>8

LEMMA EvalOfZero ==
    ASSUME modulus \in Moduli, NEW d \in Nat, NEW p, p = [e \in 0 .. d |-> 0], NEW x \in Int
    PROVE  p \in [0 .. d -> Residue] /\ Eval(p, x) = 0
<1>1. modulus \in Nat /\ modulus > 1
    BY ModulusFits
<1>2. Eval(p, x) = SumOver(Terms(p, x), 0 .. d) % modulus /\ IsFiniteSet(0 .. d)
    BY EvalIs
<1>3. \A e \in 0 .. d : Terms(p, x)[e] = 0
    <2>1. \A e \in 0 .. d : Power(x)[e] \in Int
        BY PowerIs
    <2> QED
        BY <2>1 DEF Terms
<1>4. SumOver(Terms(p, x), 0 .. d) = 0
    BY <1>2, <1>3, SumOfZeros
<1> QED
    BY <1>1, <1>2, <1>4 DEF Residue

----------------------------------------------------------------------------
(* modInverse.                                                             *)

(* The locals stay within the modulus.                                     *)
Locals ==
    /\ t \in -modulus .. modulus /\ newT \in -modulus .. modulus
    /\ r \in 0 .. modulus /\ newR \in 0 .. modulus

(* The cofactors alternate in sign, and with the remainders make up the    *)
(* modulus; what divides both remainders divides modulus and denominator.  *)
Cofactors ==
    /\ r > newR
    /\ (t * denominator - r) % modulus = 0 /\ (newT * denominator - newR) % modulus = 0
    /\ \/ t >= 0 /\ newT <= 0 /\ t * newR - newT * r = modulus
       \/ t <= 0 /\ newT >= 0 /\ newT * r - t * newR = modulus
    /\ \A d \in 1 .. modulus : r % d = 0 /\ newR % d = 0 => modulus % d = 0 /\ denominator % d = 0

(* What modInverse starts from, whatever it is given.                      *)
LEMMA InvertGives ==
    ASSUME modulus \in Moduli, ResiduesFit, denominator \in Residue, Invert
    PROVE  /\ Locals' /\ Cofactors'
           /\ t' = 0 /\ newT' = 1 /\ r' = modulus /\ newR' = denominator
<1>1. PICK m \in Nat \ {0}, den \in Nat : m = modulus /\ den = denominator /\ den < m
    BY ModulusFits DEF Residue
<1>2. /\ t' = 0 /\ newT' = 1 /\ r' = m /\ newR' = den /\ modulus' = m /\ denominator' = den
    <2>1. denominator % modulus = den
        BY <1>1, SmallResidue
    <2>2. m \in -modulus .. modulus /\ den \in -modulus .. modulus
        BY <1>1
    <2>3. Signed(modulus) = m /\ Signed(denominator % modulus) = den
        BY <1>1, <2>1, <2>2, SignedIs
    <2> QED
        BY <1>1, <2>3 DEF Invert
<1>3. Locals'
    BY <1>1, <1>2 DEF Locals
<1>4. Cofactors'
    <2>1. (0 * den - m) % m = 0 /\ (1 * den - den) % m = 0
        <3>1. PICK k \in Int, nought \in Int : k = -1 /\ nought = 0
            OBVIOUS
        <3>2. (m * k) % m = 0 /\ (m * nought) % m = 0
            BY MultipleOrNot
        <3>3. m * k = 0 * den - m /\ m * nought = 1 * den - den
            BY <3>1
        <3> QED
            BY <3>2, <3>3
    <2>2. 1 * m - 0 * den = m
        BY <1>1
    <2> QED
        BY <1>1, <1>2, <2>1, <2>2 DEF Cofactors
<1> QED
    BY <1>1, <1>2, <1>3, <1>4

(* One turn of the loop.                                                   *)
LEMMA DivideKeeps ==
    ASSUME modulus \in Moduli, ResiduesFit, denominator \in Residue, Locals, Cofactors, newR # 0,
           Divide
    PROVE  Locals' /\ Cofactors'
<1>1. PICK m \in Nat \ {0}, den \in Int : m = modulus /\ den = denominator
    BY ModulusFits DEF Residue
<1>2. /\ t \in Int /\ newT \in Int /\ r \in Nat \ {0} /\ newR \in Nat \ {0} /\ newR <= m
      /\ newR < r /\ r <= m
    BY <1>1 DEF Locals, Cofactors
<1>3. PICK q : q = r \div newR
    OBVIOUS
<1>4. /\ t' = newT /\ newT' = Signed(t - q * newT) /\ r' = newR
      /\ newR' = Signed(r - q * newR) /\ modulus' = m /\ denominator' = den
    <2>1. GoQuotient(r, newR) = q
        BY <1>2, <1>3 DEF GoQuotient, Magnitude
    <2> QED
        BY <1>1, <2>1 DEF Divide, NextCofactor
<1>5. q \in Nat /\ newR' \in 0 .. newR - 1 /\ r = q * newR + newR'
    <2>1. PICK k \in Nat, l \in Nat \ {0} : k = r /\ l = newR
        BY <1>2
    <2>2. k \div l \in Nat /\ k % l \in 0 .. l - 1 /\ k = (k \div l) * l + (k % l)
        BY Division
    <2>3. q = k \div l
        BY <1>3, <2>1
    <2>4. PICK s \in 0 .. l - 1, z \in Int : s = k % l /\ z = q * l /\ k = z + s /\ q \in Nat
        BY <2>2, <2>3
    <2>5. Signed(s) = s
        <3>1. s \in -modulus .. modulus
            BY <1>1, <1>2, <2>1, <2>4
        <3> QED
            BY <3>1, SignedIs
    <2>6. newR' = s
        <3>1. k - z = s
            BY <2>4
        <3> QED
            BY <1>4, <2>1, <2>4, <2>5, <3>1
    <2> QED
        BY <2>1, <2>4, <2>6
<1>6. PICK a \in Int, b \in Int, c \in Nat, d \in Nat, e \in Nat :
          a = t /\ b = newT /\ c = r /\ d = newR /\ e = newR'
    <2>1. newR' \in Nat
        BY <1>2, <1>5
    <2> QED
        BY <1>2, <2>1
<1>7. /\ t' = b /\ newT' = Signed(a - q * b) /\ r' = d /\ newR' = e /\ e < d
      /\ c = q * d + e /\ d \in Nat \ {0} /\ d <= m
    BY <1>2, <1>4, <1>5, <1>6
<1>8. (b * den - d) % m = 0 /\ ((a - q * b) * den - e) % m = 0
    <2>1. PICK x \in Int, y \in Int : x = a * den - c /\ y = b * den - d
        OBVIOUS
    <2>2. x % m = 0 /\ y % m = 0
        <3>1. (t * denominator - r) % modulus = 0 /\ (newT * denominator - newR) % modulus = 0
            BY DEF Cofactors
        <3>2. (a * den - c) % m = 0 /\ (b * den - d) % m = 0
            BY <1>1, <1>6, <3>1
        <3> QED
            BY <2>1, <3>2
    <2>3. (x - q * y) % m = 0
        <3>1. m \in Nat \ {0} /\ q \in Int
            BY <1>5
        <3> QED
            BY <2>2, <3>1, MultipleMinus
    <2>4. x - q * y = (a - q * b) * den - e
        <3>1. x - q * y = (a * den - c) - q * (b * den - d)
            BY <2>1
        <3>2. e = c - q * d
            BY <1>5, <1>7
        <3>3. (a * den - c) - q * (b * den - d) = (a - q * b) * den - (c - q * d)
            BY <1>5
        <3> QED
            BY <3>1, <3>2, <3>3
    <2> QED
        BY <2>1, <2>2, <2>3, <2>4
<1>9. \/ b >= 0 /\ a - q * b <= 0 /\ b * e - (a - q * b) * d = m
      \/ b <= 0 /\ a - q * b >= 0 /\ (a - q * b) * d - b * e = m
    <2>1. e = c - q * d
        BY <1>5, <1>7
    <2>2. b * (c - q * d) - (a - q * b) * d = b * c - a * d
        BY <1>5
    <2>3. (a - q * b) * d - b * (c - q * d) = a * d - b * c
        BY <1>5
    <2>4. CASE a >= 0 /\ b <= 0 /\ a * d - b * c = m
        <3>1. q * b <= 0
            BY <1>5, <2>4
        <3>2. PICK z \in Int : z = q * b
            BY <1>5
        <3>3. a - q * b >= 0
            BY <2>4, <3>1, <3>2
        <3> QED
            BY <2>1, <2>3, <2>4, <3>3
    <2>5. CASE a <= 0 /\ b >= 0 /\ b * c - a * d = m
        <3>1. q * b >= 0
            BY <1>5, <2>5
        <3>2. PICK z \in Int : z = q * b
            BY <1>5
        <3>3. a - q * b <= 0
            BY <2>5, <3>1, <3>2
        <3> QED
            BY <2>1, <2>2, <2>5, <3>3
    <2> QED
        BY <1>1, <1>6, <2>4, <2>5 DEF Cofactors
<1>10. ASSUME NEW f \in 1 .. m, d % f = 0, e % f = 0
       PROVE  m % f = 0 /\ den % f = 0
    <2>1. f \in Nat \ {0}
        OBVIOUS
    <2>2. (e + q * d) % f = 0
        <3>1. e \in Int /\ d \in Int /\ q \in Int /\ e % f = 0 /\ d % f = 0
            BY <1>5, <1>10
        <3> QED
            BY <2>1, <3>1, MultipleMinus
    <2>3. e + q * d = c
        <3>1. PICK z \in Int : z = q * d
            BY <1>5
        <3> QED
            BY <1>7, <3>1
    <2>4. c % f = 0
        BY <2>2, <2>3
    <2> QED
        BY <1>1, <1>6, <1>10, <2>4 DEF Cofactors
<1>11. newT' = a - q * b /\ newT' \in -m .. m
    <2>1. PICK x \in Int, y \in Int, z \in Int : x = a - q * b /\ y = b * e /\ z = x * d
        BY <1>5
    <2>2. ASSUME b >= 0, x <= 0, y - z = m
          PROVE  x \in -m .. m
        <3>1. y >= 0
            BY <2>1, <2>2
        <3>2. z >= -m
            BY <2>2, <3>1
        <3>3. z <= x
            <4>1. PICK k \in Nat : k = -x
                BY <2>2
            <4>2. PICK one \in Nat : one = 1
                OBVIOUS
            <4>3. one * k <= d * k
                BY <1>7, <4>2, TimesMonotone
            <4>4. z = -(d * k) /\ d * k \in Int
                BY <2>1, <4>1
            <4> QED
                BY <4>1, <4>2, <4>3, <4>4
        <3> QED
            BY <1>7, <2>1, <2>2, <3>2, <3>3
    <2>3. ASSUME b <= 0, x >= 0, z - y = m
          PROVE  x \in -m .. m
        <3>1. y <= 0
            BY <2>1, <2>3
        <3>2. z <= m
            BY <2>3, <3>1
        <3>3. x <= z
            <4>1. PICK one \in Nat : one = 1
                OBVIOUS
            <4>2. one * x <= d * x
                BY <1>7, <2>3, <4>1, TimesMonotone
            <4>3. z = d * x
                BY <2>1
            <4> QED
                BY <4>1, <4>2, <4>3
        <3> QED
            BY <1>7, <2>1, <2>3, <3>2, <3>3
    <2>4. x \in -m .. m
        BY <1>9, <2>1, <2>2, <2>3
    <2>5. Signed(x) = x
        BY <1>1, <2>4, SignedIs
    <2> QED
        BY <1>7, <2>1, <2>4, <2>5
<1>12. /\ t' * denominator' - r' = b * den - d
       /\ newT' * denominator' - newR' = (a - q * b) * den - e
    BY <1>4, <1>7, <1>11
<1>13. Cofactors'
    <2>1. r' > newR'
        BY <1>7
    <2>2. (t' * denominator' - r') % modulus' = 0 /\ (newT' * denominator' - newR') % modulus' = 0
        BY <1>4, <1>8, <1>12
    <2>3. \/ t' >= 0 /\ newT' <= 0 /\ t' * newR' - newT' * r' = modulus'
          \/ t' <= 0 /\ newT' >= 0 /\ newT' * r' - t' * newR' = modulus'
        BY <1>4, <1>7, <1>9, <1>11
    <2>4. \A f \in 1 .. modulus' : r' % f = 0 /\ newR' % f = 0
              => modulus' % f = 0 /\ denominator' % f = 0
        BY <1>4, <1>7, <1>10
    <2> QED
        BY <2>1, <2>2, <2>3, <2>4 DEF Cofactors
<1>14. Locals'
    <2>1. b \in -m .. m
        BY <1>1, <1>6 DEF Locals
    <2>2. d \in 0 .. m /\ e \in 0 .. m
        BY <1>7
    <2> QED
        BY <1>4, <1>7, <1>11, <2>1, <2>2 DEF Locals
<1> QED
    BY <1>13, <1>14

(* At the end the remainder is one: modInverse's assertion holds.          *)
LEMMA EndsAtOne ==
    ASSUME modulus \in Moduli, denominator \in Residue, denominator # 0, Locals, Cofactors,
           newR = 0
    PROVE  r = 1
<1>1. PICK m \in Nat \ {0} : m = modulus /\ \A d \in 2 .. m - 1 : m % d # 0
    BY ModulusFits
<1>2. r \in 1 .. m
    BY <1>1 DEF Locals, Cofactors
<1>3. r % r = 0 /\ 0 % r = 0
    <2>1. PICK k \in Nat \ {0}, one \in Int, nought \in Int : k = r /\ one = 1 /\ nought = 0
        BY <1>2
    <2>2. (k * one) % k = 0 /\ (k * nought) % k = 0
        BY MultipleOrNot
    <2> QED
        BY <2>1, <2>2
<1>4. m % r = 0 /\ denominator % r = 0
    BY <1>1, <1>2, <1>3 DEF Cofactors
<1>5. r # m
    <2>1. denominator % m = denominator
        BY <1>1 DEF Residue
    <2> QED
        BY <1>4, <2>1
<1> QED
    BY <1>1, <1>2, <1>4, <1>5

LEMMA InverseIs ==
    ASSUME modulus \in Moduli, ResiduesFit, denominator \in Residue, Locals, Cofactors, newR = 0, r = 1
    PROVE  modInverse \in 0 .. modulus /\ (modInverse * denominator) % modulus = 1
<1>1. PICK m \in Nat \ {0}, den \in Int : m = modulus /\ den = denominator /\ m > 1
    BY ModulusFits DEF Residue
<1>2. PICK size \in Nat \ {0} : size = Word /\ m < size
    <2>1. PICK size \in Nat : size = Word
        BY WordSize
    <2>2. m < size
        BY <1>1, <2>1, ModulusFits
    <2> QED
        BY <1>1, <2>1, <2>2
<1>3. PICK v \in 0 .. m : v = IF t < 0 THEN t + m ELSE t
    BY <1>1 DEF Locals
<1>4. modInverse = v
    <2>1. v % size = v
        BY <1>1, <1>2, <1>3, SmallResidue
    <2>2. Signed(modulus) = m
        <3>1. modulus \in -modulus .. modulus
            BY <1>1
        <3> QED
            BY <1>1, <3>1, SignedIs
    <2> QED
        BY <1>1, <1>2, <1>3, <2>1, <2>2 DEF modInverse, Unsigned
<1>5. (v * den - 1) % m = 0
    <2>1. PICK a \in Int : a = t /\ (a * den - 1) % m = 0
        BY <1>1 DEF Locals, Cofactors
    <2>2. CASE t < 0
        <3>1. PICK x \in Int, y \in Int : x = a * den - 1 /\ y = m * den
            BY <1>1
        <3>2. y % m = 0
            BY <3>1, MultipleOrNot
        <3>3. PICK one \in Int : one = 1
            OBVIOUS
        <3>4. (x + one * y) % m = 0
            BY <2>1, <3>1, <3>2, <3>3, MultipleMinus
        <3>5. x + one * y = (a + m) * den - 1
            BY <3>1, <3>3
        <3> QED
            BY <1>3, <2>1, <2>2, <3>4, <3>5
    <2>3. CASE ~(t < 0)
        BY <1>3, <2>1, <2>3
    <2> QED
        BY <2>2, <2>3
<1>6. (v * den) % m = 1
    <2>1. PICK k \in Int : v * den - 1 = m * k
        <3>1. v * den - 1 \in Int
            OBVIOUS
        <3> QED
            BY <1>5, <3>1, MultipleOrNot
    <2>2. PICK one \in 0 .. m - 1 : one = 1
        BY <1>1
    <2>3. (m * k + one) % m = one
        BY <2>2, ModOfMultiple
    <2>4. v * den = m * k + one
        <3>1. PICK x \in Int, y \in Int : x = v * den /\ y = m * k
            OBVIOUS
        <3> QED
            BY <2>1, <2>2, <3>1
    <2> QED
        BY <2>2, <2>3, <2>4
<1> QED
    BY <1>1, <1>3, <1>4, <1>6

(* A polynomial is evaluated alike before and after a step.                *)
LEMMA EvalPrime ==
    ASSUME modulus' = modulus
    PROVE  \A x : Eval(basis, x)' = Eval(basis', x) /\ Eval(coeffs, x)' = Eval(coeffs', x)
BY DEF Eval, Power, Sets!MapThenSumSet, Sets!MapThenFoldSet

LEMMA EvalPrimeAtTheNode ==
    ASSUME modulus' = modulus
    PROVE  Eval(basis, i)' = Eval(basis', i')
BY DEF Eval, Power, Sets!MapThenSumSet, Sets!MapThenFoldSet

----------------------------------------------------------------------------
(* The loops of lagrangeIndicatorCoefficients.                             *)

(* How many factors the basis polynomial has.                              *)
Multiplied == IF j > i THEN j - 1 ELSE j

(* Where the loops are: a node above half is left out of its own product.  *)
Loops ==
    /\ modulus \in Moduli /\ ProductsFit /\ T \in 0 .. MaxPeriods /\ T < modulus
    /\ i \in 0 .. T + 1 /\ j \in 0 .. T + 1
    /\ pc \in {"node", "factors", "inverse", "done"}
    /\ pc \in {"factors", "inverse"} => i <= T /\ 2 * i > T
    /\ pc = "inverse" => j = T + 1
    /\ pc = "done" => i = T + 1

(* The basis polynomial grows by a degree with every factor.               *)
Polynomials ==
    /\ denominator \in Residue /\ coeffs \in [0 .. T -> Residue]
    /\ \E d \in 0 .. T : /\ basis \in [0 .. d -> Residue]
                         /\ pc \in {"factors", "inverse"} => d = Multiplied

Done(x) == x < i /\ 2 * x > T

NodesDone == \A x \in 0 .. T : Eval(coeffs, x) = IF Done(x) THEN 1 ELSE 0

(* Of each majority below the node at hand the polynomial is one already.  *)
(* While modInverse runs its cofactors are related to what it inverts.     *)
LagrangeInv ==
    /\ Loops /\ Polynomials /\ BasisSeparatesTheNode /\ NodesDone /\ Locals
    /\ pc = "inverse" => Cofactors

LEMMA LoopBounds ==
    ASSUME Loops
    PROVE  /\ modulus \in Nat \ {0} /\ modulus > 1 /\ T \in Nat /\ i \in Nat /\ j \in Nat
           /\ T < modulus /\ i <= T + 1 /\ j <= T + 1
BY ModulusFits DEF Loops

(* Steps between the nodes leave the result, and what it says, alone.      *)
LEMMA NodesDoneStays ==
    ASSUME LagrangeInv, modulus' = modulus, T' = T, coeffs' = coeffs,
           \A x \in 0 .. T : Done(x)' <=> Done(x)
    PROVE  NodesDone'
<1>1. ASSUME NEW x \in 0 .. T
      PROVE  Eval(coeffs, x)' = IF Done(x)' THEN 1 ELSE 0
    <2>1. Eval(coeffs, x)' = Eval(coeffs, x)
        BY EvalPrime
    <2> QED
        BY <2>1 DEF LagrangeInv, NodesDone
<1> QED
    BY <1>1 DEF NodesDone

LEMMA PolynomialsStay ==
    ASSUME LagrangeInv, modulus' = modulus, T' = T, i' = i, j' = j, basis' = basis,
           denominator' = denominator, coeffs' = coeffs,
           pc' \in {"factors", "inverse"} => pc \in {"factors", "inverse"}
    PROVE  Polynomials' /\ BasisSeparatesTheNode' /\ NodesDone'
<1>1. Polynomials'
    <2>1. Residue' = Residue /\ Multiplied' = Multiplied
        BY DEF Residue, Multiplied
    <2> QED
        BY <2>1 DEF LagrangeInv, Polynomials
<1>2. BasisSeparatesTheNode'
    <2>1. Eval(basis, i)' = Eval(basis, i)
        BY EvalPrimeAtTheNode
    <2>2. \A x : Eval(basis, x)' = Eval(basis, x)
        BY EvalPrime
    <2> QED
        BY <2>1, <2>2 DEF LagrangeInv, BasisSeparatesTheNode
<1>3. NodesDone'
    BY NodesDoneStays DEF Done
<1> QED
    BY <1>1, <1>2, <1>3

LEMMA LagrangeStarts ==
    ASSUME LagrangeInit, ProductsFit
    PROVE  LagrangeInv
<1>1. Loops
    BY ModulusFits DEF LagrangeInit, Loops
<1>2. modulus \in Moduli /\ ProductsFit /\ modulus \in Nat \ {0} /\ modulus > 1 /\ T \in Nat
    BY <1>1, LoopBounds DEF Loops
<1>3. basis = [e \in {0} |-> 1] /\ coeffs = [e \in 0 .. T |-> 0] /\ denominator = 1 /\ i = 0
    BY DEF LagrangeInit
<1>4. basis \in [0 .. 0 -> Residue]
    <2>1. PICK x \in Int : x = 0
        OBVIOUS
    <2> QED
        BY <1>2, <1>3, <2>1, EvalOfOne
<1>5. coeffs \in [0 .. T -> Residue] /\ \A x \in Int : Eval(coeffs, x) = 0
    <2>1. ASSUME NEW x \in Int
          PROVE  coeffs \in [0 .. T -> Residue] /\ Eval(coeffs, x) = 0
        BY <1>2, <1>3, EvalOfZero
    <2> QED
        BY <2>1
<1>6. Polynomials
    <2>1. pc = "node" /\ 0 \in 0 .. T
        BY <1>2 DEF LagrangeInit
    <2>2. denominator \in Residue
        BY <1>2, <1>3 DEF Residue
    <2> QED
        BY <1>4, <1>5, <2>1, <2>2 DEF Polynomials
<1>7. NodesDone
    BY <1>2, <1>3, <1>5 DEF NodesDone, Done
<1>8. BasisSeparatesTheNode /\ (pc = "inverse" => Cofactors)
    BY DEF LagrangeInit, BasisSeparatesTheNode
<1>9. Locals
    BY <1>2 DEF LagrangeInit, Locals
<1> QED
    BY <1>1, <1>6, <1>7, <1>8, <1>9 DEF LagrangeInv

LEMMA SkipKeeps ==
    ASSUME LagrangeInv, Skip
    PROVE  LagrangeInv'
<1>1. /\ modulus' = modulus /\ T' = T /\ i' = i + 1 /\ j' = j /\ basis' = basis
      /\ denominator' = denominator /\ coeffs' = coeffs
      /\ t' = t /\ newT' = newT /\ r' = r /\ newR' = newR
      /\ pc = "node" /\ pc' = "node" /\ i <= T /\ i <= T \div 2
    BY DEF Skip, Skipped, euclid
<1>2. /\ modulus \in Nat \ {0} /\ modulus > 1 /\ T \in Nat /\ i \in Nat /\ j \in Nat
    BY LoopBounds DEF LagrangeInv
<1>3. Loops'
    BY <1>1, <1>2 DEF LagrangeInv, Loops, ProductsFit, Word
<1>4. Polynomials'
    BY <1>1 DEF LagrangeInv, Polynomials, Residue
<1>5. NodesDone'
    BY <1>1, <1>2, NodesDoneStays DEF Done
<1>6. Locals' /\ BasisSeparatesTheNode' /\ (pc' = "inverse" => Cofactors')
    BY <1>1 DEF LagrangeInv, Locals, BasisSeparatesTheNode
<1> QED
    BY <1>3, <1>4, <1>5, <1>6 DEF LagrangeInv

LEMMA NodeKeeps ==
    ASSUME LagrangeInv, Node
    PROVE  LagrangeInv'
<1>1. /\ modulus' = modulus /\ T' = T /\ i' = i /\ j' = 0 /\ basis' = [e \in {0} |-> 1]
      /\ denominator' = 1 /\ coeffs' = coeffs
      /\ t' = t /\ newT' = newT /\ r' = r /\ newR' = newR
      /\ pc = "node" /\ pc' = "factors" /\ i <= T /\ ~(i <= T \div 2)
    BY DEF Node, Skipped, euclid
<1>2. /\ modulus \in Nat \ {0} /\ modulus > 1 /\ T \in Nat /\ i \in Nat /\ j \in Nat
      /\ modulus \in Moduli /\ ProductsFit
    BY LoopBounds DEF LagrangeInv, Loops, ProductsFit, Word
<1>3. Loops'
    BY <1>1, <1>2 DEF LagrangeInv, Loops, ProductsFit, Word
<1>4. basis' \in [0 .. 0 -> Residue] /\ Eval(basis', i) = 1
    BY <1>1, <1>2, EvalOfOne
<1>5. Polynomials'
    <2>1. Residue' = Residue
        BY <1>1 DEF Residue
    <2>2. 1 \in Residue /\ 0 \in 0 .. T /\ Multiplied' = 0
        BY <1>1, <1>2 DEF Residue, Multiplied
    <2> QED
        BY <1>1, <1>4, <2>1, <2>2 DEF LagrangeInv, Polynomials
<1>6. NodesDone'
    BY <1>1, <1>2, NodesDoneStays DEF Done
<1>7. BasisSeparatesTheNode'
    <2>1. Eval(basis, i)' = Eval(basis', i)
        BY <1>1, EvalPrimeAtTheNode
    <2>2. \A x \in 0 .. j' - 1 : FALSE
        BY <1>1
    <2> QED
        BY <1>1, <1>4, <2>1, <2>2 DEF BasisSeparatesTheNode
<1>8. Locals' /\ (pc' = "inverse" => Cofactors')
    BY <1>1 DEF LagrangeInv, Locals
<1> QED
    BY <1>3, <1>5, <1>6, <1>7, <1>8 DEF LagrangeInv

(* The factor of another node.                                             *)
LEMMA FactorKeepsTheBasis ==
    ASSUME LagrangeInv, Factor, ~LeftOut(j)
    PROVE  Polynomials' /\ BasisSeparatesTheNode'
<1>1. /\ modulus' = modulus /\ T' = T /\ i' = i /\ j' = j + 1 /\ basis' = NextBasis(j)
      /\ denominator' = modMul(denominator, modReduceSigned(i - j)) /\ coeffs' = coeffs
      /\ pc = "factors" /\ pc' = "factors" /\ j <= T /\ j # i
    BY DEF Factor, LeftOut
<1>2. /\ modulus \in Nat \ {0} /\ modulus > 1 /\ T \in Nat /\ i \in Nat /\ j \in Nat
      /\ modulus \in Moduli /\ ProductsFit /\ i <= T /\ T < modulus /\ j < modulus
    <2>1. Loops
        BY DEF LagrangeInv
    <2> QED
        BY <1>1, <2>1, LoopBounds DEF Loops
<1>3. PICK d \in 0 .. T : basis \in [0 .. d -> Residue] /\ d = Multiplied
    BY <1>1 DEF LagrangeInv, Polynomials
<1>4. d \in Nat /\ d + 1 \in 0 .. T /\ d + 1 = Multiplied'
    BY <1>1, <1>2, <1>3 DEF Multiplied
<1>5. basis' \in [0 .. d + 1 -> Residue]
    BY <1>1, <1>2, <1>3, <1>4, NextBasisCoefficients
<1>6. ASSUME NEW x \in Int
      PROVE  Eval(basis', x) = (Eval(basis, x) * (x - j)) % modulus
    BY <1>1, <1>2, <1>3, <1>4, NextBasisIs
<1>7. denominator \in Residue /\ denominator \in Int /\ denominator # 0
      /\ Eval(basis, i) = denominator
      /\ \A x \in 0 .. j - 1 : x # i => Eval(basis, x) = 0
    BY <1>1 DEF LagrangeInv, Polynomials, BasisSeparatesTheNode, Residue
<1>8. PICK v \in Int, w \in 0 .. modulus - 1 : v = i - j /\ w = v % modulus
    BY <1>2
<1>9. denominator' = (denominator * w) % modulus /\ denominator' \in Residue
    <2>1. modReduceSigned(v) = w
        BY <1>2, <1>8, ReduceSignedIs
    <2>2. w \in 0 .. modulus
        BY <1>2, <1>8
    <2>3. modMul(denominator, w) = (denominator * w) % modulus /\ modMul(denominator, w) \in Residue
        BY <1>2, <1>7, <2>2, MulIs
    <2> QED
        BY <1>1, <1>8, <2>1, <2>3
<1>10. (denominator * v) % modulus = (denominator * w) % modulus
    <2>1. (v * denominator) % modulus = (w * denominator) % modulus
        BY <1>2, <1>7, <1>8, ModTimes
    <2>2. v * denominator = denominator * v /\ w * denominator = denominator * w
        BY <1>7, <1>8
    <2> QED
        BY <2>1, <2>2
<1>11. Eval(basis', i) = denominator'
    <2>1. i \in Int
        BY <1>2
    <2>2. Eval(basis', i) = (Eval(basis, i) * (i - j)) % modulus
        BY <1>6, <2>1
    <2> QED
        BY <1>7, <1>8, <1>9, <1>10, <2>2
<1>12. denominator' # 0
    <2>1. v # 0 /\ -modulus < v /\ v < modulus
        BY <1>1, <1>2, <1>8
    <2>2. w # 0
        BY <1>2, <1>8, <2>1, SmallResidue
    <2>3. PICK m \in Nat : m = modulus /\ m > 1 /\ \A f \in 2 .. m - 1 : m % f # 0
        BY <1>2, ModulusFits
    <2>4. denominator \in 1 .. m - 1 /\ w \in 1 .. m - 1
        BY <1>2, <1>7, <1>8, <2>2, <2>3 DEF Residue
    <2>5. (denominator * w) % m # 0
        BY <2>3, <2>4, PrimeDividesNoProduct
    <2> QED
        BY <1>9, <2>3, <2>5
<1>13. ASSUME NEW x \in 0 .. j, x # i
       PROVE  Eval(basis', x) = 0
    <2>1. CASE x = j
        <3>1. Eval(basis', x) = (Eval(basis, x) * 0) % modulus
            BY <1>2, <1>6, <2>1
        <3>2. Eval(basis, x) \in Int
            BY <1>2, <1>3, EvalIs DEF Residue
        <3> QED
            BY <1>2, <3>1, <3>2
    <2>2. CASE x # j
        <3>1. x \in 0 .. j - 1 /\ x - j \in Int
            BY <1>2, <2>2
        <3>2. Eval(basis', x) = (0 * (x - j)) % modulus
            BY <1>6, <1>7, <1>13, <3>1
        <3> QED
            BY <1>2, <3>1, <3>2
    <2> QED
        BY <2>1, <2>2
<1>14. Polynomials'
    <2>1. Residue' = Residue
        BY <1>1 DEF Residue
    <2>2. coeffs' \in [0 .. T' -> Residue']
        BY <1>1, <2>1 DEF LagrangeInv, Polynomials
    <2> QED
        BY <1>1, <1>4, <1>5, <1>9, <2>1, <2>2 DEF Polynomials
<1>15. BasisSeparatesTheNode'
    <2>1. Eval(basis, i)' = Eval(basis', i)
        BY <1>1, EvalPrimeAtTheNode
    <2>2. \A x : Eval(basis, x)' = Eval(basis', x)
        BY <1>1, EvalPrime
    <2>3. 0 .. j' - 1 = 0 .. j
        BY <1>1, <1>2
    <2> QED
        BY <1>1, <1>11, <1>12, <1>13, <2>1, <2>2, <2>3 DEF BasisSeparatesTheNode
<1> QED
    BY <1>14, <1>15

LEMMA FactorKeeps ==
    ASSUME LagrangeInv, Factor
    PROVE  LagrangeInv'
<1>1. /\ modulus' = modulus /\ T' = T /\ i' = i /\ j' = j + 1 /\ coeffs' = coeffs
      /\ t' = t /\ newT' = newT /\ r' = r /\ newR' = newR
      /\ pc = "factors" /\ pc' = "factors" /\ j <= T
    BY DEF Factor, euclid
<1>2. /\ modulus \in Nat \ {0} /\ modulus > 1 /\ T \in Nat /\ i \in Nat /\ j \in Nat
      /\ modulus \in Moduli
    BY LoopBounds DEF LagrangeInv, Loops, ProductsFit, Word
<1>3. Loops'
    BY <1>1, <1>2 DEF LagrangeInv, Loops, ProductsFit, Word
<1>4. NodesDone'
    BY <1>1, <1>2, NodesDoneStays DEF Done
<1>5. Locals' /\ (pc' = "inverse" => Cofactors')
    BY <1>1 DEF LagrangeInv, Locals
<1>6. CASE LeftOut(j)
    <2>1. basis' = basis /\ denominator' = denominator /\ j = i
        BY <1>6 DEF Factor, LeftOut
    <2>2. Multiplied' = Multiplied
        BY <1>1, <1>2, <2>1 DEF Multiplied
    <2>3. Polynomials'
        <3>1. Residue' = Residue
            BY <1>1 DEF Residue
        <3> QED
            BY <1>1, <2>1, <2>2, <3>1 DEF LagrangeInv, Polynomials
    <2>4. BasisSeparatesTheNode'
        <3>1. /\ \A x \in 0 .. j - 1 : x # i => Eval(basis, x) = 0
              /\ Eval(basis, i) = denominator /\ denominator # 0
            BY <1>1 DEF LagrangeInv, BasisSeparatesTheNode
        <3>2. \A x \in 0 .. j' - 1 : x # i => x \in 0 .. j - 1
            BY <1>1, <1>2, <2>1
        <3>3. Eval(basis, i)' = Eval(basis, i)
            BY <1>1, <2>1, EvalPrimeAtTheNode
        <3>4. \A x : Eval(basis, x)' = Eval(basis, x)
            BY <1>1, <2>1, EvalPrime
        <3> QED
            BY <1>1, <2>1, <3>1, <3>2, <3>3, <3>4 DEF BasisSeparatesTheNode
    <2> QED
        BY <1>3, <1>4, <1>5, <2>3, <2>4 DEF LagrangeInv
<1>7. CASE ~LeftOut(j)
    BY <1>3, <1>4, <1>5, <1>7, FactorKeepsTheBasis DEF LagrangeInv
<1> QED
    BY <1>6, <1>7

LEMMA InvertKeeps ==
    ASSUME LagrangeInv, Invert
    PROVE  LagrangeInv'
<1>1. /\ modulus' = modulus /\ T' = T /\ i' = i /\ j' = j /\ basis' = basis
      /\ denominator' = denominator /\ coeffs' = coeffs
      /\ pc = "factors" /\ pc' = "inverse" /\ j > T
    BY DEF Invert
<1>2. /\ modulus \in Nat \ {0} /\ modulus > 1 /\ T \in Nat /\ i \in Nat /\ j \in Nat
      /\ modulus \in Moduli /\ ProductsFit /\ denominator \in Residue
    BY LoopBounds DEF LagrangeInv, Loops, Polynomials
<1>3. Loops'
    BY <1>1, <1>2 DEF LagrangeInv, Loops, ProductsFit, Word
<1>4. Polynomials' /\ BasisSeparatesTheNode' /\ NodesDone'
    BY <1>1, PolynomialsStay
<1>5. Locals' /\ Cofactors'
    BY <1>2, ProductsFitResidues, InvertGives
<1> QED
    BY <1>3, <1>4, <1>5 DEF LagrangeInv

LEMMA DivideKeepsAll ==
    ASSUME LagrangeInv, Divide
    PROVE  LagrangeInv'
<1>1. /\ modulus' = modulus /\ T' = T /\ i' = i /\ j' = j /\ basis' = basis
      /\ denominator' = denominator /\ coeffs' = coeffs
      /\ pc = "inverse" /\ pc' = "inverse" /\ newR # 0
    BY DEF Divide
<1>2. Loops'
    BY <1>1 DEF LagrangeInv, Loops, ProductsFit, Word
<1>3. Polynomials' /\ BasisSeparatesTheNode' /\ NodesDone'
    BY <1>1, PolynomialsStay
<1>4. Locals' /\ Cofactors'
    <2>1. modulus \in Moduli /\ ResiduesFit /\ denominator \in Residue
        BY ProductsFitResidues DEF LagrangeInv, Loops, Polynomials
    <2>2. Locals /\ Cofactors
        BY <1>1 DEF LagrangeInv
    <2> QED
        BY <1>1, <2>1, <2>2, DivideKeeps
<1> QED
    BY <1>1, <1>2, <1>3, <1>4 DEF LagrangeInv

(* The scaled basis polynomial makes its own node a majority.              *)
LEMMA AddBasisKeeps ==
    ASSUME LagrangeInv, AddBasis
    PROVE  LagrangeInv'
<1>1. /\ modulus' = modulus /\ T' = T /\ i' = i + 1 /\ j' = j /\ basis' = basis
      /\ denominator' = denominator
      /\ coeffs' = [e \in 0 .. T |-> modAdd(coeffs[e], modMul(basis[e], modInverse))]
      /\ t' = t /\ newT' = newT /\ r' = r /\ newR' = newR
      /\ pc = "inverse" /\ pc' = "node" /\ newR = 0 /\ r = 1
    BY DEF AddBasis, euclid
<1>2. /\ modulus \in Nat \ {0} /\ modulus > 1 /\ T \in Nat /\ i \in Nat /\ j \in Nat
      /\ modulus \in Moduli /\ ProductsFit /\ i <= T /\ j = T + 1 /\ 2 * i > T
    <2>1. Loops
        BY DEF LagrangeInv
    <2> QED
        BY <1>1, <2>1, LoopBounds DEF Loops
<1>3. Loops'
    BY <1>1, <1>2 DEF LagrangeInv, Loops, ProductsFit, Word
<1>4. basis \in [0 .. T -> Residue] /\ coeffs \in [0 .. T -> Residue] /\ denominator \in Residue
    <2>1. Multiplied = T
        BY <1>2 DEF Multiplied
    <2> QED
        BY <1>1, <2>1 DEF LagrangeInv, Polynomials
<1>5. modInverse \in 0 .. modulus /\ (modInverse * denominator) % modulus = 1
    BY <1>1, <1>2, <1>4, ProductsFitResidues, InverseIs DEF LagrangeInv
<1>6. PICK inv \in 0 .. modulus : inv = modInverse /\ (inv * denominator) % modulus = 1
    BY <1>5
<1>7. PICK a : a = coeffs' /\ a = Added(coeffs, basis, inv, T)
    BY <1>1, <1>6 DEF Added
<1>8. ASSUME NEW x \in Int
      PROVE  /\ a \in [0 .. T -> Residue]
             /\ Eval(a, x) = (Eval(coeffs, x) + inv * Eval(basis, x)) % modulus
    BY <1>2, <1>4, <1>7, AddedIs
<1>9. a \in [0 .. T -> Residue]
    <2>1. PICK x \in Int : x = 0
        OBVIOUS
    <2> QED
        BY <1>8, <2>1
<1>10. Polynomials'
    <2>1. Residue' = Residue
        BY <1>1 DEF Residue
    <2>2. basis' \in [0 .. T -> Residue'] /\ denominator' \in Residue'
        BY <1>1, <1>4, <2>1
    <2>3. coeffs' \in [0 .. T' -> Residue']
        BY <1>1, <1>7, <1>9, <2>1
    <2>4. T \in 0 .. T'
        BY <1>1, <1>2
    <2> QED
        BY <1>1, <2>2, <2>3, <2>4 DEF Polynomials
<1>11. ASSUME NEW x \in 0 .. T
       PROVE  Eval(a, x) = IF x < i + 1 /\ 2 * x > T THEN 1 ELSE 0
    <2>1. Eval(coeffs, x) = IF x < i /\ 2 * x > T THEN 1 ELSE 0
        BY DEF LagrangeInv, NodesDone, Done
    <2>2. Eval(a, x) = (Eval(coeffs, x) + inv * Eval(basis, x)) % modulus
        BY <1>8
    <2>3. CASE x = i
        <3>1. Eval(basis, x) = denominator
            BY <1>1, <2>3 DEF LagrangeInv, BasisSeparatesTheNode
        <3>2. Eval(coeffs, x) = 0
            BY <1>2, <2>1, <2>3
        <3>3. Eval(a, x) = (0 + inv * denominator) % modulus
            BY <2>2, <3>1, <3>2
        <3>4. 0 + inv * denominator = inv * denominator
            BY <1>2, <1>4 DEF Residue
        <3>5. Eval(a, x) = 1
            BY <1>6, <3>3, <3>4
        <3> QED
            BY <1>2, <2>3, <3>5
    <2>4. CASE x # i
        <3>1. x \in 0 .. j - 1
            BY <1>2
        <3>2. Eval(basis, x) = 0
            BY <1>1, <2>4, <3>1 DEF LagrangeInv, BasisSeparatesTheNode
        <3>3. PICK y \in 0 .. 1 : y = Eval(coeffs, x)
            BY <2>1
        <3>4. y + inv * 0 = y
            BY <1>2
        <3>5. y % modulus = y
            BY <1>2, <3>3, SmallResidue
        <3>6. Eval(a, x) = y
            BY <2>2, <3>2, <3>3, <3>4, <3>5
        <3>7. x < i + 1 <=> x < i
            BY <1>2, <2>4
        <3> QED
            BY <2>1, <3>3, <3>6, <3>7
    <2> QED
        BY <2>3, <2>4
<1>12. NodesDone'
    <2>1. ASSUME NEW x \in 0 .. T
          PROVE  Eval(coeffs, x)' = IF Done(x)' THEN 1 ELSE 0
        <3>1. Done(x)' <=> x < i + 1 /\ 2 * x > T
            BY <1>1 DEF Done
        <3>2. Eval(coeffs, x)' = Eval(a, x)
            BY <1>1, <1>7, EvalPrime
        <3> QED
            BY <1>11, <3>1, <3>2
    <2> QED
        BY <1>1, <2>1 DEF NodesDone
<1>13. Locals' /\ BasisSeparatesTheNode' /\ (pc' = "inverse" => Cofactors')
    BY <1>1 DEF LagrangeInv, Locals, BasisSeparatesTheNode
<1> QED
    BY <1>3, <1>10, <1>12, <1>13 DEF LagrangeInv

LEMMA ReturnKeeps ==
    ASSUME LagrangeInv, Return
    PROVE  LagrangeInv'
<1>1. /\ modulus' = modulus /\ T' = T /\ i' = i /\ j' = j /\ basis' = basis
      /\ denominator' = denominator /\ coeffs' = coeffs
      /\ t' = t /\ newT' = newT /\ r' = r /\ newR' = newR
      /\ pc = "node" /\ pc' = "done" /\ i > T
    BY DEF Return, euclid
<1>2. T \in Nat /\ i \in Nat
    BY LoopBounds DEF LagrangeInv
<1>3. Loops'
    BY <1>1, <1>2 DEF LagrangeInv, Loops, ProductsFit, Word
<1>4. Polynomials'
    BY <1>1 DEF LagrangeInv, Polynomials, Residue
<1>5. NodesDone'
    BY <1>1, <1>2, NodesDoneStays DEF Done
<1>6. Locals' /\ BasisSeparatesTheNode' /\ (pc' = "inverse" => Cofactors')
    BY <1>1 DEF LagrangeInv, Locals, BasisSeparatesTheNode
<1> QED
    BY <1>3, <1>4, <1>5, <1>6 DEF LagrangeInv

LEMMA LagrangeStutters ==
    ASSUME LagrangeInv, UNCHANGED lagrange
    PROVE  LagrangeInv'
<1>1. /\ modulus' = modulus /\ T' = T /\ i' = i /\ j' = j /\ basis' = basis
      /\ denominator' = denominator /\ coeffs' = coeffs
      /\ t' = t /\ newT' = newT /\ r' = r /\ newR' = newR /\ pc' = pc
    BY DEF lagrange, euclid
<1>2. Loops' /\ Locals' /\ (pc' = "inverse" => Cofactors')
    BY <1>1 DEF LagrangeInv, Loops, ProductsFit, Word, Locals, Cofactors
<1>3. Polynomials' /\ BasisSeparatesTheNode' /\ NodesDone'
    BY <1>1, PolynomialsStay
<1> QED
    BY <1>1, <1>2, <1>3 DEF LagrangeInv

(* What holds of modInverse up to moduli of half the words, whatever the   *)
(* wrapped products have made of the denominator.                          *)
EuclidInv ==
    /\ modulus \in Moduli /\ i \in Int /\ j \in Int /\ denominator \in Residue
    /\ Locals /\ (pc = "inverse" => Cofactors)

LEMMA EuclidStarts ==
    ASSUME LagrangeInit
    PROVE  EuclidInv
<1>1. PICK m \in Nat : m = modulus /\ m > 1 /\ modulus \in Moduli
    BY ModulusFits DEF LagrangeInit
<1>2. denominator \in Residue /\ Locals
    BY <1>1 DEF LagrangeInit, Residue, Locals
<1> QED
    BY <1>1, <1>2 DEF LagrangeInit, EuclidInv

(* A factor leaves a residue as the denominator, wrapped or not.           *)
LEMMA FactorKeepsTheResidue ==
    ASSUME EuclidInv, ResiduesFit, Factor
    PROVE  EuclidInv'
<1>1. PICK m \in Nat \ {0}, w \in Nat \ {0}, v \in Int :
          m = modulus /\ w = Word /\ v = i - j /\ modulus \in Moduli
    BY ModulusFits DEF EuclidInv
<1>2. Signed(modulus) = m /\ Magnitude(m) = m
    <2>1. modulus \in -modulus .. modulus
        BY <1>1
    <2> QED
        BY <1>1, <2>1, SignedIs DEF Magnitude
<1>3. PICK u \in Int : u = GoRemainder(v, m)
    BY <1>1, <1>2 DEF GoRemainder
<1>4. modReduceSigned(v) \in Int
    <2>1. PICK x \in Int : x = IF u < 0 THEN u + m ELSE u
        BY <1>1, <1>3
    <2>2. x % w \in Int
        BY <1>1
    <2> QED
        BY <1>1, <1>2, <1>3, <2>1, <2>2 DEF modReduceSigned, Unsigned
<1>5. denominator \in Int
    BY <1>1 DEF EuclidInv, Residue
<1>6. denominator' \in Residue
    BY <1>1, <1>4, <1>5, MulIsResidue DEF Factor, EuclidInv
<1>7. /\ modulus' = modulus /\ i' = i /\ j' = j + 1 /\ pc' = "factors"
      /\ t' = t /\ newT' = newT /\ r' = r /\ newR' = newR
    BY DEF Factor, euclid
<1> QED
    BY <1>6, <1>7 DEF EuclidInv, Locals, Residue

LEMMA EuclidKeeps ==
    ASSUME EuclidInv, ResiduesFit, LagrangeNext
    PROVE  EuclidInv'
<1>1. /\ modulus \in Moduli /\ i \in Int /\ j \in Int /\ denominator \in Residue
      /\ 1 \in Residue /\ Locals /\ (pc = "inverse" => Cofactors)
    BY ModulusFits DEF EuclidInv, Residue
<1>2. CASE Skip \/ Node \/ AddBasis \/ Return
    <2>1. /\ modulus' = modulus /\ i' \in Int /\ j' \in Int /\ denominator' \in Residue
          /\ pc' # "inverse" /\ t' = t /\ newT' = newT /\ r' = r /\ newR' = newR
        BY <1>1, <1>2 DEF Skip, Node, AddBasis, Return, euclid
    <2> QED
        BY <1>1, <2>1 DEF EuclidInv, Locals, Residue
<1>3. CASE Factor
    BY <1>3, FactorKeepsTheResidue
<1>4. CASE Invert
    <2>1. modulus' = modulus /\ i' = i /\ j' = j /\ denominator' = denominator
        BY <1>4 DEF Invert
    <2>2. Locals' /\ Cofactors'
        BY <1>1, <1>4, InvertGives
    <2> QED
        BY <1>1, <2>1, <2>2 DEF EuclidInv, Residue
<1>5. CASE Divide
    <2>1. /\ modulus' = modulus /\ i' = i /\ j' = j /\ denominator' = denominator
          /\ pc = "inverse" /\ newR # 0
        BY <1>5 DEF Divide
    <2>2. Locals' /\ Cofactors'
        BY <1>1, <1>5, <2>1, DivideKeeps
    <2> QED
        BY <1>1, <2>1, <2>2 DEF EuclidInv, Residue
<1> QED
    BY <1>2, <1>3, <1>4, <1>5 DEF LagrangeNext

LEMMA InvGivesTheIndicator ==
    ASSUME ProductsFit => LagrangeInv
    PROVE  IndicatesTheNodesDone
<1> SUFFICES ASSUME ProductsFit
             PROVE  IndicatesTheNodesDone
    BY DEF IndicatesTheNodesDone
<1>1. /\ modulus \in Nat \ {0} /\ modulus > 1 /\ T \in Nat /\ i \in Nat /\ j \in Nat
      /\ T < modulus /\ i <= T + 1 /\ j <= T + 1
    BY LoopBounds DEF LagrangeInv
<1>2. LagrangeTypeOK
    <2>1. basis \in [DOMAIN basis -> Residue] /\ DOMAIN basis \subseteq 0 .. T
        BY <1>1 DEF LagrangeInv, Polynomials
    <2>2. denominator \in Residue /\ coeffs \in [0 .. T -> Residue]
        BY DEF LagrangeInv, Polynomials
    <2>3. {t, newT} \subseteq -modulus .. modulus /\ {r, newR} \subseteq 0 .. modulus
        BY DEF LagrangeInv, Locals
    <2> QED
        BY <2>1, <2>2, <2>3 DEF LagrangeInv, Loops, LagrangeTypeOK
<1>3. ASSUME NEW x \in 0 .. T
      PROVE  Eval(coeffs, x) = IF x \in (0 .. IF pc = "done" THEN T ELSE i - 1) /\ 2 * x > T
                               THEN 1 ELSE 0
    <2>1. Eval(coeffs, x) = IF x < i /\ 2 * x > T THEN 1 ELSE 0
        BY DEF LagrangeInv, NodesDone, Done
    <2>2. CASE pc = "done"
        <3>1. x < i /\ x \in 0 .. T
            BY <1>1, <2>2 DEF LagrangeInv, Loops, ProductsFit, Word
        <3> QED
            BY <2>1, <2>2, <3>1
    <2>3. CASE pc # "done"
        <3>1. x < i <=> x \in 0 .. i - 1
            BY <1>1
        <3> QED
            BY <2>1, <2>3, <3>1
    <2> QED
        BY <2>2, <2>3
<1>4. IndicatesTheNodesDone
    BY <1>2, <1>3 DEF LagrangeInv, IndicatesTheNodesDone
<1> QED
    BY <1>4

LEMMA InvGivesTheInverse ==
    ASSUME ProductsFit => LagrangeInv, ResiduesFit => EuclidInv
    PROVE  CofactorsGiveTheInverse
<1> SUFFICES ASSUME pc = "inverse", ResiduesFit
             PROVE  /\ (t * denominator - r) % modulus = 0
                    /\ (newT * denominator - newR) % modulus = 0
                    /\ newR = 0 /\ (ProductsFit \/ denominator # 0) => r = 1
    BY DEF CofactorsGiveTheInverse
<1>1. denominator \in Residue /\ modulus \in Moduli /\ Locals /\ Cofactors
    BY DEF EuclidInv
<1>2. ProductsFit => denominator # 0
    BY DEF LagrangeInv, BasisSeparatesTheNode
<1>3. newR = 0 /\ (ProductsFit \/ denominator # 0) => r = 1
    BY <1>1, <1>2, EndsAtOne
<1> QED
    BY <1>1, <1>3 DEF Cofactors

LEMMA ModulusStays ==
    ASSUME LagrangeNext \/ UNCHANGED lagrange
    PROVE  modulus' = modulus /\ (ProductsFit' <=> ProductsFit) /\ (ResiduesFit' <=> ResiduesFit)
<1>1. modulus' = modulus
    BY DEF lagrange, LagrangeNext, Skip, Node, Factor, Invert, Divide, AddBasis, Return
<1> QED
    BY <1>1 DEF ProductsFit, ResiduesFit, Word

(* The invariant of the three loops, whatever parameters they start from.  *)
THEOREM LagrangeInvariant == MCSpec => [](ProductsFit => LagrangeInv)
<1>1. MCInit => (ProductsFit => LagrangeInv)
    BY LagrangeStarts DEF MCInit
<1>2. ASSUME ProductsFit => LagrangeInv,
             [LagrangeNext /\ UNCHANGED parameters]_<<lagrange, parameters>>
      PROVE  (ProductsFit => LagrangeInv)'
    <2>1. LagrangeNext \/ UNCHANGED lagrange
        BY <1>2
    <2> SUFFICES ASSUME LagrangeInv
                 PROVE  LagrangeInv'
        BY <1>2, <2>1, ModulusStays
    <2>2. CASE LagrangeNext
        BY <2>2, SkipKeeps, NodeKeeps, FactorKeeps, InvertKeeps, DivideKeepsAll,
           AddBasisKeeps, ReturnKeeps DEF LagrangeNext
    <2>3. CASE UNCHANGED lagrange
        BY <2>3, LagrangeStutters
    <2> QED
        BY <2>1, <2>2, <2>3
<1> QED
    BY <1>1, <1>2, PTL DEF MCSpec

(* The invariant of modInverse beyond the moduli whose products fit.       *)
THEOREM EuclidInvariant == MCSpec => [](ResiduesFit => EuclidInv)
<1>1. MCInit => (ResiduesFit => EuclidInv)
    BY EuclidStarts DEF MCInit
<1>2. ASSUME ResiduesFit => EuclidInv,
             [LagrangeNext /\ UNCHANGED parameters]_<<lagrange, parameters>>
      PROVE  (ResiduesFit => EuclidInv)'
    <2>1. LagrangeNext \/ UNCHANGED lagrange
        BY <1>2
    <2> SUFFICES ASSUME EuclidInv, ResiduesFit
                 PROVE  EuclidInv'
        BY <1>2, <2>1, ModulusStays
    <2>2. CASE LagrangeNext
        BY <2>2, EuclidKeeps
    <2>3. CASE UNCHANGED lagrange
        BY <2>3 DEF lagrange, euclid, EuclidInv, Locals, Cofactors, Residue
    <2> QED
        BY <2>1, <2>2, <2>3
<1> QED
    BY <1>1, <1>2, PTL DEF MCSpec

(* The polynomial that lagrangeIndicatorCoefficients returns is one on the *)
(* majorities and zero on the other counts, for every prime modulus whose  *)
(* square fits into a word and every number of periods below it.           *)
THEOREM IndicatorIsAlwaysExact == MCSpec => []IndicatesTheNodesDone
<1>1. (ProductsFit => LagrangeInv) => IndicatesTheNodesDone
    BY InvGivesTheIndicator
<1> QED
    BY <1>1, LagrangeInvariant, PTL

(* modInverse returns the inverse for every modulus up to half the words,  *)
(* and its assertion does not fail before products wrap.                   *)
THEOREM InverseIsAlwaysFound == MCSpec => []CofactorsGiveTheInverse
<1>1. (ProductsFit => LagrangeInv) /\ (ResiduesFit => EuclidInv) => CofactorsGiveTheInverse
    BY InvGivesTheInverse
<1> QED
    BY <1>1, LagrangeInvariant, EuclidInvariant, PTL

----------------------------------------------------------------------------
(* The modulus of the parameters.                                          *)

LEMMA LeastIs ==
    ASSUME NEW S, S \subseteq Nat, S # {}
    PROVE  Sets!Min(S) \in S /\ \A x \in S : Sets!Min(S) <= x
<1>1. \E x \in S : \A y \in S : x <= y
    BY SmallestNumber
<1> QED
    BY <1>1 DEF Sets!Min

(* The power of all voters together is no more than two words below the    *)
(* largest, so the product in the bound did not wrap.                      *)
LEMMA BoundIsExact ==
    ASSUME ParametersInit
    PROVE  /\ Word \in Nat /\ bound = n * qmax /\ bound \in Nat \ {0} /\ bound <= Word - 2
           /\ twoN \in Nat /\ twoN >= 2
<1>1. PICK w \in Nat : w = Word
    BY WordSize
<1>2. n \in 1 .. w - 1 /\ qmax \in 1 .. w - 1
    BY <1>1, ParametersAssumption DEF ParametersInit
<1>3. twoN \in Nat /\ twoN >= 2
    BY ParametersAssumption DEF ParametersInit
<1>4. PICK q \in Nat \ {0}, v \in Nat \ {0}, u \in Nat : q = qmax /\ v = n /\ u = w - 2
    BY <1>2
<1>5. PICK k \in Nat, s \in Nat : k = u \div q /\ u = k * q + s
    <2>1. u \div q \in Nat /\ u % q \in 0 .. q - 1 /\ u = (u \div q) * q + (u % q)
        BY Division
    <2> QED
        BY <2>1
<1>6. v <= k
    BY <1>1, <1>4, <1>5 DEF ParametersInit, Fits
<1>7. v * q <= k * q
    BY <1>6, TimesMonotone
<1>8. v * q \in Nat \ {0}
    BY <1>4
<1>9. PICK z \in Nat \ {0} : z = v * q /\ z <= w - 2
    <2>1. PICK y \in Int : y = k * q
        BY <1>5
    <2> QED
        BY <1>4, <1>5, <1>7, <1>8, <2>1
<1>10. z % w = z
    <2>1. w \in Nat \ {0} /\ z \in Int /\ 0 <= z /\ z < w
        BY <1>2, <1>9
    <2> QED
        BY <2>1, SmallResidue
<1>11. bound = z
    BY <1>1, <1>4, <1>9, <1>10 DEF bound
<1> QED
    BY <1>1, <1>3, <1>4, <1>9, <1>11

LEMMA SearchIsLargeEnough ==
    ASSUME ParametersInit, InReach
    PROVE  pickPlaintextModulus > bound
<1>1. PICK w \in Nat, b \in Nat \ {0}, d \in Nat :
          w = Word /\ b = bound /\ d = twoN /\ d >= 2 /\ b <= w - 2
    BY BoundIsExact
<1>2. PICK p \in b + 1 .. w - 1 : p % d = 1 /\ IsPrime(p)
    BY <1>1 DEF InReach
<1>3. PICK last \in Nat : p = last * d + 1
    <2>1. p \in Nat /\ d \in Nat \ {0}
        BY <1>1, <1>2
    <2>2. p \div d \in Nat /\ p % d \in 0 .. d - 1 /\ p = (p \div d) * d + (p % d)
        BY <2>1, Division
    <2> QED
        BY <1>2, <2>2
<1>4. PICK top \in Nat : top = last * d /\ p = top + 1
    BY <1>1, <1>3
<1>5. last \in 1 .. w
    <2>1. last # 0
        BY <1>1, <1>2, <1>3
    <2>2. PICK one \in Nat : one = 1
        OBVIOUS
    <2>3. one * last <= d * last
        BY <1>1, <2>2, TimesMonotone
    <2>4. d * last = top /\ one * last = last
        BY <1>1, <1>4, <2>2
    <2> QED
        BY <1>2, <1>4, <2>1, <2>3, <2>4
<1>6. ASSUME NEW k \in 1 .. last
      PROVE  k * d \in Nat /\ Examined(k) = k * d + 1
    <2>1. k * d <= last * d
        BY <1>1, <1>5, TimesMonotone
    <2>2. PICK z \in Nat : z = k * d
        BY <1>1
    <2>3. z + 1 < w
        BY <1>2, <1>4, <2>1, <2>2
    <2>4. (1 + z) % w = 1 + z
        BY <2>2, <2>3, SmallResidue
    <2> QED
        BY <1>1, <2>2, <2>4 DEF Examined
<1> DEFINE Large == {k \in 1 .. w : LargeEnough(k)}
           first == Sets!Min(Large)
           Primes == {k \in first .. first + w : IsPrime(Examined(k))}
           found == Sets!Min(Primes)
<1>7. Examined(last) = p
    BY <1>3, <1>5, <1>6
<1>8. last \in Large /\ Large \subseteq Nat
    BY <1>1, <1>2, <1>5, <1>7 DEF LargeEnough
<1>9. first \in Large /\ first <= last
    BY <1>8, LeastIs
<1>10. first \in 1 .. last /\ Examined(first) >= b + 1
    BY <1>1, <1>5, <1>9 DEF LargeEnough
<1>11. pickPlaintextModulus = Examined(found)
    BY <1>1 DEF pickPlaintextModulus, Stops, Reached
<1> HIDE DEF first, Large
<1>12. last \in Primes /\ Primes \subseteq Nat
    BY <1>1, <1>2, <1>5, <1>7, <1>10
<1>13. found \in Primes /\ found <= last
    BY <1>12, LeastIs
<1>14. found \in 1 .. last /\ first <= found
    BY <1>5, <1>10, <1>13
<1> HIDE DEF found
<1>15. first * d <= found * d
    BY <1>1, <1>10, <1>14, TimesMonotone
<1>16. Examined(found) >= Examined(first)
    BY <1>6, <1>10, <1>14, <1>15
<1> QED
    BY <1>1, <1>6, <1>10, <1>11, <1>14, <1>16

(* No power of all voters together reaches the plaintext modulus: neither  *)
(* one that experimentLiteral accepts nor one that pickPlaintextModulus    *)
(* finds before it wraps around, for every electorate whose product does   *)
(* not overflow, every prime modulus below a word, every ring and width.   *)
THEOREM ModulusAlwaysCoversThePower == MCSpec => []ModulusCoversThePower
<1>1. MCInit => ModulusCoversThePower
    <2> SUFFICES ASSUME MCInit, offered # 0 \/ InReach
                 PROVE  n * qmax < modulus
        BY DEF ModulusCoversThePower
    <2>1. PICK power \in Nat : power = n * qmax /\ power = bound
        BY BoundIsExact DEF MCInit
    <2>2. modulus > bound
        BY SearchIsLargeEnough DEF MCInit, ParametersInit
    <2>3. modulus \in Nat
        BY ModulusFits DEF MCInit, LagrangeInit
    <2> QED
        BY <2>1, <2>2, <2>3
<1>2. ASSUME ModulusCoversThePower,
             [LagrangeNext /\ UNCHANGED parameters]_<<lagrange, parameters>>
      PROVE  ModulusCoversThePower'
    <2>1. n' = n /\ qmax' = qmax /\ twoN' = twoN /\ offered' = offered /\ modulus' = modulus
        BY <1>2, ModulusStays DEF parameters, lagrange
    <2> QED
        BY <1>2, <2>1 DEF ModulusCoversThePower, InReach, bound, Word
<1> QED
    BY <1>1, <1>2, PTL DEF MCSpec
=============================================================================
