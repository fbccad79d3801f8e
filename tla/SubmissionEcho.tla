--------------------------- MODULE SubmissionEcho ---------------------------
(***************************************************************************)
(* The two echoes of main (candidate and delegation) fed with packed       *)
(* submissions: every period both close with their own payload and the one *)
(* shared mask.  Each echo is EchoEquation, which PeriodicEcho implements  *)
(* for arbitrary payloads and masks; here the inputs are those that        *)
(* PeriodInputs accumulates, and the pair implements EchoReference.        *)
(*                                                                         *)
(* A slot is a voter and an offset into the voter's block, which           *)
(* PeriodInputs shows to be apart from other voters' blocks.               *)
(***************************************************************************)
EXTENDS Submissions

CONSTANTS
    Voters, Width, Periods,    \* as in EchoReference
    Modulus                    \* the plaintext modulus

ASSUME WidthAssumption == Width \in [Component -> Nat \ {0}]
ASSUME PeriodsAssumption == Periods \in Nat \ {0}
(* lagrangeIndicatorCoefficients asserts T < modulus.                      *)
ASSUME ModulusAssumption == Modulus \in Nat /\ Periods < Modulus

blockSize ==
    IF Width["candidate"] >= Width["delegation"] THEN Width["candidate"] ELSE Width["delegation"]

Offset == 0 .. blockSize - 1
Slots == Voters \X Offset

Submission == SubmissionsOf(Width)

(* periodPlain, for all voters.                                            *)
Payload(c, sub) == [slot \in Slots |-> payloadSlot(sub[slot[1]], c, slot[2])]

(* A slip: the mask covers the chosen slot and not the block.              *)
ChosenSlotMask(c, sub) == [slot \in Slots |-> payloadSlot(sub[slot[1]], c, slot[2])]

(* A slip: each component is gated by its own presence.                    *)
OwnMask(c, sub) == [slot \in Slots |-> IF sub[slot[1]][c] >= 0 THEN 1 ELSE 0]

SharedMask(c, sub) == [slot \in Slots |-> submissionMask(sub[slot[1]])]

VARIABLES
    periods,      \* T, of both echoes
    closed,       \* periods closed
    uC, tC, uD, tD,    \* current values and totals of the two echoes
    done, resC, resD   \* Totals has been called on both

vars == <<periods, closed, uC, tC, uD, tD, done, resC, resD>>

(* Payloads and Masks are read by EchoEquation's own Next only.            *)
Candidate == INSTANCE EchoEquation
    WITH PeriodCounts <- {Periods}, Payloads <- {}, Masks <- {},
         u <- uC, total <- tC, result <- resC

Delegation == INSTANCE EchoEquation
    WITH PeriodCounts <- {Periods}, Payloads <- {}, Masks <- {},
         u <- uD, total <- tD, result <- resD

Init == Candidate!Init /\ Delegation!Init

(* One turn of main's period loop.                                         *)
ClosePeriod(sub) ==
    /\ Candidate!Close(Payload("candidate", sub), SharedMask("candidate", sub))
    /\ Delegation!Close(Payload("delegation", sub), SharedMask("delegation", sub))

Totals == Candidate!Publish /\ Delegation!Publish

Next == (\E sub \in [Voters -> Submission] : ClosePeriod(sub)) \/ Totals

Spec == Init /\ [][Next]_vars

----------------------------------------------------------------------------

Value(c) == IF c = "candidate" THEN uC ELSE uD
Total(c) == IF c = "candidate" THEN tC ELSE tD

(* Current values are Boolean, and no total has had to wrap around.        *)
TypeOK ==
    /\ periods = Periods
    /\ closed \in 0 .. Periods
    /\ \A c \in Component : /\ Value(c) \in [Slots -> {0, 1}]
                            /\ Total(c) \in [Slots -> 0 .. closed]
    /\ done \in BOOLEAN
    /\ resC \in [Slots -> 0 .. Periods] /\ resD \in [Slots -> 0 .. Periods]

(* At any time a voter's block holds at most one choice per component, and *)
(* the slots of the block beyond a component's width hold none: what the   *)
(* inner sum of the delegation slots and the majority indicator need.      *)
BlocksAreOneHot ==
    \A c \in Component, v \in Voters :
        /\ \A i, j \in Offset : Value(c)[<<v, i>>] = 1 /\ Value(c)[<<v, j>>] = 1 => i = j
        /\ \A i \in Offset : i >= Width[c] => Value(c)[<<v, i>>] = 0 /\ Total(c)[<<v, i>>] = 0

(* The choice a block stands for.                                          *)
Standing(c, v) ==
    IF \E i \in Offset : Value(c)[<<v, i>>] = 1
    THEN CHOOSE i \in Offset : Value(c)[<<v, i>>] = 1
    ELSE noSubmission

Reference == INSTANCE EchoReference
    WITH period <- closed,
         current <- [c \in Component |-> [v \in Voters |-> Standing(c, v)]],
         totals <- [c \in Component |-> [v \in Voters |->
                       [s \in 0 .. Width[c] - 1 |-> Total(c)[<<v, s>>]]]]

(* The two encrypted echoes together go through states of the plaintext    *)
(* reference: what the slots of a block add up to is what its voter chose. *)
RefinesReference == Reference!Spec

(* And each period does to the slots what the reference does with that     *)
(* very submission: a one-sided submission clears the component it leaves  *)
(* out, an all-zero one clears neither.                                    *)
EachSubmissionIsApplied ==
    [][\A sub \in [Voters -> Submission] :
          ClosePeriod(sub) => Reference!ClosePeriod(sub)]_vars
=============================================================================
