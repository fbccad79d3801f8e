------------------------------ MODULE Workload ------------------------------
(***************************************************************************)
(* The random election main draws before it encrypts anything (phase 1 of  *)
(* src/main.go, the random* functions and periodicChoicesFromCounts of     *)
(* src/helpers.go): the delegates, then for each component how often every *)
(* voter makes every choice, drained into a schedule with one choice for   *)
(* each period, and in benchmark mode the restriction to the sampled       *)
(* voters' first submissions.  The stream of random words is external.     *)
(***************************************************************************)
EXTENDS EchoReference, Sequences, FiniteSets

Sets == INSTANCE FiniteSetsExt

CONSTANTS
    WordBits,    \* 64 in the code
    Samples      \* values of -sample-voters, and 0 for a fresh run

n == Cardinality(Voters)

(* main's assertion on the dimensions.                                     *)
ASSUME DimensionsAssumption ==
    /\ IsFiniteSet(Voters) /\ Voters = 0 .. n - 1
    /\ Width["delegation"] < n /\ Periods % 2 = 1
    /\ Samples \subseteq 0 .. n
    /\ WordBits \in Nat /\ 2 ^ WordBits \in Nat
    /\ 2 ^ WordBits > n /\ \A c \in Component : 2 ^ WordBits > Width[c]

VARIABLES
    stage,       \* what is drawn next, or "ready"
    perm, i,     \* locals of randomDelegationMatrix
    D,           \* D[v][j]: voter v is delegate j
    counts,      \* counts[c][v][s], as drawn
    remaining,   \* of the component being drained
    choices,     \* choices[c]: the periods of the schedule made so far
    samples      \* benchmarkSampleVoters, or 0 in a fresh run

workloadVars == <<stage, perm, i, D, counts, remaining, choices, samples>>

NoDelegates == [v \in Voters |-> [j \in Slot("delegation") |-> 0]]
NoCounts(c) == [v \in Voters |-> [s \in Slot(c) |-> 0]]

NothingDrawn ==
    /\ i = 0
    /\ perm = [v \in Voters |-> v]
    /\ D = NoDelegates
    /\ counts = [c \in Component |-> NoCounts(c)]
    /\ remaining = <<>>
    /\ choices = [c \in Component |-> <<>>]
    /\ samples = 0

WorkloadInit == NothingDrawn /\ stage = "delegates"

----------------------------------------------------------------------------
(* Random numbers.                                                         *)

MaxWord == 2 ^ WordBits - 1

(* A slip: every word is reduced.                                          *)
EveryWord(m) == MaxWord

limit(m) == MaxWord - (MaxWord % m)

AcceptedWords(m) == 0 .. limit(m) - 1

randUint64n(m) == {x % m : x \in AcceptedWords(m)}

----------------------------------------------------------------------------
(* randomDelegationMatrix: the start of a shuffle of the voters.           *)

(* A slip: a voter already drawn may be drawn again.                       *)
AnyPosition == 0 .. n - 1

Position == {i + x : x \in randUint64n(n - i)}

DrawDelegate ==
    /\ stage = "delegates" /\ i < Width["delegation"]
    /\ \E j \in Position :
          /\ perm' = [perm EXCEPT ![i] = perm[j], ![j] = perm[i]]
          /\ D' = [D EXCEPT ![perm[j]][i] = 1]
    /\ i' = i + 1
    /\ UNCHANGED <<stage, counts, remaining, choices, samples>>

(* The matrix is used again by the tally only: it is forgotten here.       *)
DelegatesDrawn ==
    /\ stage = "delegates" /\ i = Width["delegation"]
    /\ stage' = "candidate" /\ i' = 0
    /\ perm' = [v \in Voters |-> v] /\ D' = NoDelegates
    /\ UNCHANGED <<counts, remaining, choices, samples>>

----------------------------------------------------------------------------
(* randomVotingVector, voter by voter.                                     *)

(* A slip: the majority is rounded down.                                   *)
HalfRoundedDown == Periods \div 2

threshold == (Periods + 1) \div 2

(* What the remaining units add up to, whichever columns they fall on.     *)
Spread(c) ==
    {f \in [Slot(c) -> 0 .. Periods - threshold] :
        Sets!MapThenSumSet(LAMBDA s : f[s], Slot(c)) = Periods - threshold}

DrawRow(c) ==
    /\ stage = c /\ i < n
    /\ \E majorityCol \in randUint64n(Width[c]), extra \in Spread(c) :
          counts' = [counts EXCEPT ![c][i] = [s \in Slot(c) |->
                        extra[s] + IF s = majorityCol THEN threshold ELSE 0]]
    /\ i' = i + 1
    /\ UNCHANGED <<stage, perm, D, remaining, choices, samples>>

----------------------------------------------------------------------------
(* periodicChoicesFromCounts.                                              *)

BeginDrain(c) ==
    /\ stage = c /\ i = n /\ choices[c] = <<>> /\ remaining = <<>>
    /\ remaining' = counts[c]
    /\ UNCHANGED <<stage, perm, i, D, counts, choices, samples>>

(* drainOneHot: the first column that is not empty.                        *)
drainOneHot(row) ==
    LET left == {s \in DOMAIN row : row[s] > 0}
    IN  IF left = {} THEN noSubmission ELSE Sets!Min(left)

(* A slip: the unit stays in its column.                                   *)
KeepsTheUnit(v) == remaining[v]

Drained(v) ==
    LET s == drainOneHot(remaining[v])
    IN  IF s = noSubmission THEN remaining[v] ELSE [remaining[v] EXCEPT ![s] = @ - 1]

DrainPeriod(c) ==
    /\ stage = c /\ remaining # <<>> /\ Len(choices[c]) < Periods
    /\ choices' = [choices EXCEPT ![c] =
                      Append(@, [v \in Voters |-> drainOneHot(remaining[v])])]
    /\ remaining' = [v \in Voters |-> Drained(v)]
    /\ UNCHANGED <<stage, perm, i, D, counts, samples>>

(* The loop over what remains panics when anything does.                   *)
EndDrain(c) ==
    /\ stage = c /\ Len(choices[c]) = Periods
    /\ stage' = IF \E v \in Voters, s \in Slot(c) : remaining[v][s] # 0 THEN "panic"
                ELSE IF c = "candidate" THEN "delegation" ELSE "restrict"
    /\ remaining' = <<>> /\ i' = 0
    /\ UNCHANGED <<perm, D, counts, choices, samples>>

----------------------------------------------------------------------------

(* A slip: the input is restricted in every mode.                          *)
NeverFresh == FALSE

(* Not in benchmark mode, whose flag is first read here.                   *)
Fresh == samples' = 0

Kept(p, v) == p = 1 /\ v < samples'

(* restrictBenchmarkSubmissions.                                           *)
RestrictSubmissions ==
    /\ stage = "restrict" /\ stage' = "ready"
    /\ samples' \in Samples
    /\ choices' = IF Fresh THEN choices
                  ELSE [c \in Component |-> [p \in 1 .. Periods |-> [v \in Voters |->
                           IF Kept(p, v) THEN choices[c][p][v] ELSE noSubmission]]]
    /\ UNCHANGED <<perm, i, D, counts, remaining>>

WorkloadNext ==
    \/ DrawDelegate \/ DelegatesDrawn
    \/ \E c \in Component : DrawRow(c) \/ BeginDrain(c) \/ DrainPeriod(c) \/ EndDrain(c)
    \/ RestrictSubmissions

----------------------------------------------------------------------------

(* Every outcome of the draw to come is drawn by the same number of words, *)
(* and the last words, which would favour the small outcomes, by none.     *)
Uniform ==
    LET m == IF stage = "delegates" THEN n - i
             ELSE IF stage \in Component THEN Width[stage] ELSE 1
    IN  \A r \in 0 .. m - 1 :
            Cardinality({x \in AcceptedWords(m) : x % m = r}) = MaxWord \div m

(* Every delegate drawn is one voter, and no voter is two of them.         *)
Distinct ==
    /\ \A j \in 0 .. i - 1 : Cardinality({v \in Voters : D[v][j] = 1}) = 1
    /\ \A v \in Voters : Cardinality({j \in Slot("delegation") : D[v][j] = 1}) <= 1

(* The shuffle of randomDelegationMatrix, and every draw of randUint64n,   *)
(* favours nobody, and the delegates it ends with are as many voters: the  *)
(* weights the tally moves along D are moved once.                         *)
DrawsAreFair == Uniform /\ (stage = "delegates" => Distinct)
=============================================================================
