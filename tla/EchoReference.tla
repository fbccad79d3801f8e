--------------------------- MODULE EchoReference ---------------------------
(***************************************************************************)
(* What the periodic echo promises, in terms of voters and choices: the    *)
(* plaintext reference of src/helpers.go (submissionMask,                  *)
(* periodicEchoTotalsPlain).  A voter sends, in every period, either       *)
(* nothing, an all-zero submission, or a real submission covering the      *)
(* candidate and the delegation component at once.  A real submission      *)
(* replaces the voter's standing pair; the standing choice of each         *)
(* component is echoed (counted once more) at every period close.          *)
(*                                                                         *)
(* main runs the reference twice, with the two components exchanged; the   *)
(* two calls read the same schedule, so they are one machine here.         *)
(***************************************************************************)
EXTENDS Submissions

CONSTANTS
    Voters,    \* the n voters
    Width,     \* Width[c]: number of choices of component c (b candidates, k delegates)
    Periods    \* T, the number of periods

ASSUME WidthAssumption == Width \in [Component -> Nat \ {0}]
ASSUME PeriodsAssumption == Periods \in Nat \ {0}

Slot(c) == 0 .. Width[c] - 1

Submission == SubmissionsOf(Width)

----------------------------------------------------------------------------

VARIABLES
    period,    \* periods closed so far
    current,   \* current[c][v]: v's standing choice of component c
    totals     \* totals[c][v][s]: periods in which choice s of v was echoed

vars == <<period, current, totals>>

TypeOK ==
    /\ period \in 0 .. Periods
    /\ current \in [Component -> [Voters -> Int]]
    /\ \A c \in Component, v \in Voters : current[c][v] \in Slot(c) \cup {noSubmission}
    /\ DOMAIN totals = Component
    /\ \A c \in Component : totals[c] \in [Voters -> [Slot(c) -> Nat]]

Init ==
    /\ period = 0
    /\ current = [c \in Component |-> [v \in Voters |-> noSubmission]]
    /\ totals = [c \in Component |-> [v \in Voters |-> [s \in Slot(c) |-> 0]]]

(* A real submission replaces both components, a missing one clearing the  *)
(* component it leaves out; anything else keeps both.                      *)
Standing(sub, c, v) ==
    IF submissionMask(sub[v]) = 1 THEN sub[v][c] ELSE current[c][v]

(* A slip: the choice being replaced is echoed once more.                  *)
EchoesReplacedToo(sub, c, v, s) == s \in {Standing(sub, c, v), current[c][v]}

(* The choice counted at this close is the one standing after it.          *)
Echoes(sub, c, v, s) == Standing(sub, c, v) = s

(* One turn of the period loop of periodicEchoTotalsPlain.                 *)
ClosePeriod(sub) ==
    /\ period < Periods
    /\ current' = [c \in Component |-> [v \in Voters |-> Standing(sub, c, v)]]
    /\ totals' = [c \in Component |-> [v \in Voters |-> [s \in Slot(c) |->
                     totals[c][v][s] + IF Echoes(sub, c, v, s) THEN 1 ELSE 0]]]
    /\ period' = period + 1

Next == \E sub \in [Voters -> Submission] : ClosePeriod(sub)

Spec == Init /\ [][Next]_vars

----------------------------------------------------------------------------

(* A slip: half of the periods is taken for a majority.                    *)
SelectedAtHalf(c, v, s) == totals[c][v][s] >= Periods \div 2

(* selectedChoice (src/test.go) counts a choice as selected when its total *)
(* exceeds T \div 2 and asserts that no second choice does.                *)
Selected(c, v, s) == totals[c][v][s] > Periods \div 2

(* The echo totals of one voter select at most one choice per component:   *)
(* the assertion of selectedChoice, on which the encrypted majority        *)
(* indicator (one polynomial per slot, no comparison between slots) rests. *)
AtMostOneMajority ==
    \A c \in Component, v \in Voters : \A s1, s2 \in Slot(c) :
        Selected(c, v, s1) /\ Selected(c, v, s2) => s1 = s2

(* No two choices of one voter are echoed in the same period, so that      *)
(* their totals share the closed periods between them; with the type       *)
(* invariant it is inductive and gives AtMostOneMajority.                  *)
TotalsShareThePeriods ==
    \A c \in Component, v \in Voters : \A s1, s2 \in Slot(c) :
        s1 # s2 => totals[c][v][s1] + totals[c][v][s2] <= period
=============================================================================
