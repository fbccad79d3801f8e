-------------------------- MODULE MCEchoReference --------------------------
(***************************************************************************)
(* EchoReference with the log of what every voter submitted in every       *)
(* period, against which the echoed totals are recomputed from scratch.    *)
(* The submissions are either any at all, as the tests make them by hand,  *)
(* of voter 0 beside a few of voter 1, or those of a workload main has     *)
(* drawn.                                                                  *)
(***************************************************************************)
EXTENDS Workload

MCWidth == [c \in Component |-> IF c = "candidate" THEN 3 ELSE 2]
MCVoters == 0 .. 2

VARIABLE log   \* log[p]: the submissions of period p

LInit ==
    /\ Init /\ log = <<>>
    /\ WorkloadInit \/ (NothingDrawn /\ stage = "byHand")

Both(x) == [c \in Component |-> x]
Silent == Both(noSubmission)
Few == {Silent, Both(zeroSubmission), Both(0)}

ByHand ==
    /\ stage = "byHand"
    /\ \E s0 \in Submission, s1 \in Few :
          LET sub == [v \in Voters |-> IF v = 0 THEN s0 ELSE IF v = 1 THEN s1 ELSE Silent]
          IN  ClosePeriod(sub) /\ log' = Append(log, sub)
    /\ UNCHANGED workloadVars

Scheduled ==
    /\ stage = "ready"
    /\ period < Periods
    /\ LET sub == [v \in Voters |-> [c \in Component |-> choices[c][period + 1][v]]]
       IN  ClosePeriod(sub) /\ log' = Append(log, sub)
    /\ UNCHANGED workloadVars

LNext ==
    \/ ByHand \/ Scheduled
    \/ WorkloadNext /\ UNCHANGED <<vars, log>>

LSpec == LInit /\ [][LNext]_<<vars, workloadVars, log>>

(* A submission is real when it makes a choice in some component.          *)
Accepted(p, v) == \E c \in Component : log[p][v][c] \in Slot(c)

(* The last period, up to p, in which v's submission was a real one.       *)
LatestAccepted(p, v) ==
    CHOOSE q \in 1 .. p : /\ Accepted(q, v)
                          /\ \A r \in q + 1 .. p : ~Accepted(r, v)

HasAccepted(p, v) == \E q \in 1 .. p : Accepted(q, v)

(* The total of a choice is the number of closed periods whose latest real *)
(* submission made that choice in that component: a later submission never *)
(* rewrites a period already closed, an all-zero or a missing one changes  *)
(* nothing, and both components always come from the same submission.      *)
TotalsCountLatestAccepted ==
    \A c \in Component, v \in Voters : \A s \in Slot(c) :
        totals[c][v][s] =
            Cardinality({p \in 1 .. Len(log) :
                            HasAccepted(p, v) /\ log[LatestAccepted(p, v)][v][c] = s})

WorkloadEchoed == stage = "ready" /\ period = Periods

(* A drawn workload is used up in exactly T periods, so that the assertion *)
(* of periodicChoicesFromCounts fails for no draw, and echoed again its    *)
(* single choices count as often as they were drawn, in both components.   *)
TotalsAreTheDrawnCounts ==
    /\ stage # "panic"
    /\ WorkloadEchoed /\ samples = 0 => totals = counts

(* Every voter who submits anything has a majority choice in both          *)
(* components; in benchmark mode one submission, echoed, is enough.        *)
EverySenderHasAMajority ==
    WorkloadEchoed =>
        \A c \in Component, v \in Voters :
            (\E s \in Slot(c) : Selected(c, v, s)) <=> (samples = 0 \/ v < samples)
=============================================================================
