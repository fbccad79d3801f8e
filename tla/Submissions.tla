---------------------------- MODULE Submissions ----------------------------
(***************************************************************************)
(* One voter's input of one period, as src/helpers.go represents it: a     *)
(* choice, or a sentinel, for each of the two components.  A submission    *)
(* with no choice and no sentinel but noSubmission is never sent.          *)
(***************************************************************************)
EXTENDS Integers

Component == {"candidate", "delegation"}

noSubmission == -1
zeroSubmission == -2

(* The values a component of the given width may hold.                     *)
Choices(width) == {zeroSubmission, noSubmission} \cup 0 .. width - 1

(* The pairs the assertions of submissionMask let through, for the width   *)
(* of each component: an all-zero submission covers both.                  *)
SubmissionsOf(width) ==
    { s \in [candidate : Choices(width.candidate), delegation : Choices(width.delegation)] :
          s.candidate = zeroSubmission <=> s.delegation = zeroSubmission }

(* A slip: the mask looks at the candidate component only.                 *)
CandidateOnlyMask(s) == IF s.candidate >= 0 THEN 1 ELSE 0

submissionMask(s) == IF \E c \in Component : s[c] >= 0 THEN 1 ELSE 0

(* periodPlain: the slot of a component's payload at an offset into the    *)
(* voter's block. The mask holds submissionMask in every slot.             *)
payloadSlot(s, c, offset) == IF s[c] >= 0 /\ s[c] = offset THEN 1 ELSE 0

NothingSent(s) == s.candidate = noSubmission /\ s.delegation = noSubmission
=============================================================================
