-------------------------- MODULE MCSubmissionEcho --------------------------
EXTENDS SubmissionEcho

CONSTANTS v1, v2

MCWidth == [c \in Component |-> IF c = "candidate" THEN 2 ELSE 1]
=============================================================================
