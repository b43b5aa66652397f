-------------------------- MODULE MCCaptureHandler --------------------------
(* CaptureHandler for TLC: two crashes of one pod.                           *)
EXTENDS CaptureHandler

MCCaptures2   == {1, 2}
\* One limit for both; the second capture started under an unlimited config.
MCBudget1     == [c \in Captures |-> 1]
MCBudgetMixed == [c \in Captures |-> IF c = 2 THEN 0 ELSE 1]
MCPodOf       == [c \in Captures |-> "p"]
=============================================================================
