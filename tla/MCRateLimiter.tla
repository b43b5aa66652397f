--------------------------- MODULE MCRateLimiter ----------------------------
EXTENDS RateLimiter

\* Captures are numbered; the last one is of another pod, which prunes the
\* first pod's entries but has a budget of its own.
MCCaptures3 == 1..3
\* One limit for all; the last capture started under an unlimited config.
MCBudget1 == [c \in Captures |-> 1]
MCBudgetMixed == [c \in Captures |-> IF c = Cardinality(Captures) THEN 0 ELSE 1]
MCPodOf == [c \in Captures |-> IF c = Cardinality(Captures) THEN "q" ELSE "p"]
=============================================================================
