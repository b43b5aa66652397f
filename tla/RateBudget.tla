----------------------------- MODULE RateBudget -----------------------------
(***************************************************************************)
(* The per-pod upload budget as pure operators: what check_and_record and  *)
(* refund do to the parsed rate-limit state (src/src/ratelimit.rs).        *)
(*                                                                         *)
(* RateState maps a pod UID to the epoch seconds of its allowed uploads.   *)
(* A capture records at most one upload, with its own pod and timestamp,   *)
(* so a state is modelled by the SET OF CAPTURES whose entry it holds:     *)
(* PodOf[c] and stamp[c] are the entry of capture c.  Order inside a pod's *)
(* vector is never observed by the code and is dropped.                    *)
(***************************************************************************)
EXTENDS Integers, FiniteSets

CONSTANTS Captures,    \* crashes the kernel hands to the handler
          PodOf,       \* pod UID of each capture's container
          Budget,      \* max_cores_per_hour in the config each capture's handler
                       \* read, 0 = unlimited; a restarted daemon may change it
          MaxBudget,   \* the largest of them
          Window       \* RATE_WINDOW_SECS

ASSUME CapturesAssumption == IsFiniteSet(Captures)
ASSUME BudgetAssumption == 
  /\ MaxBudget \in Nat /\ Budget \in [Captures -> 0..MaxBudget]
  /\ Window \in Nat \ {0}

Pods == {PodOf[c] : c \in Captures}

\* The entries of pod p.
Recorded(S, p) == {c \in S : PodOf[c] = p}

\* No pod has more than MaxBudget entries.
WithinBudget(S) == \A p \in Pods : Cardinality(Recorded(S, p)) <= MaxBudget

----------------------------------------------------------------------------
\* Plausible bugs, used to show that the properties can fail.
ExhaustedOffByOne(S, c)      == Cardinality(Recorded(S, PodOf[c])) > Budget[c]
ExhaustedOtherPods(S, c)     == Cardinality(S) >= Budget[c]
PruneOffByOne(S, stamp, now) == {c \in S : stamp[c] > now - Window + 1}

----------------------------------------------------------------------------
\* events.retain: drop every pod's entries that are not newer than the cutoff.
Prune(S, stamp, now) == {c \in S : stamp[c] > now - Window}

\* recent >= max_per_hour, on the pruned state.
Exhausted(S, c) == Cardinality(Recorded(S, PodOf[c])) >= Budget[c]

\* The state check_and_record writes back: pruned even when suppressed.
CheckedState(S, stamp, c) ==
  LET kept == Prune(S, stamp, stamp[c])
  IN  IF Exhausted(kept, c) THEN kept ELSE kept \cup {c}

CheckVerdict(S, stamp, c) ==
  IF Exhausted(Prune(S, stamp, stamp[c]), c) THEN "suppressed" ELSE "allowed"

\* Entries that refund cannot tell from the one of c: same pod, same second.
Twins(S, stamp, c) == {g \in S : PodOf[g] = PodOf[c] /\ stamp[g] = stamp[c]}

\* refund removes one entry equal to (pod, recorded_at), if there is one.
\* Which of several equal ones goes is not observable; name c's own first.
RefundedState(S, stamp, c) ==
  LET twins == Twins(S, stamp, c)
  IN  IF twins = {} THEN S
      ELSE S \ {IF c \in twins THEN c ELSE CHOOSE g \in twins : TRUE}
=============================================================================
