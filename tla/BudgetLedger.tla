---------------------------- MODULE BudgetLedger ----------------------------
(***************************************************************************)
(* What the rate limiter promises: an atomic ledger of recorded uploads.   *)
(* Each capture asks once, is told "allowed" or "suppressed" in one step,  *)
(* and may give its slot back once.  With Unreliable = TRUE the promise is *)
(* weaker: state IO may fail (the capture is let through unrecorded) and a *)
(* failed or killed rewrite may lose the ledger, never corrupt it.         *)
(*                                                                         *)
(* RateLimiter implements this module; CaptureHandler is built on it.      *)
(***************************************************************************)
EXTENDS RateBudget

CONSTANTS MaxClock,   \* bound: last second the model's clock reaches
          MaxLag,     \* bound: seconds between a crash and its budget check
          Unreliable  \* whether state IO may fail and handlers be killed

ASSUME ClockAssumption == MaxClock \in Nat /\ MaxLag \in Nat
ASSUME FaultAssumption == Unreliable \in BOOLEAN

VARIABLES clock,     \* the node's clock, in seconds
          stamp,     \* %t of each capture, NoStamp before its crash
          ledger,    \* captures whose upload is on record
          verdict,   \* what check_and_record told each capture
          refunded   \* captures whose refund has been applied

ledgerVars == <<clock, stamp, ledger, verdict, refunded>>

NoStamp  == -1
Verdicts == {"none", "unasked", "allowed", "failopen", "suppressed", "dead"}

\* Captures that have crashed and have not been answered yet.
Pending == {c \in Captures : stamp[c] # NoStamp /\ verdict[c] = "none"}

LedgerInit ==
  /\ clock = 0
  /\ stamp = [c \in Captures |-> NoStamp]
  /\ ledger = {}
  /\ verdict = [c \in Captures |-> "none"]
  /\ refunded = {}

\* Time passes; no capture waits longer than MaxLag for its check.
Tick ==
  /\ clock < MaxClock
  /\ \A c \in Pending : clock + 1 - stamp[c] <= MaxLag
  /\ clock' = clock + 1
  /\ UNCHANGED <<stamp, ledger, verdict, refunded>>

Crash(c) ==
  /\ stamp[c] = NoStamp
  /\ stamp' = [stamp EXCEPT ![c] = clock]
  /\ UNCHANGED <<clock, ledger, verdict, refunded>>

\* A capture that would not upload anyway never asks.
Unasked(c) ==
  /\ c \in Pending
  /\ verdict' = [verdict EXCEPT ![c] = "unasked"]
  /\ UNCHANGED <<clock, stamp, ledger, refunded>>

\* check_and_record succeeds.
Check(c) ==
  /\ c \in Pending
  /\ Budget[c] # 0
  /\ ledger' = CheckedState(ledger, stamp, c)
  /\ verdict' = [verdict EXCEPT ![c] = CheckVerdict(ledger, stamp, c)]
  /\ UNCHANGED <<clock, stamp, refunded>>

\* max_per_hour = 0: allowed without touching the state.
CheckUnlimited(c) ==
  /\ c \in Pending
  /\ Budget[c] = 0
  /\ verdict' = [verdict EXCEPT ![c] = "allowed"]
  /\ UNCHANGED <<clock, stamp, ledger, refunded>>

\* check_and_record meets an IO error: allowed, nothing recorded; an error in
\* the rewrite leaves an unparsable file, which reads as the empty ledger.
FailOpen(c) ==
  /\ Unreliable
  /\ c \in Pending
  /\ Budget[c] # 0
  /\ verdict' = [verdict EXCEPT ![c] = "failopen"]
  /\ ledger' \in {ledger, {}}
  /\ UNCHANGED <<clock, stamp, refunded>>

\* refund of a capture that was let through.
Refund(c) ==
  /\ Budget[c] # 0
  /\ verdict[c] \in {"allowed", "failopen"}
  /\ c \notin refunded
  /\ ledger' = RefundedState(ledger, stamp, c)
  /\ refunded' = refunded \cup {c}
  /\ UNCHANGED <<clock, stamp, verdict>>

\* A handler dies before it is answered.
Die(c) ==
  /\ Unreliable
  /\ c \in Pending
  /\ verdict' = [verdict EXCEPT ![c] = "dead"]
  /\ ledger' \in {ledger} \cup (IF Budget[c] = 0 THEN {} ELSE {{}})
  /\ UNCHANGED <<clock, stamp, refunded>>

\* A refund's rewrite fails, or its handler is killed in it.
Lose ==
  /\ Unreliable
  /\ ledger' = {}
  /\ UNCHANGED <<clock, stamp, verdict, refunded>>

LedgerNext ==
  \/ Tick
  \/ Lose
  \/ \E c \in Captures :
       \/ Crash(c) \/ Unasked(c) \/ Check(c) \/ CheckUnlimited(c)
       \/ FailOpen(c) \/ Refund(c) \/ Die(c)

LedgerSpec == LedgerInit /\ [][LedgerNext]_ledgerVars

----------------------------------------------------------------------------
\* Captures with a slot: recorded by check_and_record, not given back.
Kept == {c \in Captures : verdict[c] = "allowed" /\ Budget[c] # 0} \ refunded

(* ratelimit.rs, check_and_record: within any stretch of Window - MaxLag
   seconds a pod keeps at most MaxBudget uploads, whatever order its handlers
   reach the lock in.  MaxLag is what a late check may cost: a newer crash,
   of any pod, prunes with a later cutoff than the late one would.          *)
WindowBudget ==
  \A c \in Kept :
    Cardinality({g \in Kept : /\ PodOf[g] = PodOf[c]
                              /\ stamp[g] <= stamp[c]
                              /\ stamp[g] > stamp[c] - (Window - MaxLag)}) <= MaxBudget

(* ratelimit.rs, locked_check_and_record: a core is suppressed only when
   as many uploads of the same pod as its budget were really let through in its
   window; suppressed and unlimited crashes never count against the pod.     *)
SuppressedJustified ==
  \A c \in Captures : verdict[c] = "suppressed" =>
    Cardinality({g \in Captures : /\ PodOf[g] = PodOf[c]
                                  /\ verdict[g] = "allowed" /\ Budget[g] # 0
                                  /\ stamp[g] > stamp[c] - Window}) >= Budget[c]
=============================================================================
