---------------------------- MODULE LedgerProofs ----------------------------
(***************************************************************************)
(* Proofs about BudgetLedger, for any number of captures, pods, budgets    *)
(* and any window: what the atomic ledger promises.  RateLimiterProofs     *)
(* carries it over to recent.json, CaptureProofs to the cores in the store.*)
(***************************************************************************)
EXTENDS BudgetLedger, FiniteSetTheorems, TLAPS

LedgerStep == [LedgerNext]_ledgerVars

Typed ==
  /\ clock \in Nat
  /\ stamp \in [Captures -> Nat \cup {NoStamp}]
  /\ ledger \in SUBSET Captures
  /\ verdict \in [Captures -> Verdicts]
  /\ refunded \in SUBSET Captures

(* Entries of one pod are finitely many and counted by a natural number.    *)
LEMMA RecordedFinite ==
  ASSUME NEW S \in SUBSET Captures, NEW p
  PROVE  IsFiniteSet(Recorded(S, p)) /\ Cardinality(Recorded(S, p)) \in Nat
<1>1. Recorded(S, p) \subseteq Captures
  BY DEF Recorded
<1>2. IsFiniteSet(Recorded(S, p))
  BY <1>1, CapturesAssumption, FS_Subset
<1> QED
  BY <1>2, FS_CardinalityType

(* One more entry for a pod that has room.                                  *)
LEMMA OneMore ==
  ASSUME NEW R, IsFiniteSet(R), NEW c, Cardinality(R) < MaxBudget
  PROVE  Cardinality(R \cup {c}) <= MaxBudget
<1>1. Cardinality(R) \in Nat
  BY FS_CardinalityType
<1>2. Cardinality(R \cup {c}) = IF c \in R THEN Cardinality(R) ELSE Cardinality(R) + 1
  BY FS_AddElement
<1> QED
  BY <1>1, <1>2, BudgetAssumption

(* Type correctness of the ledger.                                          *)
LEMMA TypedStep ==
  ASSUME Typed, LedgerStep
  PROVE  Typed'
<1> USE DEF Typed, Verdicts
<1>1. CASE UNCHANGED ledgerVars
  BY <1>1 DEF ledgerVars
<1>2. CASE Tick \/ Lose
  BY <1>2 DEF Tick, Lose
<1>3. ASSUME NEW c \in Captures, Crash(c) PROVE Typed'
  BY <1>3 DEF Crash
<1>4. ASSUME NEW c \in Captures, Unasked(c) \/ CheckUnlimited(c) \/ FailOpen(c) \/ Die(c)
      PROVE  Typed'
  BY <1>4 DEF Unasked, CheckUnlimited, FailOpen, Die
<1>5. ASSUME NEW c \in Captures, Check(c) PROVE Typed'
  <2>1. CheckedState(ledger, stamp, c) \in SUBSET Captures
    BY DEF CheckedState, Prune
  <2>2. CheckVerdict(ledger, stamp, c) \in Verdicts
    BY DEF CheckVerdict
  <2> QED
    BY <1>5, <2>1, <2>2 DEF Check
<1>6. ASSUME NEW c \in Captures, Refund(c) PROVE Typed'
  BY <1>6 DEF Refund, RefundedState
<1> QED
  BY <1>1, <1>2, <1>3, <1>4, <1>5, <1>6 DEF LedgerStep, LedgerNext

----------------------------------------------------------------------------
\* Entries are of captures that were allowed, nobody is checked before its crash,
\* and nobody waits longer than MaxLag.
Account ==
  /\ ledger \subseteq {c \in Captures : verdict[c] = "allowed" /\ Budget[c] # 0}
  /\ \A c \in Captures : /\ stamp[c] <= clock
                         /\ verdict[c] # "none" => stamp[c] # NoStamp
                         /\ c \in Pending => clock - stamp[c] <= MaxLag

(* Every step of the ledger keeps the account.                               *)
LEMMA AccountStep ==
  ASSUME Typed, Typed', Account, LedgerStep
  PROVE  Account'
<1> USE ClockAssumption, BudgetAssumption
    DEF Typed, Account, Pending, NoStamp
<1>1. CASE UNCHANGED ledgerVars
  BY <1>1 DEF ledgerVars
<1>2. CASE Tick
  BY <1>2 DEF Tick
<1>3. CASE Lose
  BY <1>3 DEF Lose
<1>4. ASSUME NEW c \in Captures, Crash(c) PROVE Account'
  BY <1>4 DEF Crash
<1>5. ASSUME NEW c \in Captures, Unasked(c) \/ CheckUnlimited(c) PROVE Account'
  BY <1>5 DEF Unasked, CheckUnlimited
<1>6. ASSUME NEW c \in Captures, Check(c) PROVE Account'
  <2>1. /\ verdict[c] = "none" /\ Budget[c] # 0
        /\ verdict' = [verdict EXCEPT ![c] = CheckVerdict(ledger, stamp, c)]
        /\ ledger' = CheckedState(ledger, stamp, c)
        /\ UNCHANGED <<clock, stamp>>
    BY <1>6 DEF Check, Pending
  <2>2. ledger' \subseteq ledger \cup (IF verdict'[c] = "allowed" THEN {c} ELSE {})
    BY <2>1 DEF CheckedState, CheckVerdict, Prune
  <2>3. \A d \in Captures \ {c} : verdict'[d] = verdict[d]
    BY <2>1
  <2>4. c \in Pending
    BY <1>6 DEF Check
  <2>5. ledger' \subseteq {d \in Captures : verdict'[d] = "allowed" /\ Budget[d] # 0}
    BY <2>1, <2>2, <2>3
  <2> QED
    BY <2>1, <2>3, <2>4, <2>5
<1>7. ASSUME NEW c \in Captures, FailOpen(c) \/ Die(c) PROVE Account'
  BY <1>7 DEF FailOpen, Die
<1>8. ASSUME NEW c \in Captures, Refund(c) PROVE Account'
  <2>1. ledger' = RefundedState(ledger, stamp, c) /\ UNCHANGED <<clock, stamp, verdict>>
    BY <1>8 DEF Refund
  <2>2. ledger' \subseteq ledger
    BY <2>1 DEF RefundedState
  <2> QED
    BY <2>1, <2>2
<1> QED
  BY <1>1, <1>2, <1>3, <1>4, <1>5, <1>6, <1>7, <1>8 DEF LedgerStep, LedgerNext

\* Uploads let through under a budget, of c's pod and in c's window.
LetThrough(c) ==
  {g \in Captures : /\ PodOf[g] = PodOf[c]
                    /\ verdict[g] = "allowed" /\ Budget[g] # 0
                    /\ stamp[g] > stamp[c] - Window}

Justified == \A c \in Captures : verdict[c] = "suppressed" => Cardinality(LetThrough(c)) >= Budget[c]

\* What only a check answers: "suppressed", or "allowed" under a budget.
Checked(c) == verdict[c] = "suppressed" \/ (verdict[c] = "allowed" /\ Budget[c] # 0)

(* An answer, its crash's time and a refund are for good, and only a check
   suppresses, or allows under a budget.                                     *)
LEMMA VerdictsStay ==
  ASSUME Typed, Typed', Account, LedgerStep, NEW c \in Captures
  PROVE  /\ verdict[c] # "none" => verdict'[c] = verdict[c] /\ stamp'[c] = stamp[c]
         /\ Checked(c)' /\ ~Checked(c) => Check(c)
         /\ refunded \subseteq refunded'
<1> DEFINE Stays == verdict[c] # "none" => verdict'[c] = verdict[c] /\ stamp'[c] = stamp[c]
<1> USE DEF Typed
<1>1. CASE UNCHANGED ledgerVars \/ Tick \/ Lose
  BY <1>1 DEF ledgerVars, Tick, Lose, Checked
<1>2. ASSUME NEW d \in Captures, Crash(d)
      PROVE  Stays /\ UNCHANGED <<verdict, refunded>>
  <2>1. /\ stamp[d] = NoStamp /\ stamp' = [stamp EXCEPT ![d] = clock]
        /\ UNCHANGED <<verdict, refunded>>
    BY <1>2 DEF Crash, NoStamp
  <2>2. verdict[c] # "none" => stamp[c] # NoStamp
    BY DEF Account
  <2> QED
    BY <2>1, <2>2
<1>3. ASSUME NEW d \in Captures, Refund(d)
      PROVE  Stays /\ UNCHANGED verdict /\ refunded \subseteq refunded'
  BY <1>3 DEF Refund
<1>4. ASSUME NEW d \in Captures,
             Unasked(d) \/ CheckUnlimited(d) \/ FailOpen(d) \/ Die(d)
      PROVE  Stays /\ (Checked(c)' => Checked(c)) /\ UNCHANGED refunded
  <2>1. /\ UNCHANGED <<stamp, refunded>> /\ verdict[d] = "none" /\ ~Checked(d)'
        /\ \A g \in Captures \ {d} : verdict'[g] = verdict[g]
    BY <1>4 DEF Unasked, CheckUnlimited, FailOpen, Die, Pending, Checked
  <2>2. CASE c = d
    BY <2>1, <2>2
  <2>3. CASE c # d
    BY <2>1, <2>3 DEF Checked
  <2> QED
    BY <2>2, <2>3
<1>5. ASSUME NEW d \in Captures, Check(d)
      PROVE  Stays /\ (Checked(c)' /\ ~Checked(c) => c = d) /\ UNCHANGED refunded
  <2>1. /\ UNCHANGED <<stamp, refunded>> /\ verdict[d] = "none"
        /\ \A g \in Captures \ {d} : verdict'[g] = verdict[g]
    BY <1>5 DEF Check, Pending
  <2> QED
    BY <2>1 DEF Checked
<1>6. \/ UNCHANGED ledgerVars \/ Tick \/ Lose
      \/ \E d \in Captures : Crash(d) \/ Refund(d)
      \/ \E d \in Captures : Unasked(d) \/ CheckUnlimited(d) \/ FailOpen(d) \/ Die(d)
      \/ \E d \in Captures : Check(d)
  BY Zenon DEF LedgerStep, LedgerNext
<1>7. CASE \E d \in Captures : Crash(d) \/ Refund(d)
  BY <1>2, <1>3, <1>7 DEF Checked
<1>8. CASE \E d \in Captures : Unasked(d) \/ CheckUnlimited(d) \/ FailOpen(d) \/ Die(d)
  BY <1>4, <1>8
<1>9. CASE \E d \in Captures : Check(d)
  <2>1. PICK d \in Captures : Check(d)
    BY <1>9
  <2> QED
    BY <1>5, <2>1
<1> QED
  BY <1>1, <1>6, <1>7, <1>8, <1>9

(* A step keeps every suppression justified: what was let through stays so, and
   a check that suppresses has counted entries of its pod and window.        *)
LEMMA JustifiedStep ==
  ASSUME Typed, Typed', Account, Justified, LedgerStep
  PROVE  Justified'
<1> SUFFICES ASSUME NEW c \in Captures, verdict'[c] = "suppressed"
             PROVE  Cardinality(LetThrough(c)') >= Budget[c]
  BY DEF Justified
<1>1. /\ \A g \in Captures : verdict[g] # "none" => verdict'[g] = verdict[g] /\ stamp'[g] = stamp[g]
      /\ Checked(c)' /\ ~Checked(c) => Check(c)
  BY VerdictsStay
<1>2. IsFiniteSet(LetThrough(c)') /\ Cardinality(LetThrough(c)') \in Nat
  <2>1. LetThrough(c)' \subseteq Captures
    BY DEF LetThrough
  <2> QED
    BY <2>1, CapturesAssumption, FS_Subset, FS_CardinalityType
<1>3. Budget[c] \in Nat
  BY BudgetAssumption
<1>4. CASE verdict[c] = "suppressed"
  <2>1. LetThrough(c) \subseteq LetThrough(c)'
    BY <1>1, <1>4 DEF LetThrough
  <2>2. Cardinality(LetThrough(c)) >= Budget[c]
    BY <1>4 DEF Justified
  <2>3. Cardinality(LetThrough(c)) <= Cardinality(LetThrough(c)') /\ Cardinality(LetThrough(c)) \in Nat
    BY <1>2, <2>1, FS_Subset, FS_CardinalityType
  <2> QED
    BY <1>2, <1>3, <2>2, <2>3
<1>5. CASE Check(c)
  <2> DEFINE kept == Prune(ledger, stamp, stamp[c])
  <2>1. Exhausted(kept, c)
    BY <1>5 DEF Check, Pending, CheckVerdict, Typed
  <2>2. Recorded(kept, PodOf[c]) \subseteq LetThrough(c)'
    BY <1>1, <1>5 DEF Check, Pending, Recorded, Prune, LetThrough, Account
  <2>3. /\ Cardinality(Recorded(kept, PodOf[c])) <= Cardinality(LetThrough(c)')
        /\ Cardinality(Recorded(kept, PodOf[c])) \in Nat
    BY <1>2, <2>2, FS_Subset, FS_CardinalityType
  <2> QED
    BY <1>2, <1>3, <2>1, <2>3 DEF Exhausted
<1>6. verdict[c] # "suppressed" => Check(c)
  BY <1>1 DEF Checked
<1> QED
  BY <1>4, <1>5, <1>6

----------------------------------------------------------------------------
\* Without faults, a slot that is kept is on file until it has left the window of
\* every crash to come.
OnFile ==
  /\ \A c \in Captures : verdict[c] # "failopen"
  /\ \A c \in Kept : c \in ledger \/ stamp[c] <= clock - Window

(* What each step does to the slots kept: only a check adds one, its own.    *)
LEMMA KeptStep ==
  ASSUME Typed, Typed', Account, LedgerStep
  PROVE  /\ \A g \in Kept : stamp'[g] = stamp[g]
         /\ \A g \in Kept' \ Kept : Check(g)
<1>1. \A g \in Kept : g \in Captures /\ verdict[g] # "none"
  BY DEF Kept
<1>2. ASSUME NEW g \in Kept' \ Kept PROVE Check(g)
  <2>1. /\ g \in Captures /\ Checked(g)' /\ g \notin refunded'
        /\ ~Checked(g) \/ verdict[g] = "suppressed" \/ g \in refunded
    BY DEF Kept, Checked
  <2>2. verdict'[g] = "allowed"
    BY DEF Kept
  <2> QED
    BY <2>1, <2>2, VerdictsStay
<1> QED
  BY <1>1, <1>2, VerdictsStay

(* Each step of a reliable ledger keeps the slots on file.                   *)
LEMMA OnFileStep ==
  ASSUME ~Unreliable, Typed, Typed', Account, OnFile, LedgerStep
  PROVE  OnFile'
<1> USE BudgetAssumption DEF Typed
<1>1. ASSUME UNCHANGED <<stamp, ledger, refunded>>, clock' = clock \/ clock' = clock + 1,
             \A c \in Captures : \/ verdict'[c] = verdict[c]
                                 \/ Budget[c] = 0 /\ verdict'[c] = "allowed"
                                 \/ verdict'[c] \in {"unasked", "dead"}
      PROVE  OnFile'
  <2>1. Kept' \subseteq Kept
    BY <1>1 DEF Kept
  <2>2. \A c \in Captures : verdict'[c] # "failopen"
    BY <1>1 DEF OnFile
  <2>3. \A c \in Kept : c \in Captures /\ stamp[c] \in Int
    BY DEF Kept, NoStamp
  <2> QED
    BY <1>1, <2>1, <2>2, <2>3 DEF OnFile
<1>2. ASSUME NEW c \in Captures, Crash(c) PROVE OnFile'
  <2>1. /\ verdict[c] = "none" /\ stamp' = [stamp EXCEPT ![c] = clock]
        /\ UNCHANGED <<clock, ledger, verdict, refunded>>
    BY <1>2 DEF Crash, Account, NoStamp
  <2> QED
    BY <2>1 DEF OnFile, Kept
<1>3. ASSUME NEW c \in Captures, Check(c) PROVE OnFile'
  <2> DEFINE kept == Prune(ledger, stamp, stamp[c])
  <2>1. /\ verdict[c] = "none" /\ stamp[c] <= clock
        /\ verdict' = [verdict EXCEPT ![c] = IF Exhausted(kept, c) THEN "suppressed" ELSE "allowed"]
        /\ ledger' = IF Exhausted(kept, c) THEN kept ELSE kept \cup {c}
        /\ UNCHANGED <<clock, stamp, refunded>>
    BY <1>3 DEF Check, Pending, CheckedState, CheckVerdict, Account
  <2>2. \A g \in Kept : g \in Captures /\ (g \in kept \/ stamp[g] <= clock - Window)
    BY <2>1 DEF OnFile, Prune, Kept, NoStamp
  <2> HIDE DEF kept
  <2>3. Kept' \subseteq Kept \cup (IF Exhausted(kept, c) THEN {} ELSE {c})
    BY <2>1 DEF Kept
  <2> QED
    BY <2>1, <2>2, <2>3 DEF OnFile
<1>4. ASSUME NEW c \in Captures, Refund(c) PROVE OnFile'
  <2>1. /\ Budget[c] # 0 /\ verdict[c] = "allowed" /\ c \notin refunded
        /\ ledger' = RefundedState(ledger, stamp, c)
        /\ refunded' = refunded \cup {c} /\ UNCHANGED <<clock, stamp, verdict>>
    BY <1>4 DEF Refund, OnFile
  <2>2. c \in Kept /\ Kept' = Kept \ {c}
    BY <2>1 DEF Kept
  <2>3. CASE c \in ledger
    <3>1. ledger' = ledger \ {c}
      BY <2>1, <2>3 DEF RefundedState, Twins
    <3> QED
      BY <2>1, <2>2, <3>1 DEF OnFile
  <2>4. CASE c \notin ledger
    <3>1. stamp[c] <= clock - Window
      BY <2>2, <2>4 DEF OnFile
    <3>2. \A g \in ledger \ ledger' : stamp[g] = stamp[c]
      BY <2>1 DEF RefundedState, Twins
    <3> QED
      BY <2>1, <2>2, <3>1, <3>2 DEF OnFile
  <2> QED
    BY <2>3, <2>4
<1>5. CASE UNCHANGED ledgerVars \/ Tick
  BY <1>1, <1>5 DEF ledgerVars, Tick
<1>6. ASSUME NEW c \in Captures, Unasked(c) \/ CheckUnlimited(c) PROVE OnFile'
  BY <1>1, <1>6 DEF Unasked, CheckUnlimited
<1>7. ~Lose /\ \A c \in Captures : ~FailOpen(c) /\ ~Die(c)
  BY DEF Lose, FailOpen, Die
<1> QED
  BY <1>2, <1>3, <1>4, <1>5, <1>6, <1>7 DEF LedgerStep, LedgerNext

\* The slots WindowBudget counts at c.
Near(c) ==
  {g \in Kept : /\ PodOf[g] = PodOf[c]
                       /\ stamp[g] <= stamp[c]
                       /\ stamp[g] > stamp[c] - (Window - MaxLag)}

NearBudget == \A c \in Kept : Cardinality(Near(c)) <= MaxBudget

(* Each step of a reliable ledger keeps every pod within its budget in any
   stretch of Window - MaxLag: the slots near a crash that is now allowed are all
   on file, since the crash is at most MaxLag old, and were counted.         *)
LEMMA NearStep ==
  ASSUME Typed, Typed', Account, OnFile, NearBudget, LedgerStep
  PROVE  NearBudget'
<1> SUFFICES ASSUME NEW c \in Kept'
             PROVE  Cardinality(Near(c)') <= MaxBudget
  BY DEF NearBudget
<1>0. c \in Captures /\ Kept \subseteq Captures /\ Kept' \subseteq Captures
  BY DEF Kept
<1>1. /\ \A g \in Kept : stamp'[g] = stamp[g]
      /\ \A g \in Kept' \ Kept : Check(g)
  BY KeptStep
<1>2. stamp \in [Captures -> Int] /\ stamp' \in [Captures -> Int] /\ clock \in Int
      /\ Window \in Nat /\ MaxLag \in Nat /\ MaxBudget \in Nat
  BY BudgetAssumption, ClockAssumption DEF Typed, NoStamp
<1>3. IsFiniteSet(Near(c)) /\ Cardinality(Near(c)) \in Nat
  <2>1. Near(c) \subseteq Captures
    BY <1>0 DEF Near
  <2> QED
    BY <2>1, CapturesAssumption, FS_Subset, FS_CardinalityType
<1>4. CASE Near(c)' \subseteq Kept /\ c \in Kept
  <2>1. Near(c)' \subseteq Near(c)
    BY <1>1, <1>4 DEF Near
  <2>2. Cardinality(Near(c)') <= Cardinality(Near(c)) /\ Cardinality(Near(c)') \in Nat
    BY <1>3, <2>1, FS_Subset, FS_CardinalityType
  <2>3. Cardinality(Near(c)) <= MaxBudget
    BY <1>4 DEF NearBudget
  <2> QED
    BY <1>2, <1>3, <2>2, <2>3
<1>5. CASE Near(c)' \subseteq Kept /\ c \notin Kept
  <2>1. c \notin Near(c)'
    BY <1>5
  <2>2. ~(stamp'[c] > stamp'[c] - (Window - MaxLag))
    BY <1>0, <1>2, <2>1 DEF Near
  <2>3. Near(c)' = {}
    BY <1>0, <1>2, <2>2 DEF Near
  <2> QED
    BY <1>2, <2>3, FS_EmptySet
<1>6. ASSUME NEW d \in Near(c)', d \notin Kept
      PROVE  Cardinality(Near(c)') <= MaxBudget
  <2> DEFINE kept == Prune(ledger, stamp, stamp[d])
  <2>1. d \in Kept' /\ d \in Captures /\ PodOf[d] = PodOf[c] /\ stamp'[d] <= stamp'[c]
    BY <1>0 DEF Near
  <2>2. Check(d)
    BY <1>1, <1>6, <2>1
  <2>3. /\ d \in Pending /\ UNCHANGED <<clock, stamp, refunded>>
        /\ verdict' = [verdict EXCEPT ![d] = CheckVerdict(ledger, stamp, d)]
    BY <2>1, <2>2 DEF Check
  <2>4. stamp[d] <= clock /\ clock - stamp[d] <= MaxLag
    BY <2>1, <2>3 DEF Account
  <2>5. ~Exhausted(kept, d)
    <3>1. verdict'[d] = "allowed"
      BY <2>1 DEF Kept
    <3> QED
      BY <2>1, <2>3, <3>1 DEF Typed, CheckVerdict
  <2>6. ASSUME NEW g \in Near(c)', g # d PROVE g \in Recorded(kept, PodOf[d])
    <3>1. g \in Kept' /\ g \in Captures /\ PodOf[g] = PodOf[d]
      BY <1>0, <2>1 DEF Near
    <3>2. g \in Kept
      <4>1. verdict'[g] = verdict[g]
        BY <2>1, <2>3, <2>6, <3>1 DEF Typed
      <4> QED
        BY <2>3, <3>1, <4>1 DEF Kept
    <3>3. stamp[g] > stamp[c] - (Window - MaxLag) /\ stamp[d] <= stamp[c]
      BY <2>1, <2>3 DEF Near
    <3>4. stamp[g] > clock - Window /\ stamp[g] > stamp[d] - Window
      <4>1. stamp[g] \in Int /\ stamp[c] \in Int /\ stamp[d] \in Int
        BY <1>0, <1>2, <2>1, <3>1
      <4> QED
        BY <1>2, <2>4, <3>3, <4>1
    <3>5. g \in ledger
      <4>1. stamp[g] \in Int
        BY <1>2, <3>1
      <4>2. g \in ledger \/ stamp[g] <= clock - Window
        BY <3>2 DEF OnFile
      <4> QED
        BY <1>2, <3>4, <4>1, <4>2
    <3> QED
      BY <3>1, <3>4, <3>5 DEF Recorded, Prune
  <2> DEFINE R == Recorded(kept, PodOf[d])
  <2>7. kept \in SUBSET Captures
    BY DEF Prune, Account
  <2>8. IsFiniteSet(R) /\ Cardinality(R) \in Nat
    BY <2>7, RecordedFinite
  <2>9. Cardinality(R) < MaxBudget
    BY <2>1, <2>5, <2>8, BudgetAssumption DEF Exhausted
  <2>10. Cardinality(R \cup {d}) <= MaxBudget
    BY <2>8, <2>9, OneMore
  <2>11. Near(c)' \subseteq R \cup {d}
    BY <2>6
  <2> HIDE DEF R
  <2>12. IsFiniteSet(R \cup {d}) /\ Cardinality(R \cup {d}) \in Nat
    BY <2>8, FS_AddElement, FS_CardinalityType
  <2>13. Cardinality(Near(c)') <= Cardinality(R \cup {d}) /\ Cardinality(Near(c)') \in Nat
    BY <2>11, <2>12, FS_Subset, FS_CardinalityType
  <2> QED
    BY <1>2, <2>10, <2>12, <2>13
<1> QED
  BY <1>4, <1>5, <1>6

----------------------------------------------------------------------------
\* The inductive invariant of the ledger.
Books == Typed /\ Account /\ Justified /\ (~Unreliable => OnFile /\ NearBudget)

(* Nothing is on the books at first, and every step keeps them.              *)
LEMMA BooksKept == LedgerSpec => []Books
<1>1. LedgerInit => Books
  <2> SUFFICES ASSUME LedgerInit PROVE Books
    OBVIOUS
  <2>1. Kept = {}
    BY DEF LedgerInit, Kept
  <2>2. Typed
    BY DEF LedgerInit, Typed, Verdicts
  <2> QED
    BY <2>1, <2>2 DEF LedgerInit, Books, Account, Justified, OnFile, NearBudget, Pending, NoStamp
<1>2. Books /\ LedgerStep => Books'
  BY TypedStep, AccountStep, JustifiedStep, OnFileStep, NearStep DEF Books
<1> QED
  BY <1>1, <1>2, PTL DEF LedgerSpec, LedgerStep

(* check_and_record suppresses only with cause: as many uploads of the pod as the
   capture's budget were let through in its window, with and without faults.  *)
THEOREM LedgerSuppressesWithCause == LedgerSpec => []SuppressedJustified
<1>1. Books => SuppressedJustified
  BY DEF Books, Justified, LetThrough, SuppressedJustified
<1> QED
  BY <1>1, BooksKept, PTL

(* check_and_record, while state IO works: in any stretch of Window - MaxLag a pod
   keeps at most MaxBudget uploads, whatever order its handlers come in.      *)
THEOREM LedgerKeepsBudget == LedgerSpec => [](~Unreliable => WindowBudget)
<1>1. Books => (~Unreliable => WindowBudget)
  BY DEF Books, NearBudget, Near, WindowBudget
<1> QED
  BY <1>1, BooksKept, PTL
=============================================================================
