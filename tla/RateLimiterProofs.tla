------------------------- MODULE RateLimiterProofs --------------------------
(***************************************************************************)
(* Proofs about RateLimiter for any number of concurrent handlers, pods,   *)
(* budget and window, with IO errors and kills at every system call: what  *)
(* the flock is for, and that each call on recent.json is a step of the    *)
(* atomic BudgetLedger or changes nothing of it.  What LedgerProofs shows  *)
(* of the ledger then holds of the file.                                   *)
(***************************************************************************)
EXTENDS RateLimiter, FiniteSetTheorems, TLAPS

(* Entries of one pod are finitely many and counted by a natural number.    *)
LEMMA RecordedFinite ==
  ASSUME NEW S \in SUBSET Captures, NEW p
  PROVE  IsFiniteSet(Recorded(S, p)) /\ Cardinality(Recorded(S, p)) \in Nat
<1>1. Recorded(S, p) \subseteq Captures
  BY DEF Recorded
<1>2. IsFiniteSet(Recorded(S, p))
  BY <1>1, CapturesAssumption, FS_Subset
<1> QED
  BY <1>2, FS_CardinalityType

(* Dropping entries, as pruning and a refund do, keeps a state in budget.   *)
LEMMA FewerEntries ==
  ASSUME NEW S \in SUBSET Captures, NEW T \in SUBSET S, WithinBudget(S)
  PROVE  WithinBudget(T)
<1> SUFFICES ASSUME NEW p \in Pods
             PROVE  Cardinality(Recorded(T, p)) <= MaxBudget
  BY DEF WithinBudget
<1>1. Recorded(T, p) \subseteq Recorded(S, p)
  BY DEF Recorded
<1>2. Cardinality(Recorded(T, p)) <= Cardinality(Recorded(S, p))
  BY <1>1, RecordedFinite, FS_Subset
<1>3. Cardinality(Recorded(S, p)) <= MaxBudget
  BY DEF WithinBudget
<1>4. Cardinality(Recorded(T, p)) \in Nat /\ Cardinality(Recorded(S, p)) \in Nat
  BY RecordedFinite
<1> QED
  BY <1>2, <1>3, <1>4, BudgetAssumption

(* One more entry for a pod that has room.                                  *)
LEMMA OneMore ==
  ASSUME NEW R, IsFiniteSet(R), NEW c, Cardinality(R) < MaxBudget
  PROVE  Cardinality(R \cup {c}) <= MaxBudget
<1>1. Cardinality(R) \in Nat
  BY FS_CardinalityType
<1>2. Cardinality(R \cup {c}) = IF c \in R THEN Cardinality(R) ELSE Cardinality(R) + 1
  BY FS_AddElement
<1> QED
  BY <1>1, <1>2, BudgetAssumption

(* locked_check_and_record: what it writes back is within budget, because it
   adds an entry only to a pod that has fewer than the capture's budget.    *)
LEMMA CheckKeepsBudget ==
  ASSUME NEW S \in SUBSET Captures, NEW st, NEW c \in Captures, WithinBudget(S)
  PROVE  /\ CheckedState(S, st, c) \in SUBSET Captures
         /\ WithinBudget(CheckedState(S, st, c))
<1> DEFINE kept == Prune(S, st, st[c])
<1>1. kept \in SUBSET S
  BY DEF Prune
<1>2. WithinBudget(kept)
  BY <1>1, FewerEntries
<1>3. CheckedState(S, st, c) = IF Exhausted(kept, c) THEN kept ELSE kept \cup {c}
  BY DEF CheckedState
<1> HIDE DEF kept
<1>4. ASSUME ~Exhausted(kept, c), NEW p \in Pods
      PROVE  Cardinality(Recorded(kept \cup {c}, p)) <= MaxBudget
  <2>1. CASE PodOf[c] = p
    <3>1. Recorded(kept \cup {c}, p) = Recorded(kept, p) \cup {c}
      BY <2>1 DEF Recorded
    <3>2. IsFiniteSet(Recorded(kept, p)) /\ Cardinality(Recorded(kept, p)) \in Nat
      BY <1>1, RecordedFinite
    <3>3. Cardinality(Recorded(kept, p)) < MaxBudget
      BY <1>4, <2>1, <3>2, BudgetAssumption DEF Exhausted
    <3> QED
      BY <3>1, <3>2, <3>3, OneMore
  <2>2. CASE PodOf[c] # p
    <3>1. Recorded(kept \cup {c}, p) = Recorded(kept, p)
      BY <2>2 DEF Recorded
    <3> QED
      BY <3>1, <1>2 DEF WithinBudget
  <2> QED
    BY <2>1, <2>2
<1> QED
  BY <1>1, <1>2, <1>3, <1>4 DEF WithinBudget

(* locked_refund only removes entries.                                      *)
LEMMA RefundKeepsBudget ==
  ASSUME NEW S \in SUBSET Captures, NEW st, NEW c \in Captures, WithinBudget(S)
  PROVE  /\ RefundedState(S, st, c) \in SUBSET Captures
         /\ WithinBudget(RefundedState(S, st, c))
<1>1. RefundedState(S, st, c) \in SUBSET S
  BY DEF RefundedState
<1> QED
  BY <1>1, FewerEntries

(* A new or cut-short file, which parses as no entries, is within budget.   *)
LEMMA EmptyWithinBudget == WithinBudget({})
<1> SUFFICES ASSUME NEW p \in Pods
             PROVE  Cardinality(Recorded({}, p)) <= MaxBudget
  BY DEF WithinBudget
<1>1. Recorded({}, p) = {}
  BY DEF Recorded
<1> QED
  BY <1>1, FS_EmptySet, BudgetAssumption

----------------------------------------------------------------------------
(* Type correctness of the limiter.                                         *)
THEOREM TypeCorrect == Spec => []TypeOK
<1>1. Init => TypeOK
  BY DEF Init, TypeOK, Control, Blank, NoStamp
<1>2. TypeOK /\ [Next]_vars => TypeOK'
  <2> SUFFICES ASSUME TypeOK, [Next]_vars PROVE TypeOK'
    OBVIOUS
  <2> USE DEF TypeOK, Control, Locked, Goto
  <2>1. CASE Tick
    BY <2>1 DEF Tick
  <2>2. ASSUME NEW c \in Captures, Crash(c) PROVE TypeOK'
    BY <2>2 DEF Crash
  <2>3. ASSUME NEW c \in Captures, Unlimited(c) PROVE TypeOK'
    BY <2>3 DEF Unlimited
  <2>4. ASSUME NEW c \in Captures, OpenState(c) PROVE TypeOK'
    BY <2>4 DEF OpenState
  <2>5. ASSUME NEW c \in Captures, LockState(c) PROVE TypeOK'
    BY <2>5 DEF LockState
  <2>6. ASSUME NEW c \in Captures, ReadAndUpdate(c) PROVE TypeOK'
    <3>1. Parsed \in SUBSET Captures
      BY DEF Parsed
    <3>2. CheckedState(Parsed, stamp, c) \in SUBSET Captures
      BY <3>1 DEF CheckedState, Prune
    <3>3. RefundedState(Parsed, stamp, c) \in SUBSET Captures
      BY <3>1 DEF RefundedState
    <3> QED
      BY <2>6, <3>1, <3>2, <3>3 DEF ReadAndUpdate
  <2>7. ASSUME NEW c \in Captures, Truncate(c) PROVE TypeOK'
    BY <2>7 DEF Truncate
  <2>8. ASSUME NEW c \in Captures, WriteBack(c) PROVE TypeOK'
    <3>1. CheckVerdict(mem[c].old, stamp, c) \in {"allowed", "suppressed"}
      BY DEF CheckVerdict
    <3> QED
      BY <2>8, <3>1 DEF WriteBack, Blank
  <2>9. ASSUME NEW c \in Captures, UploadDone(c) \/ UploadFailed(c) PROVE TypeOK'
    BY <2>9 DEF UploadDone, UploadFailed
  <2>10. ASSUME NEW c \in Captures, IoError(c) PROVE TypeOK'
    BY <2>10 DEF IoError, Release, Blank
  <2>11. ASSUME NEW c \in Captures, Kill(c) PROVE TypeOK'
    BY <2>11 DEF Kill, Release, Blank
  <2>12. CASE UNCHANGED vars
    BY <2>12 DEF vars
  <2> QED
    BY <2>1, <2>2, <2>3, <2>4, <2>5, <2>6, <2>7, <2>8, <2>9, <2>10, <2>11, <2>12
       DEF Next, Step
<1> QED
  BY <1>1, <1>2, PTL DEF Spec

(* with_locked_state: the handler in the locked section holds the flock, with
   kills and errors anywhere.                                               *)
LEMMA HolderInside == Spec => []LockHeld
<1>1. Init => LockHeld
  BY DEF Init, LockHeld, Locked
<1>2. TypeOK /\ LockHeld /\ [Next]_vars => LockHeld'
  <2> SUFFICES ASSUME TypeOK, LockHeld, [Next]_vars PROVE LockHeld'
    OBVIOUS
  <2> USE NoOneAssumption DEF TypeOK, LockHeld, Locked, Goto
  <2>1. CASE Tick \/ UNCHANGED vars
    BY <2>1 DEF Tick, vars
  <2>2. ASSUME NEW c \in Captures, Crash(c) \/ UploadDone(c) \/ UploadFailed(c)
        PROVE  LockHeld'
    BY <2>2 DEF Crash, UploadDone, UploadFailed
  <2>3. ASSUME NEW c \in Captures, Unlimited(c) \/ OpenState(c) \/ LockState(c)
        PROVE  LockHeld'
    BY <2>3 DEF Unlimited, OpenState, LockState
  <2>4. ASSUME NEW c \in Captures, ReadAndUpdate(c) \/ Truncate(c)
        PROVE  LockHeld'
    BY <2>4 DEF ReadAndUpdate, Truncate
  <2>5. ASSUME NEW c \in Captures, WriteBack(c)
        PROVE  LockHeld'
    BY <2>5 DEF WriteBack
  <2>6. ASSUME NEW c \in Captures, IoError(c) \/ Kill(c)
        PROVE  LockHeld'
    BY <2>6 DEF IoError, Kill, Release
  <2> QED
    BY <2>1, <2>2, <2>3, <2>4, <2>5, <2>6 DEF Next, Step
<1> QED
  BY <1>1, <1>2, TypeCorrect, PTL DEF Spec

(* with_locked_state: between the read and the end of the rewrite there is one
   handler at a time.                                                       *)
THEOREM Exclusion == Spec => []MutualExclusion
<1>1. LockHeld => MutualExclusion
  BY DEF LockHeld, MutualExclusion
<1> QED
  BY <1>1, HolderInside, PTL

(* The file, and what any handler is about to write to it, never holds more
   than MaxBudget entries of a pod.                                        *)
THEOREM BudgetNeverExceeded == Spec => []BudgetHeld
<1>1. Init => BudgetHeld
  <2> SUFFICES ASSUME Init PROVE BudgetHeld
    OBVIOUS
  <2>1. Parsed = {} /\ \A c \in Captures : mem[c].new = {}
    BY DEF Init, Parsed, Blank
  <2> QED
    BY <2>1, EmptyWithinBudget DEF BudgetHeld
<1>2. TypeOK /\ BudgetHeld /\ [Next]_vars => BudgetHeld'
  <2> SUFFICES ASSUME TypeOK, BudgetHeld, [Next]_vars PROVE BudgetHeld'
    OBVIOUS
  <2> USE EmptyWithinBudget DEF TypeOK, BudgetHeld, Parsed
  <2>1. CASE Tick \/ UNCHANGED vars
    BY <2>1 DEF Tick, vars
  <2>2. ASSUME NEW c \in Captures,
               \/ Crash(c) \/ UploadDone(c) \/ UploadFailed(c)
               \/ Unlimited(c) \/ LockState(c)
        PROVE  BudgetHeld'
    BY <2>2 DEF Crash, UploadDone, UploadFailed, Unlimited, LockState
  <2>3. ASSUME NEW c \in Captures, OpenState(c) PROVE BudgetHeld'
    BY <2>3 DEF OpenState
  <2>4. ASSUME NEW c \in Captures, ReadAndUpdate(c) PROVE BudgetHeld'
    <3>1. Parsed \in SUBSET Captures /\ WithinBudget(Parsed)
      OBVIOUS
    <3>2. WithinBudget(CheckedState(Parsed, stamp, c))
      BY <3>1, CheckKeepsBudget
    <3>3. WithinBudget(RefundedState(Parsed, stamp, c))
      BY <3>1, RefundKeepsBudget
    <3>4. WithinBudget(mem'[c].new)
      BY <2>4, <3>2, <3>3 DEF ReadAndUpdate
    <3>5. \A d \in Captures \ {c} : mem'[d] = mem[d]
      BY <2>4 DEF ReadAndUpdate
    <3>6. UNCHANGED file
      BY <2>4 DEF ReadAndUpdate
    <3> QED
      BY <3>4, <3>5, <3>6
  <2>5. ASSUME NEW c \in Captures, Truncate(c) PROVE BudgetHeld'
    BY <2>5 DEF Truncate
  <2>6. ASSUME NEW c \in Captures, WriteBack(c) PROVE BudgetHeld'
    <3>1. Parsed' = mem[c].new
      BY <2>6 DEF WriteBack
    <3>2. \A d \in Captures : mem'[d].new \in {mem[d].new, {}}
      BY <2>6 DEF WriteBack, Blank
    <3>3. \A d \in Captures : WithinBudget(mem'[d].new)
      BY <3>2
    <3> QED
      BY <3>1, <3>3
  <2>7. ASSUME NEW c \in Captures, IoError(c) \/ Kill(c) PROVE BudgetHeld'
    <3>1. UNCHANGED file
      BY <2>7 DEF IoError, Kill
    <3>2. \A d \in Captures : mem'[d].new \in {mem[d].new, {}}
      BY <2>7 DEF IoError, Kill, Blank
    <3>3. \A d \in Captures : WithinBudget(mem'[d].new)
      BY <3>2
    <3> QED
      BY <3>1, <3>3
  <2> QED
    BY <2>1, <2>2, <2>3, <2>4, <2>5, <2>6, <2>7 DEF Next, Step
<1> QED
  BY <1>1, <1>2, TypeCorrect, PTL DEF Spec

----------------------------------------------------------------------------
InState == {"open", "lock"} \cup Locked  \* inside check_and_record or refund

\* What a handler at each point has been told and has in memory.
Told(c) ==
  /\ pc[c] = "idle" <=> stamp[c] = NoStamp
  /\ verdict[c] = "none" => pc[c] \in {"idle"} \cup InState
  /\ pc[c] = "idle" => verdict[c] = "none"
  /\ pc[c] \in {"idle", "upload"} \cup InState =>
       verdict[c] \in {"none", "allowed", "failopen"} /\ c \notin refunded
  /\ pc[c] = "upload" => verdict[c] # "none"
  /\ pc[c] \in {"lock"} \cup Locked => Budget[c] # 0

Updated(S, st, c) == IF Checking(c) THEN CheckedState(S, st, c) ELSE RefundedState(S, st, c)

InMemory(c) ==
  /\ pc[c] \in {"truncate", "write"} => mem[c].new = Updated(mem[c].old, stamp, c)
  /\ pc[c] = "truncate" => mem[c].old = Parsed
  /\ pc[c] = "write" => Parsed = {}

\* Entries are those of captures that have crashed.
Crashed == {c \in Captures : stamp[c] # NoStamp}
Entries == Parsed \subseteq Crashed /\ \A c \in Captures : mem[c].old \cup mem[c].new \subseteq Crashed

RefInv == Entries /\ \A c \in Captures : Told(c) /\ InMemory(c)

(* A check and a refund depend on the stamps of the entries and of the capture
   only: a crash elsewhere does not change what they write back.             *)
LEMMA SameStamps ==
  ASSUME NEW S, NEW c, NEW st, NEW su,
         \A g \in S \cup {c} : st[g] = su[g]
  PROVE  /\ CheckedState(S, st, c) = CheckedState(S, su, c)
         /\ RefundedState(S, st, c) = RefundedState(S, su, c)
<1>1. Prune(S, st, st[c]) = Prune(S, su, su[c])
  BY DEF Prune
<1>2. Twins(S, st, c) = Twins(S, su, c)
  BY DEF Twins
<1> QED
  BY <1>1, <1>2 DEF CheckedState, RefundedState

(* What a check or a refund writes back are entries it read, and its own.    *)
LEMMA UpdateEntries ==
  ASSUME NEW S, NEW st, NEW c
  PROVE  Updated(S, st, c) \subseteq S \cup {c}
BY DEF Updated, CheckedState, RefundedState, Prune

(* Every step keeps what handlers were told in line with where they are.     *)
LEMMA ToldStep ==
  ASSUME TypeOK, \A c \in Captures : Told(c), [Next]_vars
  PROVE  \A c \in Captures : Told(c)'
<1> USE DEF TypeOK, Told, InState, Locked, Control, Goto, NoStamp
<1>1. CASE Tick \/ UNCHANGED vars
  BY <1>1 DEF Tick, vars
<1>2. ASSUME NEW c \in Captures, Crash(c) PROVE \A d \in Captures : Told(d)'
  <2>1. /\ pc[c] = "idle" /\ pc' = [pc EXCEPT ![c] = "open"]
        /\ stamp' = [stamp EXCEPT ![c] = clock] /\ clock # NoStamp
        /\ UNCHANGED <<verdict, refunded>>
    BY <1>2 DEF Crash
  <2>2. Told(c)'
    BY <2>1
  <2>3. ASSUME NEW d \in Captures \ {c} PROVE Told(d)'
    BY <2>1
  <2> QED
    BY <2>2, <2>3
<1>3. ASSUME NEW c \in Captures, Unlimited(c) PROVE \A d \in Captures : Told(d)'
  BY <1>3 DEF Unlimited, Checking
<1>4. ASSUME NEW c \in Captures, OpenState(c) \/ LockState(c) PROVE \A d \in Captures : Told(d)'
  <2>1. /\ pc[c] \in {"open", "lock"} /\ Budget[c] # 0
        /\ \/ pc' = [pc EXCEPT ![c] = "done"] /\ verdict[c] # "none"
           \/ pc' = [pc EXCEPT ![c] = "lock"]
           \/ pc' = [pc EXCEPT ![c] = "read"]
        /\ UNCHANGED <<stamp, verdict, refunded>>
    BY <1>4 DEF OpenState, LockState, Checking
  <2>2. Told(c)'
    BY <2>1
  <2>3. ASSUME NEW d \in Captures \ {c} PROVE Told(d)'
    BY <2>1
  <2> QED
    BY <2>2, <2>3
<1>5. ASSUME NEW c \in Captures, ReadAndUpdate(c) \/ Truncate(c) PROVE \A d \in Captures : Told(d)'
  BY <1>5 DEF ReadAndUpdate, Truncate
<1>6. ASSUME NEW c \in Captures, WriteBack(c) PROVE \A d \in Captures : Told(d)'
  BY <1>6 DEF WriteBack, Checking, CheckVerdict
<1>7. ASSUME NEW c \in Captures, UploadDone(c) \/ UploadFailed(c) PROVE \A d \in Captures : Told(d)'
  BY <1>7 DEF UploadDone, UploadFailed
<1>8. ASSUME NEW c \in Captures, IoError(c) PROVE \A d \in Captures : Told(d)'
  BY <1>8 DEF IoError, Checking
<1>9. ASSUME NEW c \in Captures, Kill(c) PROVE \A d \in Captures : Told(d)'
  BY <1>9 DEF Kill
<1> QED
  BY <1>1, <1>2, <1>3, <1>4, <1>5, <1>6, <1>7, <1>8, <1>9 DEF Next, Step

(* Every step keeps the file, and the memory of handlers in the locked section,
   about captures that have crashed, and each pending rewrite an update of what
   its handler read.                                                         *)
LEMMA MemoryStep ==
  ASSUME TypeOK, LockHeld, RefInv, [Next]_vars
  PROVE  Entries' /\ \A c \in Captures : InMemory(c)'
<1> USE DEF TypeOK, RefInv, InState, Locked, Control, Goto, NoStamp
<1>1. CASE Tick \/ UNCHANGED vars
  BY <1>1 DEF Tick, vars, Entries, Crashed, InMemory, Parsed, Updated, Checking
<1>2. ASSUME NEW c \in Captures, Crash(c) PROVE Entries' /\ \A d \in Captures : InMemory(d)'
  <2>1. /\ pc[c] = "idle" /\ pc' = [pc EXCEPT ![c] = "open"]
        /\ stamp[c] = NoStamp /\ stamp' = [stamp EXCEPT ![c] = clock] /\ clock # NoStamp
        /\ UNCHANGED <<verdict, file, mem>>
    BY <1>2 DEF Crash, Told
  <2>2. Crashed \subseteq Crashed' /\ c \notin Crashed
    BY <2>1 DEF Crashed
  <2>3. Entries'
    BY <2>1, <2>2 DEF Entries, Parsed
  <2>4. ASSUME NEW d \in Captures, pc[d] \in {"truncate", "write"}
        PROVE  Updated(mem[d].old, stamp, d)' = Updated(mem[d].old, stamp, d)
    <3>1. \A g \in mem[d].old \cup {d} : stamp[g] = stamp'[g]
      BY <2>1, <2>2, <2>4 DEF Entries, Crashed
    <3>2. /\ CheckedState(mem[d].old, stamp, d) = CheckedState(mem[d].old, stamp', d)
          /\ RefundedState(mem[d].old, stamp, d) = RefundedState(mem[d].old, stamp', d)
      BY <3>1, SameStamps
    <3> QED
      BY <2>1, <3>2 DEF Updated, Checking
  <2>5. ASSUME NEW d \in Captures PROVE InMemory(d)'
    BY <2>1, <2>4, <2>5 DEF InMemory, Parsed
  <2> QED
    BY <2>3, <2>5
<1>3. ASSUME NEW c \in Captures,
             Unlimited(c) \/ OpenState(c) \/ LockState(c) \/ UploadDone(c) \/ UploadFailed(c)
               \/ IoError(c) \/ Kill(c)
      PROVE  Entries' /\ \A d \in Captures : InMemory(d)'
  <2>1. /\ Parsed' = Parsed /\ stamp' = stamp
        /\ pc'[c] \notin {"truncate", "write"} /\ mem'[c] \in {mem[c], Blank}
        /\ \A d \in Captures \ {c} : pc'[d] = pc[d] /\ mem'[d] = mem[d] /\ verdict'[d] = verdict[d]
    <3>1. CASE OpenState(c)
      BY <3>1 DEF OpenState, Parsed
    <3>2. CASE Unlimited(c) \/ LockState(c) \/ UploadDone(c) \/ UploadFailed(c)
      BY <3>2 DEF Unlimited, LockState, UploadDone, UploadFailed, Parsed
    <3>3. CASE IoError(c) \/ Kill(c)
      BY <3>3 DEF IoError, Kill, Parsed
    <3> QED
      BY <1>3, <3>1, <3>2, <3>3
  <2>2. Entries'
    BY <2>1 DEF Entries, Crashed, Blank
  <2>3. ASSUME NEW d \in Captures PROVE InMemory(d)'
    BY <2>1 DEF InMemory, Updated, Checking
  <2> QED
    BY <2>2, <2>3
<1>4. ASSUME NEW c \in Captures, ReadAndUpdate(c) PROVE Entries' /\ \A d \in Captures : InMemory(d)'
  <2>1. /\ pc[c] = "read" /\ pc' = [pc EXCEPT ![c] = "truncate"]
        /\ mem' = [mem EXCEPT ![c] = [old |-> Parsed, new |-> Updated(Parsed, stamp, c)]]
        /\ Parsed' = Parsed /\ UNCHANGED <<stamp, verdict>>
    BY <1>4 DEF ReadAndUpdate, Updated, Parsed
  <2>2. Updated(Parsed, stamp, c) \subseteq Crashed
    BY <2>1, UpdateEntries DEF Entries, Crashed, Told
  <2>3. Entries'
    BY <2>1, <2>2 DEF Entries, Crashed
  <2>4. mem'[c].old = Parsed /\ mem'[c].new = Updated(Parsed, stamp, c)
    BY <2>1
  <2>5. InMemory(c)'
    BY <2>1, <2>4 DEF InMemory, Updated, Checking
  <2>6. ASSUME NEW d \in Captures \ {c} PROVE InMemory(d)'
    BY <2>1 DEF InMemory, Updated, Checking
  <2> QED
    BY <2>3, <2>5, <2>6
<1>5. ASSUME NEW c \in Captures, Truncate(c) PROVE Entries' /\ \A d \in Captures : InMemory(d)'
  <2>1. /\ pc[c] = "truncate" /\ pc' = [pc EXCEPT ![c] = "write"]
        /\ Parsed' = {} /\ UNCHANGED <<stamp, verdict, mem>>
    BY <1>5 DEF Truncate, Parsed
  <2>2. Entries'
    BY <2>1 DEF Entries, Crashed
  <2>3. InMemory(c)'
    BY <2>1 DEF InMemory, Updated, Checking
  <2>4. ASSUME NEW d \in Captures \ {c} PROVE InMemory(d)'
    BY <2>1 DEF InMemory, LockHeld
  <2> QED
    BY <2>2, <2>3, <2>4
<1>6. ASSUME NEW c \in Captures, WriteBack(c) PROVE Entries' /\ \A d \in Captures : InMemory(d)'
  <2>1. /\ pc[c] = "write" /\ pc'[c] \in {"upload", "done"}
        /\ \A d \in Captures \ {c} : pc'[d] = pc[d]
        /\ mem' = [mem EXCEPT ![c] = Blank]
        /\ Parsed' = mem[c].new /\ UNCHANGED stamp
    BY <1>6 DEF WriteBack, Parsed
  <2>2. Entries'
    BY <2>1 DEF Entries, Crashed, Blank
  <2>3. ASSUME NEW d \in Captures PROVE InMemory(d)'
    BY <2>1 DEF InMemory, LockHeld
  <2> QED
    BY <2>2, <2>3
<1> QED
  BY <1>1, <1>2, <1>3, <1>4, <1>5, <1>6 DEF Next, Step

(* The account of handlers, their memory and the file holds in every state.  *)
LEMMA RefInvariant == Spec => [](TypeOK /\ LockHeld /\ RefInv)
<1>1. Init => RefInv
  BY DEF Init, RefInv, Entries, Crashed, Told, InMemory, InState, Locked, Parsed, Blank, NoStamp
<1>2. TypeOK /\ LockHeld /\ RefInv /\ [Next]_vars => RefInv'
  BY ToldStep, MemoryStep DEF RefInv
<1> QED
  BY <1>1, <1>2, TypeCorrect, HolderInside, PTL DEF Spec

----------------------------------------------------------------------------
\* The ledger's own steps, and none, of the file.
LedgerStep == [Ledger!LedgerNext]_(Ledger!ledgerVars)

(* Where nobody has the file cut short, before and after, the ledger is the file. *)
LEMMA LedgerIsFile ==
  ASSUME TypeOK, LockHeld, \A c \in Captures : pc[c] # "write"
  PROVE  FileLedger = Parsed
BY DEF FileLedger, TypeOK

(* While a handler is writing, the ledger is what it has read.               *)
LEMMA LedgerIsOld ==
  ASSUME TypeOK, LockHeld, NEW c \in Captures, pc[c] = "write"
  PROVE  FileLedger = mem[c].old
BY NoOneAssumption DEF FileLedger, TypeOK, LockHeld, Locked

(* A step that leaves alone the file's content, who is writing and what the
   writer has read leaves the ledger alone.                                  *)
LEMMA SameLedger ==
  ASSUME TypeOK, LockHeld, TypeOK', LockHeld', Parsed' = Parsed,
         \A c \in Captures : /\ (pc'[c] = "write") <=> (pc[c] = "write")
                             /\ pc[c] = "write" => mem'[c] = mem[c]
  PROVE  FileLedger' = FileLedger
<1>1. CASE \A c \in Captures : pc[c] # "write"
  <2>1. FileLedger = Parsed
    BY <1>1, LedgerIsFile
  <2>2. FileLedger' = Parsed'
    BY <1>1 DEF FileLedger, TypeOK
  <2> QED
    BY <2>1, <2>2
<1>2. ASSUME NEW c \in Captures, pc[c] = "write" PROVE FileLedger' = FileLedger
  <2>1. FileLedger = mem[c].old
    BY <1>2, LedgerIsOld
  <2>2. FileLedger' = mem'[c].old
    BY <1>2, NoOneAssumption DEF FileLedger, TypeOK, LockHeld, Locked
  <2> QED
    BY <1>2, <2>1, <2>2
<1> QED
  BY <1>1, <1>2

(* The ledger counts as the limiter does.                                    *)
LEMMA SameCardinality == ASSUME NEW S PROVE Ledger!Cardinality(S) = Cardinality(S)
BY DEF Ledger!Cardinality, Cardinality

(* The ledger computes with the same operators as the limiter.               *)
LEMMA SameOperators ==
  ASSUME NEW S, NEW st, NEW c
  PROVE  /\ Ledger!CheckedState(S, st, c) = CheckedState(S, st, c)
         /\ Ledger!CheckVerdict(S, st, c) = CheckVerdict(S, st, c)
         /\ Ledger!RefundedState(S, st, c) = RefundedState(S, st, c)
<1> DEFINE kept == Prune(S, st, st[c])
<1>1. Ledger!Prune(S, st, st[c]) = kept
  BY DEF Ledger!Prune, Prune
<1> HIDE DEF kept
<1>2. Ledger!Exhausted(kept, c) = Exhausted(kept, c)
  <2>1. Ledger!Recorded(kept, PodOf[c]) = Recorded(kept, PodOf[c])
    BY DEF Ledger!Recorded, Recorded
  <2> QED
    BY <2>1, SameCardinality DEF Ledger!Exhausted, Exhausted
<1>3. Ledger!Twins(S, st, c) = Twins(S, st, c)
  BY DEF Ledger!Twins, Twins
<1>4. Ledger!CheckedState(S, st, c) = CheckedState(S, st, c)
  BY <1>1, <1>2 DEF Ledger!CheckedState, CheckedState, kept
<1>5. Ledger!CheckVerdict(S, st, c) = CheckVerdict(S, st, c)
  BY <1>1, <1>2 DEF Ledger!CheckVerdict, CheckVerdict, kept
<1>6. Ledger!RefundedState(S, st, c) = RefundedState(S, st, c)
  BY <1>3 DEF Ledger!RefundedState, RefundedState
<1> QED
  BY <1>4, <1>5, <1>6

(* Every system call is a step of the ledger or leaves it alone: a check and a
   refund take effect with their write, and what fails or is killed inside the
   rewrite loses the ledger.                                                 *)
LEMMA RefinementStep ==
  ASSUME TypeOK, LockHeld, RefInv, TypeOK', LockHeld', [Next]_vars
  PROVE  LedgerStep
<1> USE DEF LedgerStep, Ledger!ledgerVars, Ledger!LedgerNext, Goto
<1>1. CASE UNCHANGED vars
  BY <1>1, SameLedger DEF vars, Parsed
<1>2. CASE Tick
  <2>1. FileLedger' = FileLedger
    BY <1>2, SameLedger DEF Tick, Parsed
  <2> QED
    BY <1>2, <2>1 DEF Tick, Ledger!Tick, Ledger!Pending, NoStamp, Ledger!NoStamp
<1>3. ASSUME NEW c \in Captures, Crash(c) PROVE LedgerStep
  <2>1. FileLedger' = FileLedger
    BY <1>3, SameLedger DEF Crash, Parsed, TypeOK
  <2>2. stamp[c] = NoStamp
    BY <1>3 DEF Crash, RefInv, Told
  <2> QED
    BY <1>3, <2>1, <2>2 DEF Crash, Ledger!Crash, NoStamp, Ledger!NoStamp
<1>4. ASSUME NEW c \in Captures, Unlimited(c) PROVE LedgerStep
  <2>1. FileLedger' = FileLedger
    BY <1>4, SameLedger DEF Unlimited, Parsed, TypeOK
  <2>2. CASE Checking(c)
    <3>1. c \in Ledger!Pending
      BY <1>4, <2>2 DEF Unlimited, Checking, RefInv, Told, Ledger!Pending, NoStamp, Ledger!NoStamp
    <3> QED
      BY <1>4, <2>1, <2>2, <3>1 DEF Unlimited, Checking, Ledger!CheckUnlimited, TypeOK
  <2>3. CASE ~Checking(c)
    <3>1. verdict' = verdict
      BY <1>4, <2>3 DEF Unlimited, Checking, TypeOK
    <3> QED
      BY <1>4, <2>1, <3>1 DEF Unlimited
  <2> QED
    BY <2>2, <2>3
<1>5. ASSUME NEW c \in Captures,
             OpenState(c) \/ LockState(c) \/ ReadAndUpdate(c) \/ UploadDone(c) \/ UploadFailed(c)
      PROVE  LedgerStep
  <2>1. CASE OpenState(c)
    BY <2>1, SameLedger DEF OpenState, Parsed, TypeOK
  <2>2. CASE LockState(c) \/ UploadDone(c) \/ UploadFailed(c)
    BY <2>2, SameLedger DEF LockState, UploadDone, UploadFailed, Parsed, TypeOK
  <2>3. CASE ReadAndUpdate(c)
    BY <2>3, SameLedger DEF ReadAndUpdate, Parsed, TypeOK
  <2> QED
    BY <1>5, <2>1, <2>2, <2>3
<1>6. ASSUME NEW c \in Captures, Truncate(c) PROVE LedgerStep
  <2>1. pc[c] = "truncate" /\ pc' = [pc EXCEPT ![c] = "write"] /\ mem' = mem
    BY <1>6 DEF Truncate
  <2>2. FileLedger = Parsed
    BY <2>1, LedgerIsFile DEF LockHeld, Locked
  <2>3. FileLedger' = mem'[c].old
    BY <2>1, NoOneAssumption DEF FileLedger, TypeOK, LockHeld, Locked
  <2>4. mem[c].old = Parsed
    BY <2>1 DEF RefInv, InMemory
  <2> QED
    BY <1>6, <2>1, <2>2, <2>3, <2>4 DEF Truncate
<1>7. ASSUME NEW c \in Captures, WriteBack(c) PROVE LedgerStep
  <2>1. /\ pc[c] = "write" /\ \A d \in Captures : pc'[d] # "write"
        /\ Parsed' = mem[c].new
    BY <1>7 DEF WriteBack, Parsed, TypeOK, LockHeld, Locked
  <2>2. FileLedger = mem[c].old
    BY <2>1, LedgerIsOld
  <2>3. FileLedger' = mem[c].new
    BY <2>1 DEF FileLedger, TypeOK
  <2>4. mem[c].new = Updated(mem[c].old, stamp, c)
    BY <2>1 DEF RefInv, InMemory
  <2>5. Told(c)
    BY DEF RefInv
  <2>6. CASE Checking(c)
    <3>1. c \in Ledger!Pending /\ Budget[c] # 0
      BY <2>1, <2>5, <2>6 DEF Checking, Told, Locked, Ledger!Pending, NoStamp, Ledger!NoStamp
    <3>2. /\ verdict' = [verdict EXCEPT ![c] = CheckVerdict(mem[c].old, stamp, c)]
          /\ UNCHANGED <<clock, stamp, refunded>>
      BY <1>7, <2>6 DEF WriteBack
    <3>3. mem[c].new = CheckedState(mem[c].old, stamp, c)
      BY <2>4, <2>6 DEF Updated
    <3>4. /\ Ledger!CheckedState(mem[c].old, stamp, c) = CheckedState(mem[c].old, stamp, c)
          /\ Ledger!CheckVerdict(mem[c].old, stamp, c) = CheckVerdict(mem[c].old, stamp, c)
      BY SameOperators
    <3>5. Ledger!Check(c)
      BY <2>2, <2>3, <3>1, <3>2, <3>3, <3>4 DEF Ledger!Check
    <3> QED
      BY <3>5
  <2>7. CASE ~Checking(c)
    <3>1. Budget[c] # 0 /\ verdict[c] \in {"allowed", "failopen"} /\ c \notin refunded
      BY <2>1, <2>5, <2>7 DEF Checking, Told, InState, Locked
    <3>2. refunded' = refunded \cup {c} /\ UNCHANGED <<clock, stamp, verdict>>
      BY <1>7, <2>7 DEF WriteBack
    <3>3. mem[c].new = RefundedState(mem[c].old, stamp, c)
      BY <2>4, <2>7 DEF Updated
    <3>4. Ledger!RefundedState(mem[c].old, stamp, c) = RefundedState(mem[c].old, stamp, c)
      BY SameOperators
    <3>5. Ledger!Refund(c)
      BY <2>2, <2>3, <3>1, <3>2, <3>3, <3>4 DEF Ledger!Refund
    <3> QED
      BY <3>5
  <2> QED
    BY <2>6, <2>7
<1>8. ASSUME NEW c \in Captures, IoError(c) \/ Kill(c) PROVE LedgerStep
  <2>1. /\ Unreliable /\ Parsed' = Parsed /\ UNCHANGED <<clock, stamp, refunded>>
        /\ pc[c] # "idle" /\ pc'[c] # "write"
        /\ \A d \in Captures \ {c} : pc'[d] = pc[d] /\ mem'[d] = mem[d]
        /\ IF Checking(c) THEN verdict' = [verdict EXCEPT ![c] = IF IoError(c) THEN "failopen" ELSE "dead"]
                          ELSE verdict' = verdict
        /\ IoError(c) => Budget[c] # 0
    <3>1. CASE IoError(c)
      BY <3>1 DEF IoError, Checking, Parsed, TypeOK, Locked
    <3>2. CASE Kill(c) /\ ~IoError(c)
      BY <3>2 DEF Kill, Checking, Parsed, TypeOK, Locked
    <3> QED
      BY <1>8, <3>1, <3>2
  <2>2. IF pc[c] = "write" THEN FileLedger' = {} /\ Budget[c] # 0 ELSE FileLedger' = FileLedger
    <3>1. CASE pc[c] = "write"
      <4>1. \A d \in Captures : pc'[d] # "write"
        BY <2>1, <3>1 DEF LockHeld, Locked
      <4>2. FileLedger' = Parsed'
        BY <4>1 DEF FileLedger, TypeOK
      <4>3. Parsed = {} /\ Budget[c] # 0
        BY <3>1 DEF RefInv, InMemory, Told, Locked
      <4> QED
        BY <2>1, <3>1, <4>2, <4>3
    <3>2. CASE pc[c] # "write"
      BY <2>1, <3>2, SameLedger
    <3> QED
      BY <3>1, <3>2
  <2>3. stamp[c] # NoStamp
    BY <2>1 DEF RefInv, Told
  <2>4. CASE Checking(c)
    <3>1. c \in Ledger!Pending
      BY <2>3, <2>4 DEF Checking, Ledger!Pending, NoStamp, Ledger!NoStamp
    <3>2. CASE IoError(c)
      <4>1. Ledger!FailOpen(c)
        BY <2>1, <2>2, <2>4, <3>1, <3>2 DEF Ledger!FailOpen
      <4> QED
        BY <4>1
    <3>3. CASE ~IoError(c)
      <4>1. Ledger!Die(c)
        BY <2>1, <2>2, <2>4, <3>1, <3>3 DEF Ledger!Die
      <4> QED
        BY <4>1
    <3> QED
      BY <3>2, <3>3
  <2>5. CASE ~Checking(c)
    BY <2>1, <2>2, <2>5 DEF Ledger!Lose
  <2> QED
    BY <2>4, <2>5
<1> QED
  BY <1>1, <1>2, <1>3, <1>4, <1>5, <1>6, <1>7, <1>8 DEF Next, Step

(* The flock-protected rewrite of recent.json implements the atomic ledger, for
   any number of handlers, budgets and pods, with and without faults.        *)
THEOREM LimiterRefinesLedger == Spec => ImplementsLedger
<1>1. Init => Ledger!LedgerInit
  BY NoOneAssumption DEF Init, Ledger!LedgerInit, FileLedger, Parsed, NoStamp, Ledger!NoStamp
<1>2. TypeOK /\ LockHeld /\ RefInv /\ TypeOK' /\ LockHeld' /\ [Next]_vars
        => [Ledger!LedgerNext]_(Ledger!ledgerVars)
  BY RefinementStep DEF LedgerStep
<1> QED
  BY <1>1, <1>2, RefInvariant, PTL DEF Spec, ImplementsLedger, Ledger!LedgerSpec

----------------------------------------------------------------------------
\* What is proved of the ledger, of the file.
Proved == INSTANCE LedgerProofs WITH ledger <- FileLedger

(* So does the ledger of the theorems.                                       *)
LEMMA ProvedCardinality == ASSUME NEW S PROVE Proved!Cardinality(S) = Cardinality(S)
BY DEF Proved!Cardinality, Cardinality

(* And it computes with the same operators.                                  *)
LEMMA ProvedOperators ==
  ASSUME NEW S, NEW st, NEW c
  PROVE  /\ Proved!CheckedState(S, st, c) = CheckedState(S, st, c)
         /\ Proved!CheckVerdict(S, st, c) = CheckVerdict(S, st, c)
         /\ Proved!RefundedState(S, st, c) = RefundedState(S, st, c)
<1> DEFINE kept == Prune(S, st, st[c])
<1>1. Proved!Prune(S, st, st[c]) = kept
  BY DEF Proved!Prune, Prune
<1> HIDE DEF kept
<1>2. Proved!Exhausted(kept, c) = Exhausted(kept, c)
  <2>1. Proved!Recorded(kept, PodOf[c]) = Recorded(kept, PodOf[c])
    BY DEF Proved!Recorded, Recorded
  <2> QED
    BY <2>1, ProvedCardinality DEF Proved!Exhausted, Exhausted
<1>3. Proved!Twins(S, st, c) = Twins(S, st, c)
  BY DEF Proved!Twins, Twins
<1>4. Proved!CheckedState(S, st, c) = CheckedState(S, st, c)
  BY <1>1, <1>2 DEF Proved!CheckedState, CheckedState, kept
<1>5. Proved!CheckVerdict(S, st, c) = CheckVerdict(S, st, c)
  BY <1>1, <1>2 DEF Proved!CheckVerdict, CheckVerdict, kept
<1>6. Proved!RefundedState(S, st, c) = RefundedState(S, st, c)
  BY <1>3 DEF Proved!RefundedState, RefundedState
<1> QED
  BY <1>4, <1>5, <1>6

(* The ledger the theorems are about is the one the limiter implements.      *)
LEMMA SameSpec ==
  /\ Ledger!LedgerInit => Proved!LedgerInit
  /\ [Ledger!LedgerNext]_(Ledger!ledgerVars) => [Proved!LedgerNext]_(Proved!ledgerVars)
<1>1. Ledger!LedgerInit => Proved!LedgerInit
  BY DEF Ledger!LedgerInit, Proved!LedgerInit, Ledger!NoStamp, Proved!NoStamp
<1>2. Ledger!Pending = Proved!Pending /\ Ledger!ledgerVars = Proved!ledgerVars
  BY DEF Ledger!Pending, Proved!Pending, Ledger!NoStamp, Proved!NoStamp,
         Ledger!ledgerVars, Proved!ledgerVars
<1>3. ASSUME NEW c \in Captures
      PROVE  /\ Ledger!CheckedState(FileLedger, stamp, c) = Proved!CheckedState(FileLedger, stamp, c)
             /\ Ledger!CheckVerdict(FileLedger, stamp, c) = Proved!CheckVerdict(FileLedger, stamp, c)
             /\ Ledger!RefundedState(FileLedger, stamp, c) = Proved!RefundedState(FileLedger, stamp, c)
  BY SameOperators, ProvedOperators
<1>4. ASSUME NEW c \in Captures
      PROVE  /\ Ledger!Crash(c) => Proved!Crash(c)
             /\ Ledger!Unasked(c) => Proved!Unasked(c)
             /\ Ledger!CheckUnlimited(c) => Proved!CheckUnlimited(c)
             /\ Ledger!FailOpen(c) => Proved!FailOpen(c)
             /\ Ledger!Die(c) => Proved!Die(c)
  BY <1>2 DEF Ledger!Crash, Proved!Crash, Ledger!Unasked, Proved!Unasked,
     Ledger!CheckUnlimited, Proved!CheckUnlimited, Ledger!FailOpen, Proved!FailOpen,
     Ledger!Die, Proved!Die, Ledger!NoStamp, Proved!NoStamp
<1>5. ASSUME NEW c \in Captures
      PROVE  /\ Ledger!Check(c) => Proved!Check(c)
             /\ Ledger!Refund(c) => Proved!Refund(c)
  BY <1>2, <1>3 DEF Ledger!Check, Proved!Check, Ledger!Refund, Proved!Refund
<1>6. (Ledger!Tick => Proved!Tick) /\ (Ledger!Lose => Proved!Lose)
  BY <1>2 DEF Ledger!Tick, Proved!Tick, Ledger!Lose, Proved!Lose
<1>7. Ledger!LedgerNext => Proved!LedgerNext
  BY <1>4, <1>5, <1>6 DEF Ledger!LedgerNext, Proved!LedgerNext
<1> QED
  BY <1>1, <1>2, <1>7 DEF Ledger!ledgerVars, Proved!ledgerVars

(* The file is a ledger the theorems hold of.                                *)
LEMMA FileIsLedger == Spec => Proved!LedgerSpec
BY LimiterRefinesLedger, SameSpec, PTL DEF ImplementsLedger, Ledger!LedgerSpec, Proved!LedgerSpec

(* What the ledger's theorems assume of the constants is what RateLimiter does. *)
LEMMA SameAssumptions ==
  /\ Proved!IsFiniteSet(Captures)
  /\ MaxBudget \in Nat /\ Budget \in [Captures -> 0..MaxBudget] /\ Window \in Nat \ {0}
  /\ MaxClock \in Nat /\ MaxLag \in Nat
  /\ Unreliable \in BOOLEAN
<1>1. Proved!IsFiniteSet(Captures)
  BY CapturesAssumption DEF Proved!IsFiniteSet, IsFiniteSet
<1> QED
  BY <1>1, BudgetAssumption, ClockAssumption, FaultAssumption

(* check_and_record suppresses only with cause: as many uploads of the pod as the
   capture's budget were let through in its window, with and without faults.  *)
THEOREM SuppressionHasCause == Spec => []SuppressedJustified
<1>1. Proved!SuppressedJustified => SuppressedJustified
  BY SameCardinality, ProvedCardinality
  DEF SuppressedJustified, Ledger!SuppressedJustified, Proved!SuppressedJustified
<1>2. Proved!LedgerSpec => []Proved!SuppressedJustified
  BY SameAssumptions, Proved!LedgerSuppressesWithCause, PTL
<1> QED
  BY <1>1, <1>2, FileIsLedger, PTL

(* check_and_record, while state IO works: in any stretch of Window - MaxLag a pod
   keeps at most MaxBudget uploads, whatever order its handlers come in.      *)
THEOREM WindowBudgetHolds == Spec => [](~Unreliable => WindowBudget)
<1>1. Proved!WindowBudget => WindowBudget
  BY SameCardinality, ProvedCardinality
  DEF WindowBudget, Ledger!WindowBudget, Proved!WindowBudget, Ledger!Kept, Proved!Kept
<1>2. Proved!LedgerSpec => [](~Unreliable => Proved!WindowBudget)
  BY SameAssumptions, Proved!LedgerKeepsBudget, PTL
<1> QED
  BY <1>1, <1>2, FileIsLedger, PTL
=============================================================================
