---------------------------- MODULE RateLimiter -----------------------------
(***************************************************************************)
(* src/src/ratelimit.rs at the level of its system calls: concurrent       *)
(* handler processes share recent.json under an exclusive flock, and each  *)
(* may fail at any call or be killed between two of them.                  *)
(***************************************************************************)
EXTENDS RateBudget

CONSTANTS MaxClock, MaxLag, Unreliable,  \* as in BudgetLedger
          NoOne                          \* holder of a free lock

ASSUME ClockAssumption == MaxClock \in Nat /\ MaxLag \in Nat
ASSUME FaultAssumption == Unreliable \in BOOLEAN
ASSUME NoOneAssumption == NoOne \notin Captures

VARIABLES clock, stamp, verdict, refunded,  \* as in BudgetLedger
          pc,    \* where each handler is
          file,  \* recent.json: its status and, when it parses, its records
          lock,  \* holder of the flock, NoOne when free
          mem    \* what a handler read under the lock, and its update

vars == <<clock, stamp, verdict, refunded, pc, file, lock, mem>>

NoStamp == -1
Blank   == [old |-> {}, new |-> {}]

\* Control points of with_locked_state and of the capture around it.
Locked  == {"read", "truncate", "write"}
Control == {"idle", "open", "lock", "upload", "done", "dead"} \cup Locked

\* serde_json::from_slice(..).unwrap_or_default(): "empty" stands for a file
\* just created or cut short, which does not parse.
Parsed == IF file.status = "ok" THEN file.records ELSE {}

\* A handler that has its answer and is back in with_locked_state refunds.
Checking(c) == verdict[c] = "none"

Goto(c, label) == pc' = [pc EXCEPT ![c] = label]

Init ==
  /\ clock = 0
  /\ stamp = [c \in Captures |-> NoStamp]
  /\ verdict = [c \in Captures |-> "none"]
  /\ refunded = {}
  /\ pc = [c \in Captures |-> "idle"]
  /\ file = [status |-> "missing", records |-> {}]
  /\ lock = NoOne
  /\ mem = [c \in Captures |-> Blank]

Tick ==
  /\ clock < MaxClock
  /\ \A c \in Captures : stamp[c] # NoStamp /\ verdict[c] = "none"
                           => clock + 1 - stamp[c] <= MaxLag
  /\ clock' = clock + 1
  /\ UNCHANGED <<stamp, verdict, refunded, pc, file, lock, mem>>

CrashAtCutoff(c) ==  \* plausible bug: the cutoff is recorded for the time
  /\ pc[c] = "idle"
  /\ stamp' = [stamp EXCEPT ![c] = clock - Window]
  /\ Goto(c, "open")
  /\ UNCHANGED <<clock, verdict, refunded, file, lock, mem>>

\* The kernel starts a handler; %t is the time of the crash.
Crash(c) ==
  /\ pc[c] = "idle"
  /\ stamp' = [stamp EXCEPT ![c] = clock]
  /\ Goto(c, "open")
  /\ UNCHANGED <<clock, verdict, refunded, file, lock, mem>>

----------------------------------------------------------------------------
\* Plausible bugs.
LockStateWithoutFlock(c) ==   \* the flock call is dropped
  /\ pc[c] = "lock"
  /\ lock' = c
  /\ Goto(c, "read")
  /\ UNCHANGED <<clock, stamp, verdict, refunded, file, mem>>

KillKeepsLock(c) ==           \* a lock file instead of a kernel lock
  /\ Unreliable
  /\ pc[c] \notin {"idle", "done", "dead"}
  /\ verdict' = [verdict EXCEPT ![c] = IF @ = "none" THEN "dead" ELSE @]
  /\ Goto(c, "dead")
  /\ UNCHANGED <<clock, stamp, refunded, file, lock, mem>>

UnlimitedSuppresses(c) ==     \* 0 read as a budget of zero
  /\ Budget[c] = 0
  /\ pc[c] = "open"
  /\ verdict' = [verdict EXCEPT ![c] = IF @ = "none" THEN "suppressed" ELSE @]
  /\ Goto(c, "done")
  /\ UNCHANGED <<clock, stamp, refunded, file, lock, mem>>

----------------------------------------------------------------------------
\* check_and_record and refund return at once when the budget is 0.
Unlimited(c) ==
  /\ Budget[c] = 0
  /\ pc[c] = "open"
  /\ verdict' = [verdict EXCEPT ![c] = IF @ = "none" THEN "allowed" ELSE @]
  /\ Goto(c, IF Checking(c) THEN "upload" ELSE "done")
  /\ UNCHANGED <<clock, stamp, refunded, file, lock, mem>>

\* ensure_private_dir, open and chmod.  A check creates the file; a refund of
\* a missing file is an error, which refund swallows.
OpenState(c) ==
  /\ Budget[c] # 0
  /\ pc[c] = "open"
  /\ IF file.status = "missing" /\ ~Checking(c)
     THEN Goto(c, "done") /\ UNCHANGED file
     ELSE /\ Goto(c, "lock")
          /\ file' = IF file.status = "missing" THEN [file EXCEPT !.status = "empty"] ELSE file
  /\ UNCHANGED <<clock, stamp, verdict, refunded, lock, mem>>

\* flock(LOCK_EX) blocks until no one holds the lock.
LockState(c) ==
  /\ pc[c] = "lock"
  /\ lock = NoOne
  /\ lock' = c
  /\ Goto(c, "read")
  /\ UNCHANGED <<clock, stamp, verdict, refunded, file, mem>>

\* read_to_end, parse or default, and the caller's update, all in memory.
ReadAndUpdate(c) ==
  /\ pc[c] = "read"
  /\ mem' = [mem EXCEPT ![c] =
       [old |-> Parsed,
        new |-> IF Checking(c) THEN CheckedState(Parsed, stamp, c)
                               ELSE RefundedState(Parsed, stamp, c)]]
  /\ Goto(c, "truncate")
  /\ UNCHANGED <<clock, stamp, verdict, refunded, file, lock>>

\* seek(0) and set_len(0): from here until the write the file is empty.
Truncate(c) ==
  /\ pc[c] = "truncate"
  /\ file' = [status |-> "empty", records |-> {}]
  /\ Goto(c, "write")
  /\ UNCHANGED <<clock, stamp, verdict, refunded, lock, mem>>

\* write_all, close (which releases the flock), return of the decision.
WriteBack(c) ==
  /\ pc[c] = "write"
  /\ file' = [status |-> "ok", records |-> mem[c].new]
  /\ lock' = NoOne
  /\ mem' = [mem EXCEPT ![c] = Blank]
  /\ IF Checking(c)
     THEN /\ verdict' = [verdict EXCEPT ![c] = CheckVerdict(mem[c].old, stamp, c)]
          /\ Goto(c, IF CheckVerdict(mem[c].old, stamp, c) = "allowed" THEN "upload" ELSE "done")
          /\ UNCHANGED refunded
     ELSE /\ refunded' = refunded \cup {c}
          /\ Goto(c, "done")
          /\ UNCHANGED verdict
  /\ UNCHANGED <<clock, stamp>>

Release(c) == lock' = IF lock = c THEN NoOne ELSE lock

\* Any call of with_locked_state fails: `?` closes the file.  The check lets
\* the capture through, the refund gives up.  A failed write leaves the file
\* cut short.
IoError(c) ==
  /\ Unreliable
  /\ Budget[c] # 0
  /\ pc[c] \in {"open", "lock"} \cup Locked
  /\ Release(c)
  /\ mem' = [mem EXCEPT ![c] = Blank]
  /\ verdict' = [verdict EXCEPT ![c] = IF @ = "none" THEN "failopen" ELSE @]
  /\ Goto(c, IF Checking(c) THEN "upload" ELSE "done")
  /\ UNCHANGED <<clock, stamp, refunded, file>>

\* SIGKILL, OOM: the kernel closes the file and with it releases the flock.
Kill(c) ==
  /\ Unreliable
  /\ pc[c] \notin {"idle", "done", "dead"}
  /\ Release(c)
  /\ mem' = [mem EXCEPT ![c] = Blank]
  /\ verdict' = [verdict EXCEPT ![c] = IF @ = "none" THEN "dead" ELSE @]
  /\ Goto(c, "dead")
  /\ UNCHANGED <<clock, stamp, refunded, file>>

\* What the handler does with the answer: keep the core, or fail to store it
\* and give the slot back.
UploadDone(c) ==
  /\ pc[c] = "upload"
  /\ Goto(c, "done")
  /\ UNCHANGED <<clock, stamp, verdict, refunded, file, lock, mem>>

UploadFailed(c) ==
  /\ pc[c] = "upload"
  /\ Goto(c, "open")
  /\ UNCHANGED <<clock, stamp, verdict, refunded, file, lock, mem>>

Step(c) ==
  \/ Unlimited(c) \/ OpenState(c) \/ LockState(c)
  \/ ReadAndUpdate(c) \/ Truncate(c) \/ WriteBack(c)

Next ==
  \/ Tick
  \/ \E c \in Captures :
       \/ Crash(c) \/ Step(c)
       \/ UploadDone(c) \/ UploadFailed(c)
       \/ IoError(c) \/ Kill(c)

Spec == Init /\ [][Next]_vars

\* A started handler keeps running; crashes, upload results, errors and kills
\* are the environment's.
FairSpec == Spec /\ \A c \in Captures : WF_vars(Step(c))

----------------------------------------------------------------------------
TypeOK ==
  /\ clock \in Nat
  /\ stamp \in [Captures -> Nat \cup {NoStamp}]
  /\ verdict \in [Captures -> {"none", "allowed", "failopen", "suppressed", "dead"}]
  /\ refunded \in SUBSET Captures
  /\ pc \in [Captures -> Control]
  /\ file \in [status : {"missing", "empty", "ok"}, records : SUBSET Captures]
  /\ lock \in Captures \cup {NoOne}
  /\ mem \in [Captures -> [old : SUBSET Captures, new : SUBSET Captures]]

(* with_locked_state: between its read and the end of its rewrite a handler is
   alone, however many crash at once and however they die.                  *)
MutualExclusion ==
  \A c, d \in Captures : pc[c] \in Locked /\ pc[d] \in Locked => c = d

\* Strengthens MutualExclusion: a handler in the locked section is the holder.
LockHeld == \A c \in Captures : pc[c] \in Locked => lock = c

(* The budget as the file holds it: never more than MaxBudget entries of one
   pod, and never in what a handler is about to write back.                 *)
BudgetHeld ==
  /\ WithinBudget(Parsed)
  /\ \A c \in Captures : WithinBudget(mem[c].new)

\* The ledger the file stands for: while the lock holder has the file cut
\* short, what it read; otherwise what a reader would parse.
FileLedger ==
  IF lock # NoOne /\ pc[lock] = "write" THEN mem[lock].old ELSE Parsed

Ledger == INSTANCE BudgetLedger WITH ledger <- FileLedger

(* The locked read-modify-rewrite of recent.json behaves as one atomic step on
   a ledger: a decision takes effect when its write completes, and the only
   loss is a rewrite that fails or whose process is killed.                 *)
ImplementsLedger == Ledger!LedgerSpec

(* WindowBudget and SuppressedJustified of BudgetLedger, of the file.       *)
WindowBudget        == Ledger!WindowBudget
SuppressedJustified == Ledger!SuppressedJustified

(* No handler waits for ever in with_locked_state: whoever holds the flock
   lets it go, also by dying.                                               *)
Answered ==
  \A c \in Captures : pc[c] = "open" ~> pc[c] \in {"upload", "done", "dead"}
=============================================================================
