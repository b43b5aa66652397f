--------------------------- MODULE CaptureHandler ---------------------------
(***************************************************************************)
(* handler::run (src/src/handler.rs) for any number of crashes at once.    *)
(* Each capture is a process the kernel starts: it decides whether it may  *)
(* upload, drains the core, stores proc snapshot and manifest, and reports.*)
(* Every call to the store may fail, also after it took effect, and every  *)
(* process may be killed between two calls or in one.                      *)
(*                                                                         *)
(* The rate limiter is the atomic BudgetLedger that RateLimiter implements *)
(* and the drain the DrainContract that CoreDrain keeps.                   *)
(***************************************************************************)
EXTENDS BudgetLedger, DrainContract

CONSTANTS PipeLimit,    \* core_pipe_limit: crashes the kernel pipes at once
          HasDeadline,  \* whether upload_deadline_secs is non-zero
          HasTimeout,   \* whether crictl_timeout_secs is non-zero
          PutsFail,     \* whether a single-object PUT may fail
          Kills,        \* whether handlers may be killed
          LateComplete, \* whether a core upload reported failed, or cut off by
                        \* a kill, may have completed
          NoManifest, NoEvent

ASSUME CaptureAssumption ==
  /\ PipeLimit \in Nat \ {0}
  /\ {HasDeadline, HasTimeout, PutsFail, Kills, LateComplete} \subseteq BOOLEAN

VARIABLES pc,      \* the stage each capture is in
          local,   \* what run() has in its variables
          bucket,  \* what the store holds under the capture's keys
          event    \* the payload handed to the events socket

captureVars == <<pc, local, bucket, event>>
vars == <<ledgerVars, captureVars>>

Stages  == {"limit", "drain", "refund", "failed", "snapshot", "crictl", "manifest", "report"}
Running == {c \in Captures : pc[c] \in Stages}

\* k8s: the cgroup gave an identity; store: an object store could be built;
\* uploaded: stats.sha256 is Some; snapRef, manifestRef: the PUT succeeded;
\* named: crictl resolved namespace and pod.
Locals == [k8s : BOOLEAN, store : BOOLEAN, uploaded : BOOLEAN,
           snapRef : BOOLEAN, named : BOOLEAN, manifestRef : BOOLEAN]
Manifests == [present : BOOLEAN, proc : BOOLEAN, skipped : BOOLEAN, named : BOOLEAN]
ASSUME NoManifestAssumption == NoManifest \notin Manifests
Outcomes  == {"uploaded", "suppressed", "non-k8s", "no-store", "failed"}
Events    == [outcome : Outcomes, k8s : BOOLEAN, named : BOOLEAN, manifest : BOOLEAN]

Goto(c, label) == pc' = [pc EXCEPT ![c] = label]

\* Identity and store both resolved: the only case where anything uploads.
Target(c) == local[c].k8s /\ local[c].store

RateRecorded(c)   == verdict[c] \in {"allowed", "failopen"}
RateSuppressed(c) == verdict[c] = "suppressed"

BackendIgnoresLimit(c) == IF Target(c) THEN "standalone" ELSE "discard"  \* plausible bug
Backend(c) == IF Target(c) /\ ~RateSuppressed(c) THEN "standalone" ELSE "discard"

Init ==
  /\ LedgerInit
  /\ pc = [c \in Captures |-> "idle"]
  /\ local = [c \in Captures |->
       [k8s |-> FALSE, store |-> FALSE, uploaded |-> FALSE,
        snapRef |-> FALSE, named |-> FALSE, manifestRef |-> FALSE]]
  /\ bucket = [c \in Captures |-> [core |-> "none", snap |-> FALSE, manifest |-> NoManifest]]
  /\ event = [c \in Captures |-> NoEvent]

TimePasses == Tick /\ UNCHANGED captureVars

----------------------------------------------------------------------------
\* The kernel execs the handler, which parses its arguments, reads the config
\* (defaults, with no store, when it is unreadable), snapshots /proc and
\* resolves the cgroup identity and the store.
Exec(c) ==
  /\ pc[c] = "idle"
  /\ Cardinality(Running) < PipeLimit
  /\ Crash(c)
  /\ Goto(c, "limit")
  /\ \E k8s, store \in BOOLEAN :
       local' = [local EXCEPT ![c].k8s = k8s, ![c].store = store]
  /\ UNCHANGED <<bucket, event>>

\* Over core_pipe_limit the kernel skips the dump and starts nothing.
ExecRefused(c) ==
  /\ pc[c] = "idle"
  /\ Cardinality(Running) >= PipeLimit
  /\ Goto(c, "refused")
  /\ UNCHANGED <<ledgerVars, local, bucket, event>>

\* The rate limit is consulted only when a core would upload.
Limit(c) ==
  /\ pc[c] = "limit"
  /\ IF Target(c) THEN Check(c) \/ CheckUnlimited(c) \/ FailOpen(c) ELSE Unasked(c)
  /\ Goto(c, "drain")
  /\ UNCHANGED <<local, bucket, event>>

\* backend.drain_core: an upload under way shows in the store ...
DrainProgress(c) ==
  /\ pc[c] = "drain"
  /\ bucket[c].core = "none"
  /\ <<"running", "parts">> \in DrainStep(Backend(c), "none")
  /\ bucket' = [bucket EXCEPT ![c].core = "parts"]
  /\ UNCHANGED <<ledgerVars, pc, local, event>>

\* ... and ends, with statistics or an error.
DrainOk(c) ==
  /\ pc[c] = "drain"
  /\ \E obj \in ObjectState :
       /\ <<"ok", obj>> \in DrainStep(Backend(c), bucket[c].core)
       /\ bucket' = [bucket EXCEPT ![c].core = obj]
  /\ local' = [local EXCEPT ![c].uploaded = (Backend(c) = "standalone")]
  /\ Goto(c, "snapshot")
  /\ UNCHANGED <<ledgerVars, event>>

DrainErrTo(c, label) ==
  /\ pc[c] = "drain"
  /\ HasDeadline \/ Backend(c) = "standalone"
  /\ \E obj \in ObjectState :
       /\ <<"err", obj>> \in DrainStep(Backend(c), bucket[c].core)
       /\ obj = "complete" => LateComplete
       /\ bucket' = [bucket EXCEPT ![c].core = obj]
  /\ Goto(c, label)
  /\ UNCHANGED <<ledgerVars, local, event>>

\* Plausible bugs: the error path forgets the refund, or returns unreported.
DrainErrNoRefund(c) == DrainErrTo(c, "failed")
DrainErrSilently(c) == DrainErrTo(c, "exit err")

DrainErr(c) == DrainErrTo(c, IF RateRecorded(c) THEN "refund" ELSE "failed")

\* limiter.refund; with a budget of 0 it does nothing, and its errors are swallowed.
RefundSlot(c) ==
  /\ pc[c] = "refund"
  /\ \/ Refund(c)
     \/ Budget[c] = 0 /\ UNCHANGED ledgerVars
     \/ Budget[c] # 0 /\ Unreliable /\ (Lose \/ UNCHANGED ledgerVars)
  /\ Goto(c, "failed")
  /\ UNCHANGED <<local, bucket, event>>

\* The error path reports before crictl ran, and run returns Err.
ReportFailed(c) ==
  /\ pc[c] = "failed"
  /\ event' = [event EXCEPT ![c] = [outcome |-> "failed", k8s |-> local[c].k8s,
                                    named |-> FALSE, manifest |-> FALSE]]
  /\ Goto(c, "exit err")
  /\ UNCHANGED <<ledgerVars, local, bucket>>

----------------------------------------------------------------------------
\* upload::put_object: <<result, object now there>> for an object there or not.
PutResults(there) ==
  {<<TRUE, TRUE>>} \cup (IF PutsFail THEN {<<FALSE, there>>, <<FALSE, TRUE>>} ELSE {})

\* Plausible bug: the reference is kept when the PUT fails.
PutSnapshotAlwaysRef(c) ==
  /\ pc[c] = "snapshot"
  /\ IF Target(c)
     THEN \E put \in PutResults(bucket[c].snap) :
            /\ local' = [local EXCEPT ![c].snapRef = TRUE]
            /\ bucket' = [bucket EXCEPT ![c].snap = put[2]]
     ELSE UNCHANGED <<local, bucket>>
  /\ Goto(c, "crictl")
  /\ UNCHANGED <<ledgerVars, event>>

\* Tar rendering and PUT of the proc snapshot; a failure omits the reference.
PutSnapshot(c) ==
  /\ pc[c] = "snapshot"
  /\ IF Target(c)
     THEN \E put \in PutResults(bucket[c].snap) :
            /\ local' = [local EXCEPT ![c].snapRef = put[1]]
            /\ bucket' = [bucket EXCEPT ![c].snap = put[2]]
     ELSE UNCHANGED <<local, bucket>>
  /\ Goto(c, "crictl")
  /\ UNCHANGED <<ledgerVars, event>>

CrictlTo(c, named) ==
  /\ pc[c] = "crictl"
  /\ local' = [local EXCEPT ![c].named = named]
  /\ Goto(c, "manifest")
  /\ UNCHANGED <<ledgerVars, bucket, event>>

\* crictl::inspect of a known container resolves its names, or fails, when and
\* if crictl answers; without an identity it is not run.
Inspect(c) ==
  /\ local[c].k8s
  /\ \E named \in BOOLEAN : CrictlTo(c, named)

NoInspect(c) == ~local[c].k8s /\ CrictlTo(c, FALSE)

\* run_command gives up on a hung crictl, and the names are left out.
InspectTimeout(c) == local[c].k8s /\ HasTimeout /\ CrictlTo(c, FALSE)

ManifestOf(c) ==
  [present |-> local[c].uploaded, proc |-> local[c].snapRef,
   skipped |-> RateSuppressed(c), named |-> local[c].named]

\* The manifest is written last; a failed PUT is only logged.
PutManifest(c) ==
  /\ pc[c] = "manifest"
  /\ IF Target(c)
     THEN \E put \in PutResults(FALSE) :
            /\ local' = [local EXCEPT ![c].manifestRef = put[1]]
            /\ bucket' = [bucket EXCEPT ![c].manifest = IF put[2] THEN ManifestOf(c) ELSE @]
     ELSE UNCHANGED <<local, bucket>>
  /\ Goto(c, "report")
  /\ UNCHANGED <<ledgerVars, event>>

OutcomeOf(c) ==
  CASE ~local[c].k8s                                             -> "non-k8s"
    [] local[c].k8s /\ RateSuppressed(c)                         -> "suppressed"
    [] local[c].k8s /\ ~RateSuppressed(c) /\ ~local[c].store     -> "no-store"
    [] Target(c) /\ ~RateSuppressed(c) /\ local[c].uploaded      -> "uploaded"
    [] OTHER                                                     -> "failed"

ReportKeyAlways(c) ==  \* plausible bug: the key is reported unconditionally
  /\ pc[c] = "report"
  /\ event' = [event EXCEPT ![c] = [outcome |-> OutcomeOf(c), k8s |-> local[c].k8s,
                                    named |-> local[c].named, manifest |-> Target(c)]]
  /\ Goto(c, "exit ok")
  /\ UNCHANGED <<ledgerVars, local, bucket>>

Report(c) ==
  /\ pc[c] = "report"
  /\ event' = [event EXCEPT ![c] = [outcome |-> OutcomeOf(c), k8s |-> local[c].k8s,
                                    named |-> local[c].named, manifest |-> local[c].manifestRef]]
  /\ Goto(c, "exit ok")
  /\ UNCHANGED <<ledgerVars, local, bucket>>

----------------------------------------------------------------------------
\* A kill in the middle of a call to the store may leave its effect behind.
CutOff(c) ==
  CASE pc[c] = "drain" /\ Backend(c) = "standalone" /\ LateComplete ->
         {bucket[c], [bucket[c] EXCEPT !.core = "complete"]}
    [] pc[c] = "snapshot" /\ Target(c) -> {bucket[c], [bucket[c] EXCEPT !.snap = TRUE]}
    [] pc[c] = "manifest" /\ Target(c) -> {bucket[c], [bucket[c] EXCEPT !.manifest = ManifestOf(c)]}
    [] OTHER -> {bucket[c]}

\* SIGKILL or OOM at any stage; in the limiter it may cost the ledger.
Kill(c) ==
  /\ Kills
  /\ c \in Running
  /\ CASE pc[c] = "limit"  -> Die(c) /\ (~Target(c) => UNCHANGED ledger)
       [] pc[c] = "refund" -> UNCHANGED ledgerVars \/ (Budget[c] # 0 /\ Lose)
       [] OTHER            -> UNCHANGED ledgerVars
  /\ \E left \in CutOff(c) : bucket' = [bucket EXCEPT ![c] = left]
  /\ Goto(c, "dead")
  /\ UNCHANGED <<local, event>>

DrainEnd(c) == DrainOk(c) \/ DrainErr(c)

Step(c) ==
  \/ Limit(c) \/ RefundSlot(c) \/ ReportFailed(c)
  \/ PutSnapshot(c) \/ NoInspect(c) \/ InspectTimeout(c) \/ PutManifest(c) \/ Report(c)

Next ==
  \/ TimePasses
  \/ \E c \in Captures :
       \/ Exec(c) \/ ExecRefused(c) \/ DrainProgress(c) \/ DrainEnd(c)
       \/ Inspect(c) \/ Step(c) \/ Kill(c)

Spec == Init /\ [][Next]_vars

\* A started handler runs, and its PUTs return within the store client's retry
\* policy.  Only a deadline bounds the drain, and only a timeout crictl.
FairSpec ==
  /\ Spec
  /\ \A c \in Captures : WF_vars(Step(c)) /\ (HasDeadline => WF_vars(DrainEnd(c)))
----------------------------------------------------------------------------
TypeOK ==
  /\ pc \in [Captures -> Stages \cup {"idle", "refused", "dead", "exit ok", "exit err"}]
  /\ local \in [Captures -> Locals]
  /\ bucket \in [Captures -> [core : ObjectState, snap : BOOLEAN,
                              manifest : Manifests \cup {NoManifest}]]
  /\ event \in [Captures -> Events \cup {NoEvent}]

(* manifest.rs, blob-first write order: whatever fails or is killed, a manifest
   in the store points at a complete core, or says why there is none and there
   is none, and the snapshot it points at exists.                            *)
ManifestTruthful ==
  \A c \in Captures : bucket[c].manifest # NoManifest =>
    /\ IF bucket[c].manifest.present THEN bucket[c].core = "complete"
                                     ELSE bucket[c].manifest.skipped /\ bucket[c].core = "none"
    /\ bucket[c].manifest.proc => bucket[c].snap

(* handler::run, report: the outcome and the manifest key a capture reports are
   true of the store, and "failed" is reported exactly by the captures that
   exit with an error, which never leave a manifest.                         *)
EventTruthful ==
  \A c \in Captures : event[c] # NoEvent =>
    /\ event[c].outcome = "failed" <=> pc[c] = "exit err"
    /\ event[c].outcome = "failed" => bucket[c].manifest = NoManifest
    /\ event[c].outcome = "uploaded" => bucket[c].core = "complete"
    /\ event[c].manifest => /\ bucket[c].manifest # NoManifest
                            /\ bucket[c].manifest.present <=> event[c].outcome = "uploaded"

Stored == {c \in Captures : bucket[c].core = "complete"}

(* --max-cores-per-hour, end to end: while the state file works and an upload
   reported failed did not complete, the store never holds more than MaxBudget
   cores of a pod from one stretch of Window - MaxLag seconds, handlers killed
   at any other point included.                                              *)
CoresWithinBudget ==
  LET Limited == {c \in Stored : Budget[c] # 0} IN
  \A c \in Limited :
    Cardinality({g \in Limited : /\ PodOf[g] = PodOf[c]
                                 /\ stamp[g] <= stamp[c]
                                 /\ stamp[g] > stamp[c] - (Window - MaxLag)}) <= MaxBudget

(* handler::run, the refund: while the state file works, a finished capture
   that still holds a slot of its pod's budget has its core in the store, so a
   store outage uses up no budget.                                           *)
SlotOnlyIfStored ==
  \A c \in ledger : pc[c] \in {"exit ok", "exit err"} => c \in Stored

(* README.md: the handler reports every capture to the daemon, on the error
   path too; a deadline of the drain and a timeout of crictl are enough.     *)
EveryCaptureReported ==
  \A c \in Captures : c \in Running ~> event[c] # NoEvent \/ pc[c] = "dead"
=============================================================================
