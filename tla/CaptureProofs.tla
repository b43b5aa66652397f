---------------------------- MODULE CaptureProofs ---------------------------
(***************************************************************************)
(* Proofs about module CaptureHandler, for any number of captures, budgets *)
(* and faults: manifests and events tell the truth, and the cores in the   *)
(* store stay within the budget that LedgerProofs shows the limiter keeps. *)
(***************************************************************************)
EXTENDS CaptureHandler, LedgerProofs

AfterDrain == {"snapshot", "crictl", "manifest", "report", "exit ok"}

\* The parts of the state the argument is about, as functions of the captures.
Labels  == Stages \cup {"idle", "refused", "dead", "exit ok", "exit err"}
Buckets == [core : ObjectState, snap : BOOLEAN, manifest : Manifests \cup {NoManifest}]

Shape ==
  /\ pc \in [Captures -> Labels] /\ verdict \in [Captures -> Verdicts]
  /\ local \in [Captures -> Locals]
  /\ bucket \in [Captures -> Buckets]

\* While nothing drains there is no core; a discarding drain leaves none.
DrainInv(c) ==
  /\ pc[c] \in {"idle", "limit", "refused"} => bucket[c].core = "none"
  /\ pc[c] = "drain" /\ Backend(c) = "discard" => bucket[c].core = "none"

\* After the drain run()'s variables are true of the store.
LocalInv(c) ==
  /\ pc[c] \in AfterDrain /\ Target(c) =>
       IF local[c].uploaded THEN ~RateSuppressed(c) /\ bucket[c].core = "complete"
                            ELSE RateSuppressed(c) /\ bucket[c].core = "none"
  /\ local[c].snapRef => bucket[c].snap

\* A manifest is there only once its handler has put it, or died putting it.
ManifestInv(c) ==
  bucket[c].manifest # NoManifest =>
    /\ pc[c] \in {"report", "exit ok", "dead"}
    /\ IF bucket[c].manifest.present THEN bucket[c].core = "complete"
                                     ELSE bucket[c].manifest.skipped /\ bucket[c].core = "none"
    /\ bucket[c].manifest.proc => bucket[c].snap

CInv(c) == DrainInv(c) /\ LocalInv(c) /\ ManifestInv(c)
IInv == Shape /\ \A c \in Captures : CInv(c)

(* A node without captures satisfies the invariant.                          *)
LEMMA InitIInv == Init => IInv
<1> SUFFICES ASSUME Init PROVE IInv
  OBVIOUS
<1>1. Shape
  <2>1. pc \in [Captures -> Labels] /\ verdict \in [Captures -> Verdicts]
    BY DEF Init, LedgerInit, Labels, Verdicts
  <2>2. local \in [Captures -> Locals]
    BY DEF Init, Locals
  <2>3. bucket \in [Captures -> Buckets]
    BY DEF Init, Buckets, ObjectState
  <2> QED
    BY <2>1, <2>2, <2>3 DEF Shape
<1>2. ASSUME NEW c \in Captures PROVE CInv(c)
  BY DEF Init, LedgerInit, CInv, DrainInv, LocalInv, ManifestInv, AfterDrain
<1> QED
  BY <1>1, <1>2 DEF IInv

(* Setting one of run()'s variables keeps the types of all.                  *)
LEMMA LocalSet ==
  ASSUME NEW f \in [Captures -> Locals], NEW c \in Captures, NEW b \in BOOLEAN
  PROVE  /\ [f EXCEPT ![c].k8s = b] \in [Captures -> Locals]
         /\ [f EXCEPT ![c].store = b] \in [Captures -> Locals]
         /\ [f EXCEPT ![c].uploaded = b] \in [Captures -> Locals]
         /\ [f EXCEPT ![c].snapRef = b] \in [Captures -> Locals]
         /\ [f EXCEPT ![c].named = b] \in [Captures -> Locals]
         /\ [f EXCEPT ![c].manifestRef = b] \in [Captures -> Locals]
<1>1. [f EXCEPT ![c].k8s = b] \in [Captures -> Locals]
  BY DEF Locals
<1>2. [f EXCEPT ![c].store = b] \in [Captures -> Locals]
  BY DEF Locals
<1>3. [f EXCEPT ![c].uploaded = b] \in [Captures -> Locals]
  BY DEF Locals
<1>4. [f EXCEPT ![c].snapRef = b] \in [Captures -> Locals]
  BY DEF Locals
<1>5. [f EXCEPT ![c].named = b] \in [Captures -> Locals]
  BY DEF Locals
<1>6. [f EXCEPT ![c].manifestRef = b] \in [Captures -> Locals]
  BY DEF Locals
<1> QED
  BY <1>1, <1>2, <1>3, <1>4, <1>5, <1>6

(* The rate limiter answers a capture once: whatever else the ledger does, the
   verdict of every other capture stays.                                     *)
LEMMA LedgerFrame ==
  ASSUME Shape, NEW c \in Captures,
         Unasked(c) \/ Check(c) \/ CheckUnlimited(c) \/ FailOpen(c) \/ Die(c)
  PROVE  /\ verdict' \in [Captures -> Verdicts]
         /\ \A d \in Captures \ {c} : verdict'[d] = verdict[d]
<1> USE DEF Shape, Verdicts
<1>1. CASE Check(c)
  <2>1. CheckVerdict(ledger, stamp, c) \in {"allowed", "suppressed"}
    BY DEF CheckVerdict
  <2> QED
    BY <1>1, <2>1 DEF Check
<1>2. CASE Unasked(c) \/ CheckUnlimited(c) \/ FailOpen(c) \/ Die(c)
  BY <1>2 DEF Unasked, CheckUnlimited, FailOpen, Die
<1> QED
  BY <1>1, <1>2

\* A step of capture c alone.
Only(c) ==
  \A d \in Captures \ {c} : /\ pc'[d] = pc[d] /\ local'[d] = local[d]
                            /\ bucket'[d] = bucket[d] /\ verdict'[d] = verdict[d]

(* A step of one capture keeps what is known of the others.                  *)
LEMMA Frame ==
  ASSUME IInv, NEW c \in Captures, Shape', Only(c), CInv(c)'
  PROVE  IInv'
<1>1. ASSUME NEW d \in Captures \ {c} PROVE CInv(d)'
  <2>1. /\ pc'[d] = pc[d] /\ local'[d] = local[d]
        /\ bucket'[d] = bucket[d] /\ verdict'[d] = verdict[d]
    BY <1>1 DEF Only
  <2>2. CInv(d)
    BY <1>1 DEF IInv
  <2>3. DrainInv(d)'
    BY <2>1, <2>2 DEF CInv, DrainInv, Backend, Target, RateSuppressed
  <2>4. LocalInv(d)'
    BY <2>1, <2>2 DEF CInv, LocalInv, Target, RateSuppressed
  <2>5. ManifestInv(d)'
    BY <2>1, <2>2 DEF CInv, ManifestInv
  <2> QED
    BY <2>3, <2>4, <2>5 DEF CInv
<1> QED
  BY <1>1 DEF IInv

(* The steps up to the drain: exec, refusal and the rate limit.              *)
LEMMA LimitStep ==
  ASSUME IInv, NEW c \in Captures, Exec(c) \/ ExecRefused(c) \/ Limit(c)
  PROVE  IInv'
<1> USE DEF IInv, CInv, DrainInv, LocalInv, ManifestInv, Goto
<1>1. CASE Exec(c)
  <2>1. PICK k8s \in BOOLEAN, store \in BOOLEAN :
          local' = [local EXCEPT ![c].k8s = k8s, ![c].store = store]
    BY <1>1 DEF Exec
  <2>2. pc[c] = "idle" /\ pc' = [pc EXCEPT ![c] = "limit"] /\ UNCHANGED <<bucket, verdict>>
    BY <1>1 DEF Exec, Crash
  <2>a. local' \in [Captures -> Locals]
    <3>1. [local EXCEPT ![c].k8s = k8s] \in [Captures -> Locals]
      BY LocalSet DEF Shape
    <3>2. local' = [[local EXCEPT ![c].k8s = k8s] EXCEPT ![c].store = store]
      BY <2>1 DEF Shape
    <3> QED
      BY <3>1, <3>2, LocalSet
  <2>b. \A d \in Captures \ {c} : local'[d] = local[d]
    BY <2>1 DEF Shape
  <2>3. Shape' /\ Only(c)
    BY <2>2, <2>a, <2>b DEF Shape, Only, Labels, Stages
  <2>4. local'[c].snapRef = local[c].snapRef
    BY <2>1 DEF Shape, Locals
  <2>5. CInv(c)'
    BY <2>2, <2>4 DEF AfterDrain, Shape
  <2> QED
    BY <2>3, <2>5, Frame
<1>2. CASE ExecRefused(c)
  <2>1. /\ pc[c] = "idle" /\ pc' = [pc EXCEPT ![c] = "refused"]
        /\ UNCHANGED <<bucket, verdict, local>>
    BY <1>2 DEF ExecRefused, ledgerVars
  <2>2. Shape' /\ Only(c)
    BY <2>1 DEF Shape, Only, Labels
  <2>3. CInv(c)'
    BY <2>1 DEF AfterDrain, Shape
  <2> QED
    BY <2>2, <2>3, Frame
<1>3. CASE Limit(c)
  <2>1. pc[c] = "limit" /\ pc' = [pc EXCEPT ![c] = "drain"] /\ UNCHANGED <<bucket, local>>
    BY <1>3 DEF Limit
  <2>2. /\ verdict' \in [Captures -> Verdicts]
        /\ \A d \in Captures \ {c} : verdict'[d] = verdict[d]
    BY <1>3, LedgerFrame DEF Limit
  <2>3. Shape' /\ Only(c)
    BY <2>1, <2>2 DEF Shape, Only, Labels, Stages
  <2>4. CInv(c)'
    BY <2>1 DEF AfterDrain, Shape
  <2> QED
    BY <2>3, <2>4, Frame
<1> QED
  BY <1>1, <1>2, <1>3

(* The drain: an object appears under the core's key only while a core that
   may upload drains, and is complete when the drain ends well.              *)
LEMMA DrainStepKeeps ==
  ASSUME IInv, NEW c \in Captures, DrainProgress(c) \/ DrainOk(c) \/ DrainErr(c)
  PROVE  IInv'
<1> USE DEF Goto
<1>0. /\ pc[c] = "drain" /\ bucket[c] \in Buckets /\ local[c] \in Locals
      /\ bucket[c].manifest = NoManifest
  BY DEF IInv, Shape, CInv, ManifestInv, DrainProgress, DrainOk, DrainErr, DrainErrTo
<1>1. CASE DrainProgress(c)
  <2>1. /\ bucket' = [bucket EXCEPT ![c].core = "parts"]
        /\ UNCHANGED <<pc, local, verdict>>
        /\ Backend(c) # "discard"
    BY <1>1 DEF DrainProgress, DrainStep, ledgerVars
  <2>2. bucket' \in [Captures -> Buckets]
    BY <2>1 DEF IInv, Shape, Buckets, ObjectState
  <2>3. Shape' /\ Only(c)
    BY <2>1, <2>2 DEF IInv, Shape, Only
  <2>4. bucket'[c].manifest = NoManifest /\ bucket'[c].snap = bucket[c].snap
    BY <1>0, <2>1 DEF IInv, Shape, Buckets
  <2>5. CInv(c)'
    BY <1>0, <2>1, <2>4 DEF IInv, CInv, DrainInv, LocalInv, ManifestInv, AfterDrain,
                            Backend, Target, RateSuppressed
  <2> QED
    BY <2>3, <2>5, Frame
<1>2. CASE DrainOk(c)
  <2>1. PICK obj \in ObjectState :
          /\ <<"ok", obj>> \in DrainStep(Backend(c), bucket[c].core)
          /\ bucket' = [bucket EXCEPT ![c].core = obj]
    BY <1>2 DEF DrainOk
  <2>2. /\ local' = [local EXCEPT ![c].uploaded = (Backend(c) = "standalone")]
        /\ pc' = [pc EXCEPT ![c] = "snapshot"] /\ UNCHANGED verdict
    BY <1>2 DEF DrainOk, ledgerVars
  <2>3. bucket' \in [Captures -> Buckets]
    BY <2>1 DEF IInv, Shape, Buckets
  <2>4. local' \in [Captures -> Locals]
    <3>1. (Backend(c) = "standalone") \in BOOLEAN
      OBVIOUS
    <3> QED
      BY <2>2, <3>1, LocalSet DEF IInv, Shape
  <2>5. Shape' /\ Only(c)
    BY <2>1, <2>2, <2>3, <2>4 DEF IInv, Shape, Only, Labels, Stages
  <2>6. /\ bucket'[c].manifest = NoManifest /\ bucket'[c].snap = bucket[c].snap
        /\ bucket'[c].core = obj
    BY <1>0, <2>1 DEF IInv, Shape, Buckets
  <2>7. /\ local'[c].k8s = local[c].k8s /\ local'[c].store = local[c].store
        /\ local'[c].snapRef = local[c].snapRef
        /\ local'[c].uploaded = (Backend(c) = "standalone")
    BY <1>0, <2>2 DEF IInv, Shape, Locals
  <2>8. obj = IF Backend(c) = "standalone" THEN "complete" ELSE "none"
    BY <1>0, <2>1 DEF IInv, CInv, DrainInv, DrainStep, Backend
  <2>9. LocalInv(c)'
    BY <1>0, <2>2, <2>6, <2>7, <2>8
       DEF IInv, CInv, LocalInv, AfterDrain, Backend, Target, RateSuppressed
  <2>10. DrainInv(c)' /\ ManifestInv(c)'
    BY <2>2, <2>6 DEF IInv, Shape, DrainInv, ManifestInv
  <2> QED
    BY <2>5, <2>9, <2>10, Frame DEF CInv
<1>3. CASE DrainErr(c)
  <2>1. PICK obj \in ObjectState : bucket' = [bucket EXCEPT ![c].core = obj]
    BY <1>3 DEF DrainErr, DrainErrTo
  <2>2. PICK label \in {"refund", "failed"} : pc' = [pc EXCEPT ![c] = label]
    BY <1>3 DEF DrainErr, DrainErrTo
  <2>3. UNCHANGED <<local, verdict>>
    BY <1>3 DEF DrainErr, DrainErrTo, ledgerVars
  <2>4. bucket' \in [Captures -> Buckets]
    BY <2>1 DEF IInv, Shape, Buckets
  <2>5. Shape' /\ Only(c)
    BY <2>1, <2>2, <2>3, <2>4 DEF IInv, Shape, Only, Labels, Stages
  <2>6. bucket'[c].manifest = NoManifest /\ bucket'[c].snap = bucket[c].snap
    BY <1>0, <2>1 DEF IInv, Shape, Buckets
  <2>7. CInv(c)'
    BY <2>2, <2>3, <2>6 DEF IInv, Shape, CInv, DrainInv, LocalInv, ManifestInv, AfterDrain
  <2> QED
    BY <2>5, <2>7, Frame
<1> QED
  BY <1>1, <1>2, <1>3

(* The steps that only move on: the refund and the two reports.               *)
LEMMA QuietStep ==
  ASSUME IInv, NEW c \in Captures,
         RefundSlot(c) \/ ReportFailed(c) \/ Report(c)
  PROVE  IInv'
<1> USE DEF Goto
<1>1. /\ UNCHANGED <<local, bucket>>
      /\ \/ pc[c] = "refund" /\ pc' = [pc EXCEPT ![c] = "failed"]
         \/ pc[c] = "failed" /\ pc' = [pc EXCEPT ![c] = "exit err"]
         \/ pc[c] = "report" /\ pc' = [pc EXCEPT ![c] = "exit ok"]
  BY DEF RefundSlot, ReportFailed, Report
<1>2. verdict' = verdict
  <2>1. CASE RefundSlot(c)
    BY <2>1 DEF RefundSlot, Refund, Lose, ledgerVars
  <2>2. CASE ReportFailed(c) \/ Report(c)
    BY <2>2 DEF ReportFailed, Report, ledgerVars
  <2> QED
    BY <2>1, <2>2
<1>3. Shape' /\ Only(c)
  BY <1>1, <1>2 DEF IInv, Shape, Only, Labels, Stages
<1>4. DrainInv(c)'
  BY <1>1, <1>2 DEF IInv, Shape, DrainInv
<1>5. LocalInv(c)'
  BY <1>1, <1>2 DEF IInv, Shape, CInv, LocalInv, AfterDrain, Target, RateSuppressed
<1>6. ManifestInv(c)'
  BY <1>1 DEF IInv, Shape, CInv, ManifestInv
<1> QED
  BY <1>3, <1>4, <1>5, <1>6, Frame DEF CInv

(* put_object reports success only for an object that is there.              *)
LEMMA PutHonest ==
  ASSUME NEW there \in BOOLEAN, NEW put \in PutResults(there)
  PROVE  put[1] \in BOOLEAN /\ put[2] \in BOOLEAN /\ (put[1] => put[2])
<1>1. put = <<TRUE, TRUE>> \/ put = <<FALSE, there>> \/ put = <<FALSE, TRUE>>
  <2>1. CASE PutsFail
    BY <2>1 DEF PutResults
  <2>2. CASE ~PutsFail
    BY <2>2 DEF PutResults
  <2> QED
    BY <2>1, <2>2
<1>2. CASE put = <<TRUE, TRUE>>
  BY <1>2
<1>3. CASE put = <<FALSE, there>>
  BY <1>3
<1>4. CASE put = <<FALSE, TRUE>>
  BY <1>4
<1> QED
  BY <1>1, <1>2, <1>3, <1>4

(* The proc snapshot: a reference is kept only for an object that is there.  *)
LEMMA SnapshotStep ==
  ASSUME IInv, NEW c \in Captures, PutSnapshot(c)
  PROVE  IInv'
<1> USE DEF Goto
<1>0. /\ pc[c] = "snapshot" /\ pc' = [pc EXCEPT ![c] = "crictl"] /\ UNCHANGED verdict
      /\ bucket[c].manifest = NoManifest
  BY DEF IInv, CInv, ManifestInv, PutSnapshot, ledgerVars
<1>1. CASE Target(c)
  <2>1. PICK put \in PutResults(bucket[c].snap) :
          /\ local' = [local EXCEPT ![c].snapRef = put[1]]
          /\ bucket' = [bucket EXCEPT ![c].snap = put[2]]
    BY <1>1 DEF PutSnapshot
  <2>2. put[1] \in BOOLEAN /\ put[2] \in BOOLEAN /\ (put[1] => put[2])
    <3>1. bucket[c].snap \in BOOLEAN
      BY DEF IInv, Shape, Buckets
    <3> QED
      BY <3>1, PutHonest
  <2>3. bucket' \in [Captures -> Buckets]
    BY <2>1, <2>2 DEF IInv, Shape, Buckets
  <2>4. local' \in [Captures -> Locals]
    BY <2>1, <2>2, LocalSet DEF IInv, Shape
  <2>5. Shape' /\ Only(c)
    BY <1>0, <2>1, <2>3, <2>4 DEF IInv, Shape, Only, Labels, Stages
  <2>6. /\ bucket'[c].manifest = NoManifest /\ bucket'[c].core = bucket[c].core
        /\ bucket'[c].snap = put[2]
    BY <1>0, <2>1 DEF IInv, Shape, Buckets
  <2>7. /\ local'[c].k8s = local[c].k8s /\ local'[c].store = local[c].store
        /\ local'[c].uploaded = local[c].uploaded /\ local'[c].snapRef = put[1]
    BY <2>1 DEF IInv, Shape, Locals
  <2>8. LocalInv(c)'
    BY <1>0, <2>2, <2>6, <2>7
       DEF IInv, Shape, CInv, LocalInv, AfterDrain, Target, RateSuppressed
  <2>9. DrainInv(c)' /\ ManifestInv(c)'
    BY <1>0, <2>6 DEF IInv, Shape, DrainInv, ManifestInv
  <2> QED
    BY <2>5, <2>8, <2>9, Frame DEF CInv
<1>2. CASE ~Target(c)
  <2>1. UNCHANGED <<local, bucket>>
    BY <1>2 DEF PutSnapshot
  <2>2. Shape' /\ Only(c)
    BY <1>0, <2>1 DEF IInv, Shape, Only, Labels, Stages
  <2>3. DrainInv(c)' /\ ManifestInv(c)'
    BY <1>0, <2>1 DEF IInv, Shape, DrainInv, ManifestInv
  <2>4. LocalInv(c)'
    BY <1>0, <1>2, <2>1 DEF IInv, Shape, CInv, LocalInv, Target
  <2> QED
    BY <2>2, <2>3, <2>4, Frame DEF CInv
<1> QED
  BY <1>1, <1>2

(* crictl, answering or not, changes the names only.                         *)
LEMMA CrictlStep ==
  ASSUME IInv, NEW c \in Captures, Inspect(c) \/ NoInspect(c) \/ InspectTimeout(c)
  PROVE  IInv'
<1> USE DEF Goto
<1>1. PICK named \in BOOLEAN : CrictlTo(c, named)
  BY DEF Inspect, NoInspect, InspectTimeout
<1>2. /\ pc[c] = "crictl" /\ pc' = [pc EXCEPT ![c] = "manifest"] /\ UNCHANGED <<verdict, bucket>>
      /\ local' = [local EXCEPT ![c].named = named]
  BY <1>1 DEF CrictlTo, ledgerVars
<1>3. local' \in [Captures -> Locals]
  BY <1>2, LocalSet DEF IInv, Shape
<1>4. Shape' /\ Only(c)
  BY <1>2, <1>3 DEF IInv, Shape, Only, Labels, Stages
<1>5. /\ local'[c].k8s = local[c].k8s /\ local'[c].store = local[c].store
      /\ local'[c].uploaded = local[c].uploaded /\ local'[c].snapRef = local[c].snapRef
  BY <1>2 DEF IInv, Shape, Locals
<1>6. LocalInv(c)'
  BY <1>2, <1>5 DEF IInv, Shape, CInv, LocalInv, AfterDrain, Target, RateSuppressed
<1>7. DrainInv(c)' /\ ManifestInv(c)'
  BY <1>2 DEF IInv, Shape, CInv, DrainInv, ManifestInv
<1> QED
  BY <1>4, <1>6, <1>7, Frame DEF CInv

(* What a handler would write as the manifest is true of the store.          *)
LEMMA ManifestOfTrue ==
  ASSUME IInv, NEW c \in Captures, pc[c] = "manifest", Target(c)
  PROVE  /\ ManifestOf(c) \in Manifests
         /\ IF ManifestOf(c).present THEN bucket[c].core = "complete"
            ELSE ManifestOf(c).skipped /\ bucket[c].core = "none"
         /\ ManifestOf(c).proc => bucket[c].snap
<1>1. /\ local[c].uploaded \in BOOLEAN /\ local[c].snapRef \in BOOLEAN
      /\ local[c].named \in BOOLEAN
  BY DEF IInv, Shape, Locals
<1>2. RateSuppressed(c) \in BOOLEAN
  BY DEF RateSuppressed
<1>3. ManifestOf(c) \in Manifests
  BY <1>1, <1>2 DEF ManifestOf, Manifests
<1>4. /\ ManifestOf(c).present = local[c].uploaded /\ ManifestOf(c).proc = local[c].snapRef
      /\ ManifestOf(c).skipped = RateSuppressed(c)
  BY DEF ManifestOf
<1>5. /\ IF local[c].uploaded THEN bucket[c].core = "complete"
         ELSE RateSuppressed(c) /\ bucket[c].core = "none"
      /\ local[c].snapRef => bucket[c].snap
  BY DEF IInv, CInv, LocalInv, AfterDrain
<1> QED
  BY <1>3, <1>4, <1>5

(* The manifest is put last, after everything it points at.                  *)
LEMMA ManifestStep ==
  ASSUME IInv, NEW c \in Captures, PutManifest(c)
  PROVE  IInv'
<1> USE DEF Goto
<1>0. /\ pc[c] = "manifest" /\ pc' = [pc EXCEPT ![c] = "report"] /\ UNCHANGED verdict
      /\ bucket[c].manifest = NoManifest
  BY DEF IInv, CInv, ManifestInv, PutManifest, ledgerVars
<1>1. CASE Target(c)
  <2>1. PICK put \in PutResults(FALSE) :
          /\ local' = [local EXCEPT ![c].manifestRef = put[1]]
          /\ bucket' = [bucket EXCEPT ![c].manifest = IF put[2] THEN ManifestOf(c) ELSE @]
    BY <1>1 DEF PutManifest
  <2>2. put[1] \in BOOLEAN
    BY PutHonest
  <2>3. PICK m \in {ManifestOf(c), NoManifest} : bucket' = [bucket EXCEPT ![c].manifest = m]
    BY <1>0, <2>1
  <2>4. bucket' \in [Captures -> Buckets]
    BY <1>0, <1>1, <2>3, ManifestOfTrue DEF IInv, Shape, Buckets
  <2>5. local' \in [Captures -> Locals]
    BY <2>1, <2>2, LocalSet DEF IInv, Shape
  <2>6. Shape' /\ Only(c)
    BY <1>0, <2>1, <2>4, <2>5 DEF IInv, Shape, Only, Labels, Stages
  <2>7. /\ bucket'[c].manifest = m /\ bucket'[c].core = bucket[c].core
        /\ bucket'[c].snap = bucket[c].snap
    BY <2>3 DEF IInv, Shape, Buckets
  <2>8. /\ local'[c].k8s = local[c].k8s /\ local'[c].store = local[c].store
        /\ local'[c].uploaded = local[c].uploaded /\ local'[c].snapRef = local[c].snapRef
    BY <2>1 DEF IInv, Shape, Locals
  <2>9. LocalInv(c)'
    BY <1>0, <2>7, <2>8 DEF IInv, Shape, CInv, LocalInv, AfterDrain, Target, RateSuppressed
  <2>10. ManifestInv(c)'
    BY <1>0, <1>1, <2>7, ManifestOfTrue DEF IInv, Shape, ManifestInv
  <2>11. DrainInv(c)'
    BY <1>0 DEF IInv, Shape, DrainInv
  <2> QED
    BY <2>6, <2>9, <2>10, <2>11, Frame DEF CInv
<1>2. CASE ~Target(c)
  <2>1. UNCHANGED <<local, bucket>>
    BY <1>2 DEF PutManifest
  <2>2. Shape' /\ Only(c)
    BY <1>0, <2>1 DEF IInv, Shape, Only, Labels, Stages
  <2>3. DrainInv(c)' /\ ManifestInv(c)'
    BY <1>0, <2>1 DEF IInv, Shape, DrainInv, ManifestInv
  <2>4. LocalInv(c)'
    BY <1>0, <1>2, <2>1 DEF IInv, Shape, CInv, LocalInv, Target
  <2> QED
    BY <2>2, <2>3, <2>4, Frame DEF CInv
<1> QED
  BY <1>1, <1>2

(* A kill leaves the store as it was, or with the effect of the call it cut
   off: a core where none was promised yet, the snapshot, or the manifest.   *)
LEMMA KillStep ==
  ASSUME IInv, NEW c \in Captures, Kill(c)
  PROVE  IInv'
<1> USE DEF Goto
<1>0. /\ pc[c] \in Stages /\ pc' = [pc EXCEPT ![c] = "dead"] /\ UNCHANGED local
  BY DEF Kill, Running
<1>1. /\ verdict' \in [Captures -> Verdicts]
      /\ \A d \in Captures \ {c} : verdict'[d] = verdict[d]
  <2>1. CASE pc[c] = "limit"
    <3>1. Die(c)
      BY <2>1 DEF Kill
    <3> QED
      BY <3>1, LedgerFrame DEF IInv
  <2>2. CASE pc[c] # "limit"
    <3>1. verdict' = verdict
      BY <2>2 DEF Kill, Lose, ledgerVars
    <3> QED
      BY <3>1 DEF IInv, Shape
  <2> QED
    BY <2>1, <2>2
<1>2. PICK left \in CutOff(c) : bucket' = [bucket EXCEPT ![c] = left]
  BY DEF Kill
<1>3. CInv(c) /\ bucket[c] \in Buckets
  BY DEF IInv, Shape
<1>4. /\ left \in Buckets
      /\ left.manifest # NoManifest =>
           /\ IF left.manifest.present THEN left.core = "complete"
                                       ELSE left.manifest.skipped /\ left.core = "none"
           /\ left.manifest.proc => left.snap
      /\ local[c].snapRef => left.snap
  <2>1. CASE left = bucket[c]
    BY <1>3, <2>1 DEF CInv, ManifestInv, LocalInv
  <2>2. CASE pc[c] = "drain" /\ left = [bucket[c] EXCEPT !.core = "complete"]
    <3>1. bucket[c].manifest = NoManifest
      BY <1>3, <2>2 DEF CInv, ManifestInv
    <3>2. /\ left \in Buckets /\ left.manifest = NoManifest /\ left.snap = bucket[c].snap
      BY <1>3, <2>2, <3>1 DEF Buckets, ObjectState
    <3> QED
      BY <1>3, <3>2 DEF CInv, LocalInv
  <2>3. CASE pc[c] = "snapshot" /\ left = [bucket[c] EXCEPT !.snap = TRUE]
    <3>1. bucket[c].manifest = NoManifest
      BY <1>3, <2>3 DEF CInv, ManifestInv
    <3>2. left \in Buckets /\ left.manifest = NoManifest /\ left.snap
      BY <1>3, <2>3, <3>1 DEF Buckets
    <3> QED
      BY <3>2
  <2>4. CASE /\ pc[c] = "manifest" /\ Target(c)
             /\ left = [bucket[c] EXCEPT !.manifest = ManifestOf(c)]
    <3>1. /\ left.manifest = ManifestOf(c) /\ left.core = bucket[c].core
          /\ left.snap = bucket[c].snap
      BY <1>3, <2>4 DEF Buckets
    <3>2. left \in Buckets
      BY <1>3, <2>4, ManifestOfTrue DEF Buckets
    <3> QED
      BY <1>3, <2>4, <3>1, <3>2, ManifestOfTrue DEF CInv, LocalInv
  <2> QED
    BY <2>1, <2>2, <2>3, <2>4 DEF CutOff
<1>5. Shape' /\ Only(c)
  BY <1>0, <1>1, <1>2, <1>4 DEF IInv, Shape, Only, Labels
<1>6. CInv(c)'
  BY <1>0, <1>2, <1>4 DEF IInv, Shape, CInv, DrainInv, LocalInv, ManifestInv, AfterDrain
<1> QED
  BY <1>5, <1>6, Frame

(* Every step keeps the invariant.                                           *)
LEMMA IInvHolds == Spec => []IInv
<1>1. IInv /\ [Next]_vars => IInv'
  <2> SUFFICES ASSUME IInv, [Next]_vars PROVE IInv'
    OBVIOUS
  <2>1. CASE UNCHANGED <<pc, local, bucket, verdict>>
    <3>1. Shape'
      BY <2>1 DEF IInv, Shape
    <3>2. ASSUME NEW c \in Captures PROVE CInv(c)'
      BY <2>1 DEF IInv, CInv, DrainInv, LocalInv, ManifestInv, Backend, Target, RateSuppressed
    <3> QED
      BY <3>1, <3>2 DEF IInv
  <2>2. CASE TimePasses
    BY <2>1, <2>2 DEF TimePasses, Tick, captureVars
  <2>3. CASE UNCHANGED vars
    BY <2>1, <2>3 DEF vars, ledgerVars, captureVars
  <2>4. ASSUME NEW c \in Captures, Exec(c) \/ ExecRefused(c) \/ Limit(c) PROVE IInv'
    BY <2>4, LimitStep
  <2>5. ASSUME NEW c \in Captures, DrainProgress(c) \/ DrainEnd(c) PROVE IInv'
    BY <2>5, DrainStepKeeps DEF DrainEnd
  <2>6. ASSUME NEW c \in Captures, RefundSlot(c) \/ ReportFailed(c) \/ Report(c) PROVE IInv'
    BY <2>6, QuietStep
  <2>7. ASSUME NEW c \in Captures, PutSnapshot(c) PROVE IInv'
    BY <2>7, SnapshotStep
  <2>8. ASSUME NEW c \in Captures, Inspect(c) \/ NoInspect(c) \/ InspectTimeout(c) PROVE IInv'
    BY <2>8, CrictlStep
  <2>9. ASSUME NEW c \in Captures, PutManifest(c) PROVE IInv'
    BY <2>9, ManifestStep
  <2>10. ASSUME NEW c \in Captures, Kill(c) PROVE IInv'
    BY <2>10, KillStep
  <2> QED
    BY <2>2, <2>3, <2>4, <2>5, <2>6, <2>7, <2>8, <2>9, <2>10 DEF Next, Step
<1> QED
  BY <1>1, InitIInv, PTL DEF Spec

(* Manifests are written last and point only at what the handler has seen
   succeed, so a manifest in the store is truthful: for any number of captures
   at once, any budgets, and any failed, late or cut-off store call.         *)
THEOREM ManifestsTellTheTruth == Spec => []ManifestTruthful
<1>1. IInv => ManifestTruthful
  BY DEF IInv, CInv, ManifestInv, ManifestTruthful
<1> QED
  BY <1>1, IInvHolds, PTL

----------------------------------------------------------------------------
\* What a capture has reported, or is about to, is what run() knows.
ReportInv(c) ==
  /\ event[c] # NoEvent => pc[c] \in {"exit ok", "exit err"}
  /\ local[c].manifestRef => bucket[c].manifest # NoManifest
  /\ pc[c] \in {"report", "exit ok"} /\ bucket[c].manifest # NoManifest =>
       Target(c) /\ bucket[c].manifest.present = local[c].uploaded
  /\ event[c] # NoEvent /\ pc[c] = "exit err" =>
       event[c].outcome = "failed" /\ ~event[c].manifest
  /\ event[c] # NoEvent /\ pc[c] = "exit ok" =>
       event[c].outcome = OutcomeOf(c) /\ event[c].manifest = local[c].manifestRef

Reported == /\ event \in [Captures -> Events \cup {NoEvent}]
            /\ \A c \in Captures : ReportInv(c)

(* A step of one capture leaves everything of the others alone.              *)
LEMMA OthersStay ==
  ASSUME Shape, NEW c \in Captures, NEW d \in Captures \ {c},
         event \in [Captures -> Events \cup {NoEvent}],
         \/ Exec(c) \/ ExecRefused(c) \/ DrainProgress(c) \/ DrainEnd(c)
         \/ Inspect(c) \/ Step(c) \/ Kill(c)
  PROVE  /\ pc'[d] = pc[d] /\ local'[d] = local[d] /\ bucket'[d] = bucket[d]
         /\ verdict'[d] = verdict[d] /\ event'[d] = event[d]
<1> USE DEF Shape, Goto
<1>1. CASE Exec(c) \/ ExecRefused(c)
  BY <1>1 DEF Exec, ExecRefused, Crash, ledgerVars
<1>2. CASE Limit(c)
  <2>1. verdict'[d] = verdict[d]
    BY <1>2, LedgerFrame DEF Limit
  <2> QED
    BY <1>2, <2>1 DEF Limit
<1>3. CASE DrainProgress(c) \/ DrainEnd(c)
  BY <1>3 DEF DrainProgress, DrainEnd, DrainOk, DrainErr, DrainErrTo, ledgerVars
<1>4. CASE RefundSlot(c)
  <2>1. verdict' = verdict
    BY <1>4 DEF RefundSlot, Refund, Lose, ledgerVars
  <2> QED
    BY <1>4, <2>1 DEF RefundSlot
<1>5. CASE ReportFailed(c) \/ Report(c)
  BY <1>5 DEF ReportFailed, Report, ledgerVars
<1>6. CASE PutSnapshot(c)
  BY <1>6 DEF PutSnapshot, ledgerVars
<1>7. CASE Inspect(c) \/ NoInspect(c) \/ InspectTimeout(c)
  BY <1>7 DEF Inspect, NoInspect, InspectTimeout, CrictlTo, ledgerVars
<1>8. CASE PutManifest(c)
  BY <1>8 DEF PutManifest, ledgerVars
<1>9. CASE Kill(c)
  <2>1. verdict'[d] = verdict[d]
    <3>1. CASE pc[c] = "limit"
      <4>1. Die(c)
        BY <1>9, <3>1 DEF Kill
      <4> QED
        BY <4>1, LedgerFrame
    <3>2. CASE pc[c] # "limit"
      BY <1>9, <3>2 DEF Kill, Lose, ledgerVars
    <3> QED
      BY <3>1, <3>2
  <2> QED
    BY <1>9, <2>1 DEF Kill
<1> QED
  BY <1>1, <1>2, <1>3, <1>4, <1>5, <1>6, <1>7, <1>8, <1>9 DEF Step

(* The manifest of a capture is one, whatever run() knows.                   *)
LEMMA ManifestIsOne ==
  ASSUME Shape, NEW c \in Captures
  PROVE  /\ ManifestOf(c) # NoManifest
         /\ ManifestOf(c).present = local[c].uploaded
<1>1. /\ local[c].uploaded \in BOOLEAN /\ local[c].snapRef \in BOOLEAN
      /\ local[c].named \in BOOLEAN
  BY DEF Shape, Locals
<1>2. RateSuppressed(c) \in BOOLEAN
  BY DEF RateSuppressed
<1>3. ManifestOf(c) \in Manifests
  BY <1>1, <1>2 DEF ManifestOf, Manifests
<1> QED
  BY <1>3, NoManifestAssumption DEF ManifestOf

(* Up to the report a step that puts no manifest keeps what is known.        *)
LEMMA UnreportedStep ==
  ASSUME NEW c \in Captures, ReportInv(c), event' = event,
         pc[c] \notin {"exit ok", "exit err"}, pc'[c] \notin {"report", "exit ok"},
         local'[c].manifestRef = local[c].manifestRef,
         bucket'[c].manifest = bucket[c].manifest \/ bucket'[c].manifest # NoManifest
  PROVE  ReportInv(c)'
<1>1. event'[c] = NoEvent
  BY DEF ReportInv
<1> QED
  BY <1>1 DEF ReportInv

(* The steps that neither put the manifest nor report.                       *)
LEMMA EarlyStep ==
  ASSUME IInv, Reported, NEW c \in Captures,
         \/ Exec(c) \/ ExecRefused(c) \/ Limit(c) \/ DrainProgress(c) \/ DrainEnd(c)
         \/ RefundSlot(c) \/ PutSnapshot(c)
         \/ Inspect(c) \/ NoInspect(c) \/ InspectTimeout(c) \/ Kill(c)
  PROVE  ReportInv(c)' /\ event' = event
<1> USE DEF Goto, IInv, Shape
<1>0. ReportInv(c) /\ local[c] \in Locals /\ bucket[c] \in Buckets
  BY DEF Reported
<1>1. CASE Exec(c)
  <2>1. PICK k8s \in BOOLEAN, store \in BOOLEAN :
          local' = [local EXCEPT ![c].k8s = k8s, ![c].store = store]
    BY <1>1 DEF Exec
  <2>2. local'[c].manifestRef = local[c].manifestRef
    BY <2>1 DEF Locals
  <2> QED
    BY <1>0, <1>1, <2>2, UnreportedStep DEF Exec
<1>2. CASE ExecRefused(c) \/ Limit(c) \/ RefundSlot(c)
  BY <1>0, <1>2, UnreportedStep DEF ExecRefused, Limit, RefundSlot
<1>3. CASE DrainProgress(c) \/ DrainErr(c)
  <2>1. /\ pc[c] = "drain" /\ pc'[c] \in {"drain", "refund", "failed"}
        /\ local' = local /\ event' = event
    BY <1>3 DEF DrainProgress, DrainErr, DrainErrTo
  <2>2. PICK obj : bucket' = [bucket EXCEPT ![c].core = obj]
    BY <1>3 DEF DrainProgress, DrainErr, DrainErrTo
  <2>3. bucket'[c].manifest = bucket[c].manifest
    BY <2>2 DEF Buckets
  <2> QED
    BY <1>0, <2>1, <2>3, UnreportedStep
<1>4. CASE DrainOk(c)
  <2>1. pc[c] = "drain" /\ pc'[c] = "snapshot" /\ event' = event
    BY <1>4 DEF DrainOk
  <2>2. PICK obj : bucket' = [bucket EXCEPT ![c].core = obj]
    BY <1>4 DEF DrainOk
  <2>3. bucket'[c].manifest = bucket[c].manifest
    BY <2>2 DEF Buckets
  <2>4. local'[c].manifestRef = local[c].manifestRef
    BY <1>4 DEF DrainOk, Locals
  <2> QED
    BY <1>0, <2>1, <2>3, <2>4, UnreportedStep
<1>5. CASE PutSnapshot(c)
  <2>1. pc[c] = "snapshot" /\ pc'[c] = "crictl" /\ event' = event
    BY <1>5 DEF PutSnapshot
  <2>2. \/ UNCHANGED <<local, bucket>>
        \/ \E put \in PutResults(bucket[c].snap) :
             /\ local' = [local EXCEPT ![c].snapRef = put[1]]
             /\ bucket' = [bucket EXCEPT ![c].snap = put[2]]
    BY <1>5 DEF PutSnapshot
  <2>3. /\ bucket'[c].manifest = bucket[c].manifest
        /\ local'[c].manifestRef = local[c].manifestRef
    BY <2>2 DEF Buckets, Locals
  <2> QED
    BY <1>0, <2>1, <2>3, UnreportedStep
<1>6. CASE Inspect(c) \/ NoInspect(c) \/ InspectTimeout(c)
  <2>1. PICK named \in BOOLEAN : CrictlTo(c, named)
    BY <1>6 DEF Inspect, NoInspect, InspectTimeout
  <2>2. local'[c].manifestRef = local[c].manifestRef
    BY <2>1 DEF CrictlTo, Locals
  <2> QED
    BY <1>0, <2>1, <2>2, UnreportedStep DEF CrictlTo
<1>7. CASE Kill(c)
  <2>1. pc[c] \in Stages /\ pc'[c] = "dead" /\ event' = event /\ local' = local
    BY <1>7 DEF Kill, Running
  <2>2. PICK left \in CutOff(c) : bucket' = [bucket EXCEPT ![c] = left]
    BY <1>7 DEF Kill
  <2>3. left.manifest = bucket[c].manifest \/ left.manifest = ManifestOf(c)
    BY <1>0, <2>2 DEF CutOff, Buckets
  <2>4. left.manifest = bucket[c].manifest \/ left.manifest # NoManifest
    BY <2>3, ManifestIsOne
  <2> QED
    BY <1>0, <2>1, <2>2, <2>4, UnreportedStep DEF Stages
<1> QED
  BY <1>1, <1>2, <1>3, <1>4, <1>5, <1>6, <1>7 DEF DrainEnd

(* The manifest step and the reports.                                        *)
LEMMA LateStep ==
  ASSUME IInv, Reported, NEW c \in Captures,
         PutManifest(c) \/ ReportFailed(c) \/ Report(c)
  PROVE  ReportInv(c)' /\ event' \in [Captures -> Events \cup {NoEvent}]
<1> USE DEF Goto
<1>0. /\ ReportInv(c) /\ CInv(c) /\ Shape
      /\ local[c] \in Locals /\ bucket[c] \in Buckets
      /\ event \in [Captures -> Events \cup {NoEvent}]
  BY DEF Reported, IInv, Shape
<1>1. CASE PutManifest(c)
  <2>1. /\ pc[c] = "manifest" /\ pc'[c] = "report" /\ event' = event
        /\ bucket[c].manifest = NoManifest
    BY <1>0, <1>1 DEF PutManifest, Shape, CInv, ManifestInv
  <2>2. event'[c] = NoEvent
    BY <1>0, <2>1 DEF ReportInv
  <2>3. CASE Target(c)
    <3>1. PICK put \in PutResults(FALSE) :
            /\ local' = [local EXCEPT ![c].manifestRef = put[1]]
            /\ bucket' = [bucket EXCEPT ![c].manifest = IF put[2] THEN ManifestOf(c) ELSE @]
      BY <1>1, <2>3 DEF PutManifest
    <3>2. put[1] \in BOOLEAN /\ put[2] \in BOOLEAN /\ (put[1] => put[2])
      BY <3>1, PutHonest
    <3>3. /\ local'[c].manifestRef = put[1] /\ local'[c].uploaded = local[c].uploaded
          /\ local'[c].k8s = local[c].k8s /\ local'[c].store = local[c].store
      BY <1>0, <3>1 DEF Shape, Locals
    <3>4. bucket'[c].manifest = IF put[2] THEN ManifestOf(c) ELSE NoManifest
      BY <1>0, <2>1, <3>1 DEF Shape, Buckets
    <3> QED
      BY <1>0, <2>1, <2>2, <2>3, <3>2, <3>3, <3>4, ManifestIsOne DEF ReportInv, Target
  <2>4. CASE ~Target(c)
    <3>1. UNCHANGED <<local, bucket>>
      BY <1>1, <2>4 DEF PutManifest
    <3> QED
      BY <1>0, <2>1, <2>2, <3>1 DEF ReportInv
  <2> QED
    BY <1>0, <2>1, <2>3, <2>4
<1>2. CASE ReportFailed(c)
  <2>1. /\ pc[c] = "failed" /\ pc'[c] = "exit err" /\ UNCHANGED <<local, bucket, verdict>>
        /\ event' = [event EXCEPT ![c] = [outcome |-> "failed", k8s |-> local[c].k8s,
                                          named |-> FALSE, manifest |-> FALSE]]
    BY <1>0, <1>2 DEF ReportFailed, Shape, ledgerVars
  <2>2. event' \in [Captures -> Events \cup {NoEvent}]
    BY <1>0, <2>1 DEF Events, Outcomes, Locals
  <2>3. event'[c].outcome = "failed" /\ ~event'[c].manifest
    BY <1>0, <2>1
  <2> QED
    BY <1>0, <2>1, <2>2, <2>3 DEF ReportInv
<1>3. CASE Report(c)
  <2>1. /\ pc[c] = "report" /\ pc'[c] = "exit ok" /\ UNCHANGED <<local, bucket, verdict>>
        /\ event' = [event EXCEPT ![c] = [outcome |-> OutcomeOf(c), k8s |-> local[c].k8s,
                                          named |-> local[c].named,
                                          manifest |-> local[c].manifestRef]]
    BY <1>0, <1>3 DEF Report, Shape, ledgerVars
  <2>2. OutcomeOf(c) \in Outcomes
    BY DEF OutcomeOf, Outcomes
  <2>3. event' \in [Captures -> Events \cup {NoEvent}]
    BY <1>0, <2>1, <2>2 DEF Events, Locals
  <2>4. event'[c].outcome = OutcomeOf(c) /\ event'[c].manifest = local[c].manifestRef
    BY <1>0, <2>1
  <2>5. OutcomeOf(c)' = OutcomeOf(c) /\ Target(c)' = Target(c)
    BY <2>1 DEF OutcomeOf, Target, RateSuppressed
  <2> QED
    BY <1>0, <2>1, <2>3, <2>4, <2>5 DEF ReportInv
<1> QED
  BY <1>1, <1>2, <1>3

(* Every step keeps what captures have reported in line with what run() knows. *)
LEMMA ReportedHolds == Spec => []Reported
<1>1. Init => Reported
  BY DEF Init, Reported, ReportInv
<1>2. IInv /\ Reported /\ [Next]_vars => Reported'
  <2> SUFFICES ASSUME IInv, Reported, [Next]_vars PROVE Reported'
    OBVIOUS
  <2>1. CASE UNCHANGED <<pc, local, bucket, verdict, event>>
    <3>1. ASSUME NEW c \in Captures PROVE ReportInv(c)'
      BY <2>1 DEF Reported, ReportInv, OutcomeOf, Target, RateSuppressed
    <3> QED
      BY <2>1, <3>1 DEF Reported
  <2>2. CASE TimePasses \/ UNCHANGED vars
    BY <2>1, <2>2 DEF TimePasses, Tick, vars, ledgerVars, captureVars
  <2>3. ASSUME NEW c \in Captures,
               \/ Exec(c) \/ ExecRefused(c) \/ DrainProgress(c) \/ DrainEnd(c)
               \/ Inspect(c) \/ Step(c) \/ Kill(c)
        PROVE  Reported'
    <3>1. ReportInv(c)' /\ event' \in [Captures -> Events \cup {NoEvent}]
      BY <2>3, EarlyStep, LateStep DEF Step, Reported
    <3>2. ASSUME NEW d \in Captures \ {c} PROVE ReportInv(d)'
      <4>1. /\ pc'[d] = pc[d] /\ local'[d] = local[d] /\ bucket'[d] = bucket[d]
            /\ verdict'[d] = verdict[d] /\ event'[d] = event[d]
        BY <2>3, OthersStay DEF IInv, Reported
      <4>2. OutcomeOf(d)' = OutcomeOf(d) /\ Target(d)' = Target(d)
        BY <4>1 DEF OutcomeOf, Target, RateSuppressed
      <4> QED
        BY <4>1, <4>2 DEF Reported, ReportInv
    <3> QED
      BY <3>1, <3>2 DEF Reported
  <2> QED
    BY <2>2, <2>3 DEF Next
<1> QED
  BY <1>1, <1>2, IInvHolds, PTL DEF Spec

(* The report comes last and repeats what run() knows, which is true of the
   store: a capture reported as uploaded has its core there, one reported as
   failed has no manifest, and a reported manifest key has its manifest.     *)
THEOREM EventsTellTheTruth == Spec => []EventTruthful
<1>1. IInv /\ Reported => EventTruthful
  <2> SUFFICES ASSUME IInv, Reported, NEW c \in Captures, event[c] # NoEvent
               PROVE  /\ event[c].outcome = "failed" <=> pc[c] = "exit err"
                      /\ event[c].outcome = "failed" => bucket[c].manifest = NoManifest
                      /\ event[c].outcome = "uploaded" => bucket[c].core = "complete"
                      /\ event[c].manifest =>
                           /\ bucket[c].manifest # NoManifest
                           /\ bucket[c].manifest.present <=> event[c].outcome = "uploaded"
    BY DEF EventTruthful
  <2>0. ReportInv(c) /\ CInv(c)
    BY DEF Reported, IInv
  <2>1. CASE pc[c] = "exit err"
    BY <2>0, <2>1 DEF ReportInv, CInv, ManifestInv
  <2>2. CASE pc[c] = "exit ok"
    <3>1. /\ event[c].outcome = OutcomeOf(c) /\ event[c].manifest = local[c].manifestRef
          /\ local[c] \in Locals
      BY <2>0, <2>2 DEF ReportInv, IInv, Shape
    <3>2. Target(c) => /\ local[c].uploaded <=> ~RateSuppressed(c)
                       /\ local[c].uploaded => bucket[c].core = "complete"
      BY <2>0, <2>2 DEF CInv, LocalInv, AfterDrain
    <3>3. OutcomeOf(c) # "failed"
      BY <3>1, <3>2 DEF OutcomeOf, Target, Locals
    <3>4. OutcomeOf(c) = "uploaded" <=> Target(c) /\ ~RateSuppressed(c) /\ local[c].uploaded
      BY <3>1 DEF OutcomeOf, Target, Locals
    <3> QED
      BY <2>0, <2>2, <3>1, <3>2, <3>3, <3>4 DEF ReportInv
  <2> QED
    BY <2>0, <2>1, <2>2 DEF ReportInv
<1> QED
  BY <1>1, IInvHolds, ReportedHolds, PTL

----------------------------------------------------------------------------
(* handler::run goes through the rate limiter as the limiter is meant to be
   used: every step of a capture is a step of the ledger or leaves it alone. *)
THEOREM CapturesUseLedger == Spec => LedgerSpec
<1>1. Init => LedgerInit
  BY DEF Init
<1>2. [Next]_vars => [LedgerNext]_ledgerVars
  <2> SUFFICES ASSUME [Next]_vars PROVE LedgerNext \/ UNCHANGED ledgerVars
    OBVIOUS
  <2>1. CASE TimePasses \/ UNCHANGED vars
    BY <2>1 DEF TimePasses, vars, LedgerNext
  <2>2. ASSUME NEW c \in Captures, Exec(c) \/ Limit(c) PROVE LedgerNext
    BY <2>2 DEF Exec, Limit, LedgerNext
  <2>3. ASSUME NEW c \in Captures, RefundSlot(c) \/ Kill(c)
        PROVE  LedgerNext \/ UNCHANGED ledgerVars
    BY <2>3 DEF RefundSlot, Kill, LedgerNext
  <2>4. ASSUME NEW c \in Captures, ExecRefused(c) \/ DrainProgress(c) \/ DrainEnd(c)
        PROVE  UNCHANGED ledgerVars
    BY <2>4 DEF ExecRefused, DrainProgress, DrainEnd, DrainOk, DrainErr, DrainErrTo
  <2>5. ASSUME NEW c \in Captures,
               ReportFailed(c) \/ PutSnapshot(c) \/ PutManifest(c) \/ Report(c)
        PROVE  UNCHANGED ledgerVars
    BY <2>5 DEF ReportFailed, PutSnapshot, PutManifest, Report
  <2>6. ASSUME NEW c \in Captures, Inspect(c) \/ NoInspect(c) \/ InspectTimeout(c)
        PROVE  UNCHANGED ledgerVars
    BY <2>6 DEF Inspect, NoInspect, InspectTimeout, CrictlTo
  <2> QED
    BY <2>1, <2>2, <2>3, <2>4, <2>5, <2>6 DEF Next, Step
<1> QED
  BY <1>1, <1>2, PTL DEF Spec, LedgerSpec

\* While the state file works: what a capture was told, whether its slot is on
\* record, and what that has to do with its core.
SlotInv(c) ==
  /\ pc[c] \in {"idle", "limit"} => verdict[c] = "none"
  /\ verdict[c] = "allowed" => Target(c)
  /\ pc[c] = "drain" /\ Target(c) => verdict[c] \in {"allowed", "suppressed"}
  /\ pc[c] \in {"idle", "limit", "drain", "refund"} => c \notin refunded
  /\ pc[c] \in {"failed", "exit err"} => c \notin ledger
  /\ bucket[c].core = "complete" /\ ~LateComplete =>
       pc[c] \in AfterDrain \cup {"dead"} /\ verdict[c] = "allowed" /\ c \notin refunded

Slots == ~Unreliable => \A c \in Captures : SlotInv(c)

(* A step of one capture puts no other capture on record and refunds none.   *)
LEMMA OtherSlots ==
  ASSUME ~Unreliable, NEW c \in Captures, NEW d \in Captures \ {c},
         \/ Exec(c) \/ ExecRefused(c) \/ DrainProgress(c) \/ DrainEnd(c)
         \/ Inspect(c) \/ Step(c) \/ Kill(c)
  PROVE  (d \in ledger' => d \in ledger) /\ (d \in refunded' => d \in refunded)
<1>1. CASE Exec(c)
  BY <1>1 DEF Exec, Crash
<1>2. CASE Limit(c)
  <2>1. /\ refunded' = refunded
        /\ ledger' = ledger \/ ledger' = CheckedState(ledger, stamp, c)
    BY <1>2 DEF Limit, Unasked, Check, CheckUnlimited, FailOpen
  <2> QED
    BY <2>1 DEF CheckedState, Prune
<1>3. CASE RefundSlot(c)
  BY <1>3 DEF RefundSlot, Refund, RefundedState, ledgerVars
<1>4. CASE Kill(c)
  BY <1>4 DEF Kill, Die, Lose, ledgerVars
<1>5. CASE ExecRefused(c) \/ DrainProgress(c) \/ DrainEnd(c)
  BY <1>5 DEF ExecRefused, DrainProgress, DrainEnd, DrainOk, DrainErr, DrainErrTo, ledgerVars
<1>6. CASE \/ ReportFailed(c) \/ PutSnapshot(c) \/ PutManifest(c) \/ Report(c)
           \/ Inspect(c) \/ NoInspect(c) \/ InspectTimeout(c)
  BY <1>6 DEF ReportFailed, PutSnapshot, PutManifest, Report, Inspect, NoInspect,
     InspectTimeout, CrictlTo, ledgerVars
<1> QED
  BY <1>1, <1>2, <1>3, <1>4, <1>5, <1>6 DEF Step

(* A step that touches neither the ledger nor the core's object.             *)
LEMMA ApartStep ==
  ASSUME NEW c \in Captures, SlotInv(c), UNCHANGED <<ledger, verdict, refunded>>,
         local'[c].k8s = local[c].k8s, local'[c].store = local[c].store,
         pc'[c] \notin {"idle", "limit", "drain", "refund"},
         pc'[c] \in {"failed", "exit err"} => pc[c] \in {"failed", "exit err"},
         pc[c] \in AfterDrain => pc'[c] \in AfterDrain \cup {"dead"}, pc[c] # "dead",
         bucket'[c].core = bucket[c].core \/ LateComplete
  PROVE  SlotInv(c)'
BY DEF SlotInv, Target

(* The steps of a capture after the drain, and a kill.                       *)
LEMMA TailSlot ==
  ASSUME ~Unreliable, IInv, NEW c \in Captures, SlotInv(c),
         \/ ExecRefused(c) \/ ReportFailed(c) \/ PutSnapshot(c) \/ PutManifest(c) \/ Report(c)
         \/ Inspect(c) \/ NoInspect(c) \/ InspectTimeout(c) \/ Kill(c)
  PROVE  SlotInv(c)'
<1> USE DEF Goto, IInv, Shape, AfterDrain
<1>0. local[c] \in Locals /\ bucket[c] \in Buckets /\ pc[c] \in Labels
  OBVIOUS
<1>1. CASE ExecRefused(c) \/ ReportFailed(c) \/ Report(c)
  <2>1. /\ UNCHANGED <<ledger, verdict, refunded, local, bucket>>
        /\ pc[c] \in {"idle", "failed", "report"}
        /\ pc'[c] = IF pc[c] = "idle" THEN "refused"
                    ELSE IF pc[c] = "failed" THEN "exit err" ELSE "exit ok"
    BY <1>1 DEF ExecRefused, ReportFailed, Report, ledgerVars
  <2> QED
    BY <2>1, ApartStep
<1>2. CASE PutSnapshot(c)
  <2>1. /\ UNCHANGED <<ledger, verdict, refunded>>
        /\ pc[c] = "snapshot" /\ pc'[c] = "crictl"
        /\ \/ UNCHANGED <<local, bucket>>
           \/ \E put \in PutResults(bucket[c].snap) :
                /\ local' = [local EXCEPT ![c].snapRef = put[1]]
                /\ bucket' = [bucket EXCEPT ![c].snap = put[2]]
    BY <1>2 DEF PutSnapshot, ledgerVars
  <2>2. /\ bucket'[c].core = bucket[c].core
        /\ local'[c].k8s = local[c].k8s /\ local'[c].store = local[c].store
    BY <1>0, <2>1 DEF Buckets, Locals
  <2> QED
    BY <2>1, <2>2, ApartStep
<1>3. CASE PutManifest(c)
  <2>1. /\ UNCHANGED <<ledger, verdict, refunded>>
        /\ pc[c] = "manifest" /\ pc'[c] = "report"
        /\ \/ UNCHANGED <<local, bucket>>
           \/ \E ref, man :
                /\ local' = [local EXCEPT ![c].manifestRef = ref]
                /\ bucket' = [bucket EXCEPT ![c].manifest = man]
    BY <1>3 DEF PutManifest, ledgerVars
  <2>2. /\ bucket'[c].core = bucket[c].core
        /\ local'[c].k8s = local[c].k8s /\ local'[c].store = local[c].store
    BY <1>0, <2>1 DEF Buckets, Locals
  <2> QED
    BY <2>1, <2>2, ApartStep
<1>4. CASE Inspect(c) \/ NoInspect(c) \/ InspectTimeout(c)
  <2>1. PICK named \in BOOLEAN : CrictlTo(c, named)
    BY <1>4 DEF Inspect, NoInspect, InspectTimeout
  <2>2. /\ UNCHANGED <<ledger, verdict, refunded, bucket>>
        /\ pc[c] = "crictl" /\ pc'[c] = "manifest"
        /\ local' = [local EXCEPT ![c].named = named]
    BY <2>1 DEF CrictlTo, ledgerVars
  <2>3. local'[c].k8s = local[c].k8s /\ local'[c].store = local[c].store
    BY <1>0, <2>2 DEF Locals
  <2> QED
    BY <2>2, <2>3, ApartStep
<1>5. CASE Kill(c)
  <2>1. /\ UNCHANGED <<ledger, verdict, refunded, local>>
        /\ pc[c] # "dead" /\ pc'[c] = "dead"
    BY <1>5 DEF Kill, Running, Stages, Die, Lose, ledgerVars
  <2>2. PICK left \in CutOff(c) : bucket' = [bucket EXCEPT ![c] = left]
    BY <1>5 DEF Kill
  <2>3. left.core = bucket[c].core \/ LateComplete
    BY <1>0, <2>2 DEF CutOff, Buckets
  <2> QED
    BY <2>1, <2>2, <2>3, ApartStep
<1> QED
  BY <1>1, <1>2, <1>3, <1>4, <1>5

(* The steps of a capture up to the end of its drain, and the refund: a core
   completes only on a slot that is on record, a slot whose core failed is given
   back, and an entry that has been given back is off the record.            *)
LEMMA HeadSlot ==
  ASSUME ~Unreliable, IInv, Account, NEW c \in Captures, SlotInv(c),
         \/ Exec(c) \/ Limit(c) \/ DrainProgress(c) \/ DrainEnd(c) \/ RefundSlot(c)
  PROVE  SlotInv(c)'
<1> USE DEF Goto, IInv, Shape, AfterDrain
<1>0. local[c] \in Locals /\ bucket[c] \in Buckets /\ pc[c] \in Labels
  OBVIOUS
<1>1. CASE Exec(c)
  <2>1. /\ pc[c] = "idle" /\ pc'[c] = "limit"
        /\ UNCHANGED <<ledger, verdict, refunded, bucket>>
    BY <1>1 DEF Exec, Crash
  <2> QED
    BY <2>1 DEF SlotInv
<1>2. CASE Limit(c)
  <2>1. /\ pc[c] = "limit" /\ pc'[c] = "drain"
        /\ UNCHANGED <<refunded, local, bucket>>
    BY <1>2 DEF Limit, Unasked, Check, CheckUnlimited, FailOpen
  <2>2. IF Target(c) THEN verdict'[c] \in {"allowed", "suppressed"} ELSE verdict'[c] = "unasked"
    BY <1>2 DEF Limit, Unasked, Check, CheckUnlimited, FailOpen, CheckVerdict
  <2> QED
    BY <2>1, <2>2 DEF SlotInv, Target
<1>3. CASE DrainProgress(c)
  <2>1. /\ bucket' = [bucket EXCEPT ![c].core = "parts"]
        /\ UNCHANGED <<ledger, verdict, refunded, pc, local>>
    BY <1>3 DEF DrainProgress, ledgerVars
  <2>2. bucket'[c].core = "parts"
    BY <1>0, <2>1 DEF Buckets
  <2> QED
    BY <2>1, <2>2 DEF SlotInv, Target
<1>4. CASE DrainOk(c)
  <2>1. PICK obj \in ObjectState :
          /\ <<"ok", obj>> \in DrainStep(Backend(c), bucket[c].core)
          /\ bucket' = [bucket EXCEPT ![c].core = obj]
    BY <1>4 DEF DrainOk
  <2>2. /\ pc[c] = "drain" /\ pc'[c] = "snapshot" /\ UNCHANGED <<ledger, verdict, refunded>>
        /\ local' = [local EXCEPT ![c].uploaded = (Backend(c) = "standalone")]
    BY <1>4 DEF DrainOk, ledgerVars
  <2>3. /\ local'[c].k8s = local[c].k8s /\ local'[c].store = local[c].store
        /\ bucket'[c].core = obj
    BY <1>0, <2>1, <2>2 DEF Locals, Buckets
  <2>4. obj = "complete" => Target(c) /\ ~RateSuppressed(c)
    BY <2>1, <2>2 DEF CInv, DrainInv, DrainStep, Backend
  <2> QED
    BY <2>2, <2>3, <2>4 DEF SlotInv, Target, RateSuppressed
<1>5. CASE DrainErr(c)
  <2>1. PICK obj \in ObjectState : /\ obj = "complete" => LateComplete
                                   /\ bucket' = [bucket EXCEPT ![c].core = obj]
    BY <1>5 DEF DrainErr, DrainErrTo
  <2>2. /\ pc[c] = "drain" /\ pc'[c] = IF RateRecorded(c) THEN "refund" ELSE "failed"
        /\ UNCHANGED <<ledger, verdict, refunded, local>>
    BY <1>5 DEF DrainErr, DrainErrTo, ledgerVars
  <2>3. bucket'[c].core = obj
    BY <1>0, <2>1 DEF Buckets
  <2>4. ~RateRecorded(c) => c \notin ledger
    BY DEF RateRecorded, Account
  <2> QED
    BY <2>1, <2>2, <2>3, <2>4 DEF SlotInv, Target
<1>6. CASE RefundSlot(c)
  <2>1. pc[c] = "refund" /\ pc'[c] = "failed" /\ UNCHANGED <<verdict, local, bucket>>
    BY <1>6 DEF RefundSlot, Refund, Lose, ledgerVars
  <2>2. c \notin ledger'
    <3>1. CASE Refund(c)
      BY <3>1 DEF Refund, RefundedState, Twins
    <3>2. CASE Budget[c] = 0 /\ UNCHANGED ledgerVars
      BY <3>2 DEF ledgerVars, Account
    <3> QED
      BY <1>6, <3>1, <3>2 DEF RefundSlot
  <2> QED
    BY <2>1, <2>2 DEF SlotInv, Target
<1> QED
  BY <1>1, <1>2, <1>3, <1>4, <1>5, <1>6 DEF DrainEnd

(* Every step keeps the captures' slots and cores in line.                   *)
LEMMA SlotsHold == Spec => []Slots
<1>1. Init => Slots
  BY DEF Init, LedgerInit, Slots, SlotInv
<1>2. IInv /\ Books /\ Reported /\ Slots /\ [Next]_vars => Slots'
  <2> SUFFICES ASSUME IInv, Books, Reported, ~Unreliable, \A c \in Captures : SlotInv(c), [Next]_vars
               PROVE  \A c \in Captures : SlotInv(c)'
    BY DEF Slots
  <2>1. CASE TimePasses \/ UNCHANGED vars
    <3>1. UNCHANGED <<pc, local, bucket, ledger, verdict, refunded>>
      BY <2>1 DEF TimePasses, Tick, vars, ledgerVars, captureVars
    <3> QED
      BY <3>1 DEF SlotInv, Target
  <2>2. ASSUME NEW c \in Captures,
               \/ Exec(c) \/ ExecRefused(c) \/ DrainProgress(c) \/ DrainEnd(c)
               \/ Inspect(c) \/ Step(c) \/ Kill(c)
        PROVE  \A d \in Captures : SlotInv(d)'
    <3>1. SlotInv(c)'
      BY <2>2, HeadSlot, TailSlot DEF Step, Books
    <3>2. ASSUME NEW d \in Captures \ {c} PROVE SlotInv(d)'
      <4>1. /\ pc'[d] = pc[d] /\ local'[d] = local[d] /\ bucket'[d] = bucket[d]
            /\ verdict'[d] = verdict[d]
        BY <2>2, OthersStay DEF IInv, Reported
      <4>2. (d \in ledger' => d \in ledger) /\ (d \in refunded' => d \in refunded)
        BY <2>2, OtherSlots
      <4> QED
        BY <4>1, <4>2 DEF SlotInv, Target
    <3> QED
      BY <3>1, <3>2
  <2> QED
    BY <2>1, <2>2 DEF Next
<1>3. Spec => []Books
  BY CapturesUseLedger, BooksKept, PTL
<1> QED
  BY <1>1, <1>2, <1>3, IInvHolds, ReportedHolds, PTL DEF Spec

(* handler::run's refund: while the state file works, a capture that has ended
   and still holds a slot of its pod's budget has its core in the store, so a
   store outage, a deadline or a failed upload uses up no budget.            *)
THEOREM OutageCostsNoSlot == Spec => [](~Unreliable => SlotOnlyIfStored)
<1>1. IInv /\ Books /\ Slots => (~Unreliable => SlotOnlyIfStored)
  <2> SUFFICES ASSUME IInv, Books, Slots, ~Unreliable, NEW c \in ledger,
                      pc[c] \in {"exit ok", "exit err"}
               PROVE  c \in Stored
    BY DEF SlotOnlyIfStored
  <2>1. c \in Captures /\ verdict[c] = "allowed" /\ SlotInv(c) /\ CInv(c)
    BY DEF Books, Account, Slots, IInv
  <2>2. pc[c] = "exit ok" /\ Target(c)
    BY <2>1 DEF SlotInv
  <2>3. bucket[c].core = "complete"
    BY <2>1, <2>2 DEF CInv, LocalInv, AfterDrain, RateSuppressed
  <2> QED
    BY <2>1, <2>3 DEF Stored
<1> QED
  BY <1>1, IInvHolds, SlotsHold, CapturesUseLedger, BooksKept, PTL

(* --max-cores-per-hour, end to end: while the state file works and no upload
   reported failed completes late, the store never holds more than MaxBudget
   cores of a pod from one stretch of Window - MaxLag seconds, however many
   handlers run at once and wherever they are killed.                        *)
THEOREM CoresStayWithinBudget == Spec => [](~Unreliable /\ ~LateComplete => CoresWithinBudget)
<1>1. Books /\ Slots => (~Unreliable /\ ~LateComplete => CoresWithinBudget)
  <2> DEFINE Limited == {c \in Stored : Budget[c] # 0}
             Close(c) == {g \in Limited : /\ PodOf[g] = PodOf[c]
                                          /\ stamp[g] <= stamp[c]
                                          /\ stamp[g] > stamp[c] - (Window - MaxLag)}
  <2> SUFFICES ASSUME Books, Slots, ~Unreliable, ~LateComplete, NEW c \in Limited
               PROVE  Cardinality(Close(c)) <= MaxBudget
    BY DEF CoresWithinBudget
  <2>1. Limited \subseteq Kept
    BY DEF Stored, Slots, SlotInv, Kept
  <2>2. c \in Kept /\ Close(c) \subseteq Near(c)
    BY <2>1 DEF Near
  <2>3. Cardinality(Near(c)) <= MaxBudget
    BY <2>2 DEF Books, NearBudget
  <2>4. IsFiniteSet(Near(c))
    <3>1. Near(c) \subseteq Captures
      BY DEF Near, Kept
    <3> QED
      BY <3>1, CapturesAssumption, FS_Subset
  <2> HIDE DEF Close
  <2>5. /\ Cardinality(Close(c)) <= Cardinality(Near(c))
        /\ Cardinality(Close(c)) \in Nat /\ Cardinality(Near(c)) \in Nat
    BY <2>2, <2>4, FS_Subset, FS_CardinalityType
  <2> QED
    BY <2>3, <2>5, BudgetAssumption
<1> QED
  BY <1>1, SlotsHold, CapturesUseLedger, BooksKept, PTL
=============================================================================
