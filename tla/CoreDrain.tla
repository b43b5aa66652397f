----------------------------- MODULE CoreDrain ------------------------------
(***************************************************************************)
(* One drain of the kernel's core pipe: StandaloneBackend (zstd stream to  *)
(* an object store, src/src/upload.rs) or DiscardBackend (src/src/         *)
(* backend.rs).  The kernel side, the store and the deadline are the       *)
(* environment: a read, a write or the final shutdown may answer, fail or  *)
(* never return, and the deadline may fire at any of these awaits.         *)
(*                                                                         *)
(* Sizes are in blocks; compression and hashing are by what they cover.    *)
(***************************************************************************)
EXTENDS Naturals, DrainContract

CONSTANTS MaxBlocks,    \* bound: longest core the kernel writes
          MaxChunk,     \* bound: most a single read returns (CORE_READ_CHUNK)
          Caps,         \* values of max_core_bytes, 0 = unlimited
          HasDeadline   \* whether upload_deadline_secs is non-zero

ASSUME DrainAssumption ==
  /\ MaxBlocks \in Nat /\ MaxChunk \in Nat \ {0}
  /\ Caps \subseteq Nat /\ HasDeadline \in BOOLEAN

VARIABLES backend, total, cap,  \* this drain's sink, core size and size limit
          stage,     \* "read", "write", "shutdown", "abort", "ok", "err"
          drained,   \* blocks read from the pipe
          take,      \* blocks of the current chunk to store
          cut,       \* whether the current chunk goes past the cap
          written,   \* blocks given to the encoder
          hashed,    \* blocks the HashingWriter passed on to the sink
          reason,    \* truncated_reason
          object,    \* the core object: its state and what it holds
          cause      \* history: which call failed, for err

drainVars == <<backend, total, cap, stage, drained, take, cut, written, hashed, reason, object, cause>>
inputs == <<backend, total, cap>>

Min(a, b) == IF a <= b THEN a ELSE b

RoomPastCap == IF cap = 0 THEN total - written ELSE cap + 1 - written  \* plausible bug

\* cap.saturating_sub(written); without a limit there is always room.
Room == IF cap = 0 THEN total - written ELSE cap - written

DrainInit ==
  /\ backend \in Backends
  /\ total \in 0..MaxBlocks
  /\ cap \in Caps
  /\ stage = "read"
  /\ drained = 0 /\ take = 0 /\ cut = FALSE /\ written = 0 /\ hashed = 0
  /\ reason = "none"
  /\ object = [state |-> "none", blocks |-> 0]
  /\ cause = "none"

\* Read and EOF ------------------------------------------------------------

\* Read n > 0 blocks.  The part under the cap goes to the encoder; a chunk
\* that is all past the cap is only counted.
ReadChunk(n) ==
  /\ stage = "read"
  /\ n <= total - drained
  /\ drained' = drained + n
  /\ IF backend = "discard"
     THEN UNCHANGED <<stage, take, cut, reason>>
     ELSE LET t == Min(n, Room) IN
          IF t > 0
          THEN stage' = "write" /\ take' = t /\ cut' = (t < n) /\ UNCHANGED reason
          ELSE /\ reason' = IF reason = "none" THEN "size_cap" ELSE reason
               /\ UNCHANGED <<stage, take, cut>>
  /\ UNCHANGED <<inputs, written, hashed, object, cause>>

\* A discard has nothing to finalize; a standalone drain goes on to shutdown.
EndOfStream(why) ==
  /\ reason' = why
  /\ stage' = IF backend = "discard" THEN "ok" ELSE "shutdown"
  /\ UNCHANGED <<inputs, drained, take, cut, written, hashed, object, cause>>

ReadErrorUnmarked == stage = "read" /\ EndOfStream(reason)  \* plausible bug: taken for EOF

ReadEof   == stage = "read" /\ drained = total /\ EndOfStream(reason)
ReadError == stage = "read" /\ EndOfStream("stream_error")

\* encoder.write_all -------------------------------------------------------

\* A write, complete or not, may make the BufWriter start a multipart upload.
MaybeStarted == object' \in {object, [object EXCEPT !.state = "parts"]}

\* The encoder takes the chunk and may pass some of what it holds to the
\* BufWriter.
WriteChunk ==
  /\ stage = "write"
  /\ written' = written + take
  /\ hashed' \in hashed..(written + take)
  /\ MaybeStarted
  /\ reason' = IF cut /\ reason = "none" THEN "size_cap" ELSE reason
  /\ stage' = "read" /\ take' = 0 /\ cut' = FALSE
  /\ UNCHANGED <<inputs, drained, cause>>

Fail(label, why) ==
  /\ stage' = label
  /\ cause' = why
  /\ UNCHANGED <<inputs, drained, take, cut, written, hashed, reason>>

WriteError == stage = "write" /\ Fail("abort", "write") /\ MaybeStarted

\* The deadline fires while reading or writing.
ReadDeadline ==
  /\ HasDeadline
  /\ stage = "read"
  /\ Fail(IF backend = "discard" THEN "err" ELSE "abort", "deadline")
  /\ UNCHANGED object

\* Plausible bug: a timeout around the whole drain, which drops the upload.
WriteDeadlineNoAbort ==
  HasDeadline /\ stage = "write" /\ Fail("err", "deadline") /\ MaybeStarted

WriteDeadline == HasDeadline /\ stage = "write" /\ Fail("abort", "deadline") /\ MaybeStarted

\* abort_multipart: a failure is only logged.
Abort ==
  /\ stage = "abort"
  /\ stage' = "err"
  /\ \/ object' = [object EXCEPT !.state = "none"] /\ UNCHANGED cause
     \/ object.state = "parts" /\ cause' = "abort failed" /\ UNCHANGED object
  /\ UNCHANGED <<inputs, drained, take, cut, written, hashed, reason>>

\* encoder.shutdown --------------------------------------------------------

Completed == [state |-> "complete", blocks |-> written]

ShutdownNoFlush ==  \* plausible bug: success without completing the upload
  /\ stage = "shutdown"
  /\ stage' = "ok"
  /\ UNCHANGED <<inputs, drained, take, cut, written, hashed, reason, object, cause>>

\* Flush the encoder, upload the last part, complete (or a single PUT).
Shutdown ==
  /\ stage = "shutdown"
  /\ stage' = "ok"
  /\ hashed' = written
  /\ object' = Completed
  /\ UNCHANGED <<inputs, drained, take, cut, written, reason, cause>>

\* A shutdown that does not succeed: the flush may have started the upload, and
\* the complete call may have taken effect unanswered.
Unfinished == {object, Completed} \cup
              (IF written > 0 THEN {[object EXCEPT !.state = "parts"]} ELSE {})

\* shutdown fails; the store client may have aborted the upload itself.
ShutdownError ==
  /\ stage = "shutdown"
  /\ Fail("err", "shutdown")
  /\ object' \in Unfinished \cup {[object EXCEPT !.state = "none"]}

ShutdownUnbounded == FALSE /\ UNCHANGED drainVars  \* plausible bug: no race() on it

\* The deadline fires in shutdown: no abort is possible any more.
ShutdownDeadline ==
  /\ HasDeadline
  /\ stage = "shutdown"
  /\ Fail("err", "shutdown deadline")
  /\ object' \in Unfinished

DrainNext ==
  \/ \E n \in 1..MaxChunk : ReadChunk(n)
  \/ ReadEof \/ ReadError
  \/ WriteChunk \/ WriteError \/ ReadDeadline \/ WriteDeadline \/ Abort
  \/ Shutdown \/ ShutdownError \/ ShutdownDeadline

DrainSpec == DrainInit /\ [][DrainNext]_drainVars

\* Neither the kernel nor the store need ever answer; the timer does fire,
\* and abort is bounded by the store client's retry policy.
DrainFairSpec ==
  /\ DrainSpec
  /\ WF_drainVars(ReadDeadline \/ WriteDeadline \/ ShutdownDeadline)
  /\ WF_drainVars(Abort)

----------------------------------------------------------------------------
DrainTypeOK ==
  /\ backend \in Backends /\ total \in 0..MaxBlocks /\ cap \in Caps
  /\ stage \in {"read", "write", "shutdown", "abort", "ok", "err"}
  /\ drained \in 0..total /\ written \in 0..total /\ hashed \in 0..total
  /\ take \in 0..MaxChunk /\ cut \in BOOLEAN
  /\ reason \in {"none", "size_cap", "stream_error"}
  /\ object \in [state : ObjectState, blocks : 0..total]
  /\ cause \in {"none", "write", "deadline", "abort failed", "shutdown", "shutdown deadline"}

\* What the store should hold of n blocks read.
Capped(n) == IF cap = 0 THEN n ELSE Min(n, cap)

(* stream_core_through_zstd: an object ever visible in the store, even one the
   handler reports as failed, is the capped prefix of what was read, and a
   success's sha256 and stored_bytes cover exactly that object.             *)
StoredPrefix ==
  /\ object.state = "complete" => object.blocks = Capped(drained)
  /\ stage = "ok" /\ backend = "standalone" => object.state = "complete" /\ hashed = object.blocks

(* CoreStats: a core without truncated_reason is the whole core; size_cap
   means the whole pipe was drained and exactly the cap was kept; only a
   stream error leaves the pipe undrained.                                  *)
TruncationHonest ==
  stage = "ok" =>
    /\ reason # "stream_error" => drained = total
    /\ reason = "none" /\ backend = "standalone" => object.blocks = total
    /\ reason = "size_cap" => total > cap /\ cap > 0 /\ object.blocks = cap

(* abort_multipart: a failed drain leaves an incomplete upload behind only if
   the abort itself failed or the failure came from shutdown, when there is
   nothing left to abort.                                                   *)
OrphanAccounted ==
  stage = "err" /\ object.state = "parts"
    => cause \in {"abort failed", "shutdown", "shutdown deadline"}

Result == IF stage \in {"ok", "err"} THEN stage ELSE "running"

(* Every step of a drain is one the capture pipeline is prepared for.       *)
KeepsContract ==
  [][Result = "running" => <<Result', object'.state>> \in DrainStep(backend, object.state)]_drainVars

(* upload_deadline_secs: with a deadline the drain ends even if neither the
   kernel nor the store ever answers again, so the pipe slot is freed.      *)
DrainEnds == HasDeadline => <>(stage \in {"ok", "err"})
=============================================================================
