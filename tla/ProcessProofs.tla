--------------------------- MODULE ProcessProofs ----------------------------
(***************************************************************************)
(* Proofs about the two processes that go from one call to the outside to  *)
(* the next, any of which may fail.  Module Daemon, for any handler paths  *)
(* and any sequence of faults: the invariants say, for each point of       *)
(* run_daemon, what the temp file, the config, the guard and the sysctls   *)
(* can be there.  Module CoreDrain, for cores, caps and chunks of any size *)
(* and any place where a call fails or the deadline fires: what is stored, *)
(* what the statistics say of it, and that a drain keeps its contract.     *)
(***************************************************************************)
EXTENDS Daemon, CoreDrain, TLAPS

\* The guard exists.
Guarded == {"install", "raise limit", "register", "serve", "restore", "restore limit"}

\* HandlerConfig::write renames a whole file, and no crash is routed, nor a
\* route kept to be restored, before the first one is there.
ConfigInv ==
  /\ config \in {"none", "whole", "wiped"}
  /\ pc = "rename" => tmp \in {"none", "whole"}
  /\ config = "none" => /\ pc \notin Guarded \cup {"save"}
                        /\ pattern \notin Paths
                        /\ saved.pattern \notin Paths

\* The guard never holds the route of its own daemon.
RouteInv ==
  /\ path \in Paths
  /\ pc \in Guarded => saved.pattern # path
  /\ pc = "restore limit" /\ last = "stopped" => pattern # path
  /\ StopUnroutes

\* Where the original sysctls are while nothing is orphaned.
OriginalInv ==
  /\ path \in Paths
  /\ limit \in {"orig", "ours"}
  /\ saved.limit \in {"orig", "ours", "none"}
  /\ ~orphaned => pattern \in Paths \cup {"orig"}
  /\ ~orphaned => IF pc \in Guarded
                  THEN saved.pattern = "orig" /\ saved.limit = "orig"
                  ELSE pattern = "orig" /\ limit = "orig"

(* Every step keeps the config whole once it is there.                       *)
LEMMA ConfigStep == ConfigInv /\ [Next]_vars => ConfigInv'
<1> SUFFICES ASSUME ConfigInv, [Next]_vars PROVE ConfigInv'
  OBVIOUS
<1> USE DaemonAssumption DEF DaemonAssumption, Guarded, node, ConfigInv
<1>1. CASE Start
  BY <1>1 DEF Start, Goto
<1>2. CASE Unlink
  BY <1>2 DEF Unlink, Goto
<1>3. CASE Bind
  BY <1>3 DEF Bind, Goto
<1>4. CASE WriteConfig
  BY <1>4 DEF WriteConfig, Goto, WriteTmp, Rename
<1>5. CASE SavePrevious
  BY <1>5 DEF SavePrevious, Goto, SavedPattern
<1>6. CASE Install
  BY <1>6 DEF Install, Goto
<1>7. CASE RaiseLimit
  BY <1>7 DEF RaiseLimit, Goto
<1>8. CASE Register
  BY <1>8 DEF Register, Goto
<1>9. CASE Wake
  BY <1>9 DEF Wake, Goto
<1>10. CASE RestorePattern
  BY <1>10 DEF RestorePattern, Goto
<1>11. CASE RestoreLimit
  BY <1>11 DEF RestoreLimit, Exit, NoneSaved
<1>12. CASE StartupError
  BY <1>12 DEF StartupError, Exit, NoneSaved
<1>13. CASE Kill
  BY <1>13 DEF Kill, Exit, NoneSaved
<1>14. CASE Stop
  <2>1. CASE Exit("terminated") /\ UNCHANGED <<pattern, limit, config, tmp, path>>
    BY <2>1 DEF Exit, NoneSaved
  <2>2. CASE UNCHANGED <<node, pc, path, saved, last, orphaned>>
    BY <2>2
  <2> QED
    BY <1>14, <2>1, <2>2 DEF Stop, Terminate
<1>15. CASE GraceEnds
  BY <1>15 DEF GraceEnds, Exit, NoneSaved
<1>16. CASE ProbeFails
  <2>1. CASE Exit("terminated") /\ UNCHANGED <<pattern, limit, config, tmp, path>>
    BY <2>1 DEF Exit, NoneSaved
  <2>2. CASE UNCHANGED <<node, pc, path, saved, last, orphaned>>
    BY <2>2
  <2> QED
    BY <1>16, <2>1, <2>2 DEF ProbeFails, Terminate
<1>17. CASE Drift
  BY <1>17 DEF Drift
<1>18. CASE Wipe
  BY <1>18 DEF Wipe
<1>19. CASE UNCHANGED vars
  BY <1>19 DEF vars
<1> QED
  BY <1>1, <1>2, <1>3, <1>4, <1>5, <1>6, <1>7, <1>8, <1>9, <1>10,
     <1>11, <1>12, <1>13, <1>14, <1>15, <1>16, <1>17, <1>18, <1>19 DEF Next, Step

(* Every step keeps the daemon's own route out of its guard.                 *)
LEMMA RouteStep == RouteInv /\ [Next]_vars => RouteInv'
<1> SUFFICES ASSUME RouteInv, [Next]_vars PROVE RouteInv'
  OBVIOUS
<1> USE DaemonAssumption DEF DaemonAssumption, Guarded, node, RouteInv, StopUnroutes
<1>1. CASE Start
  BY <1>1 DEF Start, Goto
<1>2. CASE Unlink
  BY <1>2 DEF Unlink, Goto
<1>3. CASE Bind
  BY <1>3 DEF Bind, Goto
<1>4. CASE WriteConfig
  BY <1>4 DEF WriteConfig, Goto, WriteTmp, Rename
<1>5. CASE SavePrevious
  BY <1>5 DEF SavePrevious, Goto, SavedPattern
<1>6. CASE Install
  BY <1>6 DEF Install, Goto
<1>7. CASE RaiseLimit
  BY <1>7 DEF RaiseLimit, Goto
<1>8. CASE Register
  BY <1>8 DEF Register, Goto
<1>9. CASE Wake
  BY <1>9 DEF Wake, Goto
<1>10. CASE RestorePattern
  BY <1>10 DEF RestorePattern, Goto
<1>11. CASE RestoreLimit
  BY <1>11 DEF RestoreLimit, Exit, NoneSaved
<1>12. CASE StartupError
  BY <1>12 DEF StartupError, Exit, NoneSaved
<1>13. CASE Kill
  BY <1>13 DEF Kill, Exit, NoneSaved
<1>14. CASE Stop
  <2>1. CASE Exit("terminated") /\ UNCHANGED <<pattern, limit, config, tmp, path>>
    BY <2>1 DEF Exit, NoneSaved
  <2>2. CASE UNCHANGED <<node, pc, path, saved, last, orphaned>>
    BY <2>2
  <2> QED
    BY <1>14, <2>1, <2>2 DEF Stop, Terminate
<1>15. CASE GraceEnds
  BY <1>15 DEF GraceEnds, Exit, NoneSaved
<1>16. CASE ProbeFails
  <2>1. CASE Exit("terminated") /\ UNCHANGED <<pattern, limit, config, tmp, path>>
    BY <2>1 DEF Exit, NoneSaved
  <2>2. CASE UNCHANGED <<node, pc, path, saved, last, orphaned>>
    BY <2>2
  <2> QED
    BY <1>16, <2>1, <2>2 DEF ProbeFails, Terminate
<1>17. CASE Drift
  BY <1>17 DEF Drift
<1>18. CASE Wipe
  BY <1>18 DEF Wipe
<1>19. CASE UNCHANGED vars
  BY <1>19 DEF vars
<1> QED
  BY <1>1, <1>2, <1>3, <1>4, <1>5, <1>6, <1>7, <1>8, <1>9, <1>10,
     <1>11, <1>12, <1>13, <1>14, <1>15, <1>16, <1>17, <1>18, <1>19 DEF Next, Step

(* Every step keeps the original sysctls where OriginalInv says they are.    *)
LEMMA OriginalStep == OriginalInv /\ [Next]_vars => OriginalInv'
<1> SUFFICES ASSUME OriginalInv, [Next]_vars PROVE OriginalInv'
  OBVIOUS
<1> USE DaemonAssumption DEF DaemonAssumption, Guarded, node, OriginalInv
<1>1. CASE Start
  BY <1>1 DEF Start, Goto
<1>2. CASE Unlink
  BY <1>2 DEF Unlink, Goto
<1>3. CASE Bind
  BY <1>3 DEF Bind, Goto
<1>4. CASE WriteConfig
  BY <1>4 DEF WriteConfig, Goto, WriteTmp, Rename
<1>5. CASE SavePrevious
  BY <1>5 DEF SavePrevious, Goto, SavedPattern
<1>6. CASE Install
  BY <1>6 DEF Install, Goto
<1>7. CASE RaiseLimit
  BY <1>7 DEF RaiseLimit, Goto
<1>8. CASE Register
  BY <1>8 DEF Register, Goto
<1>9. CASE Wake
  BY <1>9 DEF Wake, Goto
<1>10. CASE RestorePattern
  BY <1>10 DEF RestorePattern, Goto
<1>11. CASE RestoreLimit
  BY <1>11 DEF RestoreLimit, Exit, NoneSaved
<1>12. CASE StartupError
  BY <1>12 DEF StartupError, Exit, NoneSaved
<1>13. CASE Kill
  BY <1>13 DEF Kill, Exit, NoneSaved
<1>14. CASE Stop
  <2>1. CASE Exit("terminated") /\ UNCHANGED <<pattern, limit, config, tmp, path>>
    BY <2>1 DEF Exit, NoneSaved
  <2>2. CASE UNCHANGED <<node, pc, path, saved, last, orphaned>>
    BY <2>2
  <2> QED
    BY <1>14, <2>1, <2>2 DEF Stop, Terminate
<1>15. CASE GraceEnds
  BY <1>15 DEF GraceEnds, Exit, NoneSaved
<1>16. CASE ProbeFails
  <2>1. CASE Exit("terminated") /\ UNCHANGED <<pattern, limit, config, tmp, path>>
    BY <2>1 DEF Exit, NoneSaved
  <2>2. CASE UNCHANGED <<node, pc, path, saved, last, orphaned>>
    BY <2>2
  <2> QED
    BY <1>16, <2>1, <2>2 DEF ProbeFails, Terminate
<1>17. CASE Drift
  BY <1>17 DEF Drift
<1>18. CASE Wipe
  BY <1>18 DEF Wipe
<1>19. CASE UNCHANGED vars
  BY <1>19 DEF vars
<1> QED
  BY <1>1, <1>2, <1>3, <1>4, <1>5, <1>6, <1>7, <1>8, <1>9, <1>10,
     <1>11, <1>12, <1>13, <1>14, <1>15, <1>16, <1>17, <1>18, <1>19 DEF Next, Step

(* config.rs, write: handler.json is never half-written, whatever calls fail and
   wherever the daemon is killed.                                            *)
THEOREM ConfigNeverHalfWritten == Spec => []ConfigNeverPartial
<1>1. Init => ConfigInv
  BY DaemonAssumption DEF DaemonAssumption, Guarded, Init, NoneSaved, ConfigInv
<1>2. ConfigInv => ConfigNeverPartial
  BY DEF ConfigInv, ConfigNeverPartial
<1> QED
  BY <1>1, <1>2, ConfigStep, PTL DEF Spec

(* run_daemon's order of startup: the kernel routes crashes to a handler of ours
   only once a whole config was put in place, for any handler paths.         *)
THEOREM RouteNeedsConfig == Spec => []RoutedIsConfigured
<1>1. Init => ConfigInv
  BY DaemonAssumption DEF DaemonAssumption, Guarded, Init, NoneSaved, ConfigInv
<1>2. ConfigInv => RoutedIsConfigured
  BY DEF ConfigInv, RoutedIsConfigured, Routed
<1> QED
  BY <1>1, <1>2, ConfigStep, PTL DEF Spec

(* CorePatternGuard: after an orderly stop the kernel does not route to the path
   of that daemon, whatever earlier daemons of any path left behind.         *)
THEOREM StopRemovesRoute == Spec => []StopUnroutes
<1>1. Init => RouteInv
  BY DaemonAssumption DEF DaemonAssumption, Guarded, Init, NoneSaved, RouteInv, StopUnroutes
<1>2. RouteInv => StopUnroutes
  BY DEF RouteInv, StopUnroutes
<1> QED
  BY <1>1, <1>2, RouteStep, PTL DEF Spec

(* CorePatternGuard: until a daemon ends unrestored, cannot save a value or
   another agent writes core_pattern, the node's own values of both sysctls are
   with the kernel or with the guard.                                        *)
THEOREM OriginalNeverLost == Spec => []OriginalKept
<1>1. Init => OriginalInv
  BY DaemonAssumption DEF DaemonAssumption, Guarded, Init, NoneSaved, OriginalInv
<1>2. OriginalInv => OriginalKept
  BY DEF OriginalInv, OriginalKept
<1> QED
  BY <1>1, <1>2, OriginalStep, PTL DEF Spec
----------------------------------------------------------------------------
OverCap == cap > 0 /\ drained > cap

DrainShape ==
  /\ backend \in Backends /\ total \in Nat /\ cap \in Nat
  /\ stage \in {"read", "write", "shutdown", "abort", "ok", "err"}
  /\ drained \in 0..total /\ take \in Nat /\ written \in Nat
  /\ object \in [state : ObjectState, blocks : Nat]

\* A discard reads until it ends and leaves the store alone.
DiscardInv ==
  backend = "discard" =>
    /\ stage \in {"read", "ok", "err"} /\ object.state = "none"
    /\ stage = "read" => reason = "none"
    /\ stage = "ok" => reason = "stream_error" \/ (reason = "none" /\ drained = total)

\* What the encoder has of the blocks read, at each await of the loop; size_cap
\* is noted once the whole chunk that goes past the cap has been dealt with.
LoopInv ==
  backend = "standalone" =>
    /\ stage \in {"read", "shutdown", "ok"} => written = Capped(drained)
    /\ stage = "read" => reason = IF OverCap THEN "size_cap" ELSE "none"
    /\ stage = "write" => /\ written + take = Capped(drained)
                       /\ reason = "none" /\ cut \in BOOLEAN /\ (cut <=> OverCap)
    /\ stage \in {"shutdown", "ok"} =>
         \/ reason = "stream_error"
         \/ drained = total /\ reason = IF OverCap THEN "size_cap" ELSE "none"

\* The core object: whole only after shutdown, and then all the encoder got.
ObjectInv ==
  /\ stage \notin {"ok", "err"} => object.state # "complete"
  /\ object.state = "complete" => object.blocks = Capped(drained)
  /\ stage = "ok" /\ backend = "standalone" => object.state = "complete" /\ hashed = object.blocks

DrainInv == DrainShape /\ DiscardInv /\ LoopInv /\ ObjectInv

(* A drain that has read nothing yet satisfies the invariant.                *)
LEMMA DrainInvInit == DrainInit => DrainInv
BY DrainAssumption
   DEF DrainInit, DrainInv, DrainShape, DiscardInv, LoopInv, ObjectInv, Backends, ObjectState,
       Capped, Min, OverCap, DrainAssumption

(* The read loop of both backends: a chunk below, across or past the cap.    *)
LEMMA ReadStep ==
  ASSUME DrainInv, NEW n \in 1..MaxChunk, ReadChunk(n)
  PROVE  DrainInv'
<1> USE DrainAssumption DEF DrainAssumption
<1>0. /\ stage = "read" /\ n <= total - drained /\ drained' = drained + n /\ n \in Nat \ {0}
      /\ UNCHANGED <<backend, total, cap, written, hashed, object, cause>>
      /\ backend \in Backends /\ total \in Nat /\ cap \in Nat /\ drained \in 0..total
      /\ written \in Nat /\ take \in Nat /\ object \in [state : ObjectState, blocks : Nat]
  BY DEF ReadChunk, inputs, DrainInv, DrainShape
<1>1. drained' \in 0..total
  BY <1>0
<1>2. CASE backend = "discard"
  <2>1. UNCHANGED <<stage, take, cut, reason>>
    BY <1>2 DEF ReadChunk
  <2> QED
    BY <1>0, <1>1, <1>2, <2>1 DEF DrainInv, DrainShape, DiscardInv, LoopInv, ObjectInv
<1>3. CASE backend = "standalone"
  <2> DEFINE t == Min(n, Room)
  <2>0. written = Capped(drained) /\ reason = IF OverCap THEN "size_cap" ELSE "none"
    BY <1>0, <1>3 DEF DrainInv, LoopInv
  <2>1. CASE t > 0
    <3>1. stage' = "write" /\ take' = t /\ cut' = (t < n) /\ reason' = reason
      BY <1>3, <2>1 DEF ReadChunk
    <3>2. /\ written + t = Capped(drained)' /\ t \in Nat /\ ~OverCap
          /\ (t < n <=> OverCap')
      <4>1. CASE cap = 0
        BY <1>0, <2>0, <2>1, <4>1 DEF Room, Min, Capped, OverCap
      <4>2. CASE cap # 0
        BY <1>0, <2>0, <2>1, <4>2 DEF Room, Min, Capped, OverCap
      <4> QED
        BY <4>1, <4>2
    <3>3. cut' \in BOOLEAN /\ (cut' <=> OverCap')
      <4> HIDE DEF t
      <4>1. CASE t < n
        BY <3>1, <3>2, <4>1
      <4>2. CASE ~(t < n)
        <5>1. (t < n) = FALSE
          BY <4>2
        <5>2. cut' = FALSE
          BY <3>1, <5>1
        <5> QED
          BY <3>2, <4>2, <5>2
      <4> QED
        BY <4>1, <4>2
    <3>4. LoopInv'
      BY <1>0, <1>3, <2>0, <3>1, <3>2, <3>3 DEF LoopInv
    <3>5. DrainShape' /\ DiscardInv' /\ ObjectInv'
      BY <1>0, <1>1, <1>3, <3>1, <3>2 DEF DrainInv, DrainShape, DiscardInv, ObjectInv
    <3> QED
      BY <3>4, <3>5 DEF DrainInv
  <2>2. CASE ~(t > 0)
    <3>1. /\ reason' = IF reason = "none" THEN "size_cap" ELSE reason
          /\ UNCHANGED <<stage, take, cut>>
      BY <1>3, <2>2 DEF ReadChunk
    <3>2. written = Capped(drained)' /\ OverCap'
      BY <1>0, <2>0, <2>2 DEF Room, Min, Capped, OverCap
    <3> QED
      BY <1>0, <1>1, <1>3, <2>0, <3>1, <3>2
      DEF DrainInv, DrainShape, DiscardInv, LoopInv, ObjectInv
  <2> QED
    BY <2>1, <2>2
<1> QED
  BY <1>0, <1>2, <1>3 DEF Backends

(* The end of the pipe, a read error, and a chunk the encoder has taken.     *)
LEMMA LoopStep ==
  ASSUME DrainInv, ReadEof \/ ReadError \/ WriteChunk
  PROVE  DrainInv'
<1>0. /\ UNCHANGED <<backend, total, cap, drained, cause>>
      /\ Capped(drained)' = Capped(drained) /\ (OverCap' <=> OverCap) /\ DrainShape
  BY DEF ReadEof, ReadError, WriteChunk, EndOfStream, inputs, Capped, OverCap, DrainInv
<1>1. CASE ReadEof \/ ReadError
  <2>1. /\ stage = "read" /\ stage' = IF backend = "discard" THEN "ok" ELSE "shutdown"
        /\ (reason' = reason /\ drained = total) \/ reason' = "stream_error"
        /\ UNCHANGED <<take, cut, written, hashed, object>>
    BY <1>1 DEF ReadEof, ReadError, EndOfStream
  <2>2. DrainShape' /\ DiscardInv' /\ ObjectInv'
    BY <1>0, <2>1 DEF DrainInv, DrainShape, DiscardInv, ObjectInv, Backends
  <2>3. LoopInv'
    BY <1>0, <2>1 DEF DrainInv, LoopInv
  <2> QED
    BY <2>2, <2>3 DEF DrainInv
<1>2. CASE WriteChunk
  <2>1. /\ stage = "write" /\ stage' = "read" /\ written' = written + take /\ take' = 0
        /\ reason' = IF cut /\ reason = "none" THEN "size_cap" ELSE reason
        /\ object' = object \/ object' = [object EXCEPT !.state = "parts"]
    BY <1>2 DEF WriteChunk, MaybeStarted
  <2>2. /\ backend = "standalone" /\ written + take = Capped(drained) /\ reason = "none"
        /\ (cut <=> OverCap)
    BY <1>0, <2>1 DEF DrainInv, DrainShape, DiscardInv, LoopInv, Backends
  <2>3. object' \in [state : ObjectState, blocks : Nat] /\ object'.state # "complete"
    BY <1>0, <2>1 DEF DrainInv, DrainShape, ObjectInv, ObjectState
  <2>4. LoopInv'
    BY <1>0, <2>1, <2>2 DEF LoopInv
  <2>5. DrainShape' /\ DiscardInv' /\ ObjectInv'
    BY <1>0, <2>1, <2>2, <2>3 DEF DrainShape, DiscardInv, ObjectInv
  <2> QED
    BY <2>4, <2>5 DEF DrainInv
<1> QED
  BY <1>1, <1>2

(* Every way to fail: what was read stays as it is, and an object that became
   whole unnoticed holds all that the encoder got.                           *)
LEMMA FailStep ==
  ASSUME DrainInv, WriteError \/ ReadDeadline \/ WriteDeadline \/ Abort
               \/ ShutdownError \/ ShutdownDeadline
  PROVE  DrainInv'
<1>0. /\ UNCHANGED <<backend, total, cap, drained, take, cut, written, hashed, reason>>
      /\ stage' \in {"abort", "err"} /\ (backend = "discard" => stage' = "err")
      /\ Capped(drained)' = Capped(drained) /\ DrainShape
  BY DEF WriteError, ReadDeadline, WriteDeadline, Abort, ShutdownError, ShutdownDeadline,
         Fail, inputs, Capped, DrainInv, DiscardInv
<1>1. /\ object' \in [state : ObjectState, blocks : Nat]
      /\ stage' = "abort" => object'.state # "complete"
      /\ object'.state = "complete" => object'.blocks = Capped(drained)
      /\ backend = "discard" => object'.state = "none"
  <2>1. CASE ReadDeadline \/ WriteError \/ WriteDeadline
    <3>1. object' = object \/ (stage = "write" /\ object' = [object EXCEPT !.state = "parts"])
      BY <2>1 DEF ReadDeadline, WriteError, WriteDeadline, MaybeStarted
    <3>2. stage \in {"read", "write"}
      BY <2>1 DEF ReadDeadline, WriteError, WriteDeadline
    <3> QED
      BY <3>1, <3>2 DEF DrainInv, DrainShape, ObjectInv, DiscardInv, ObjectState
  <2>2. CASE Abort
    <3>1. stage = "abort" /\ stage' = "err"
          /\ (object' = object \/ object' = [object EXCEPT !.state = "none"])
      BY <2>2 DEF Abort
    <3> QED
      BY <3>1 DEF DrainInv, DrainShape, ObjectInv, DiscardInv, ObjectState
  <2>3. CASE ShutdownError \/ ShutdownDeadline
    <3>1. /\ stage = "shutdown" /\ stage' = "err"
          /\ object' \in {object, Completed, [object EXCEPT !.state = "parts"],
                          [object EXCEPT !.state = "none"]}
      BY <2>3 DEF ShutdownError, ShutdownDeadline, Unfinished, Fail
    <3>2. backend = "standalone" /\ written = Capped(drained)
      BY <1>0, <3>1 DEF DrainInv, DrainShape, Backends, DiscardInv, LoopInv
    <3>3. /\ Completed \in [state : ObjectState, blocks : Nat]
          /\ Completed.state = "complete" /\ Completed.blocks = written
      BY <1>0 DEF Completed, ObjectState, DrainShape
    <3> QED
      BY <3>1, <3>2, <3>3 DEF DrainInv, DrainShape, ObjectInv, ObjectState
  <2> QED
    BY <2>1, <2>2, <2>3
<1>2. DrainShape' /\ DiscardInv' /\ LoopInv'
  BY <1>0, <1>1 DEF DrainInv, DrainShape, DiscardInv, LoopInv
<1>3. ObjectInv'
  BY <1>0, <1>1 DEF ObjectInv
<1> QED
  BY <1>2, <1>3 DEF DrainInv

(* Every step keeps the invariant.                                           *)
LEMMA DrainInvStep ==
  ASSUME DrainInv, [DrainNext]_drainVars
  PROVE  DrainInv'
<1>1. ASSUME NEW n \in 1..MaxChunk, ReadChunk(n) PROVE DrainInv'
  BY <1>1, ReadStep
<1>2. CASE ReadEof \/ ReadError \/ WriteChunk
  BY <1>2, LoopStep
<1>3. CASE WriteError \/ ReadDeadline \/ WriteDeadline \/ Abort
           \/ ShutdownError \/ ShutdownDeadline
  BY <1>3, FailStep
<1>4. CASE Shutdown
  <2>1. /\ stage = "shutdown" /\ stage' = "ok" /\ hashed' = written
        /\ object' = [state |-> "complete", blocks |-> written]
        /\ UNCHANGED <<backend, total, cap, drained, take, cut, written, reason>>
    BY <1>4 DEF Shutdown, Completed, inputs
  <2>2. Capped(drained)' = Capped(drained) /\ (OverCap' <=> OverCap)
    BY <2>1 DEF Capped, OverCap
  <2>3. backend = "standalone" /\ written = Capped(drained)
    BY <2>1 DEF DrainInv, DrainShape, Backends, DiscardInv, LoopInv
  <2>4. DrainShape' /\ DiscardInv' /\ ObjectInv'
    BY <2>1, <2>2, <2>3 DEF DrainInv, DrainShape, DiscardInv, ObjectInv, ObjectState
  <2>5. LoopInv'
    BY <2>1, <2>2, <2>3 DEF DrainInv, LoopInv
  <2> QED
    BY <2>4, <2>5 DEF DrainInv
<1>5. CASE UNCHANGED drainVars
  BY <1>5 DEF drainVars, DrainInv, DrainShape, DiscardInv, LoopInv, ObjectInv, Capped, OverCap
<1> QED
  BY <1>1, <1>2, <1>3, <1>4, <1>5 DEF DrainNext

(* The invariant of a drain, whatever fails and whenever the deadline fires. *)
LEMMA DrainInvHolds == DrainSpec => []DrainInv
BY DrainInvInit, DrainInvStep, PTL DEF DrainSpec

(* stream_core_through_zstd: whatever becomes visible in the store is the
   capped prefix of what was read, even when the handler reports a failure,
   and the sha256 and the size of a success cover exactly that object.       *)
THEOREM StoresPrefix == DrainSpec => []StoredPrefix
<1>1. DrainInv => StoredPrefix
  BY DEF DrainInv, ObjectInv, StoredPrefix
<1> QED
  BY <1>1, DrainInvHolds, PTL

(* CoreStats: no truncated_reason means the whole core, size_cap means all of
   the pipe was read and exactly the cap was kept, and only a stream error
   leaves some of the pipe unread.                                           *)
THEOREM TruncationIsHonest == DrainSpec => []TruncationHonest
<1>1. DrainInv => TruncationHonest
  <2> SUFFICES ASSUME DrainInv, stage = "ok" PROVE TruncationHonest
    BY DEF TruncationHonest
  <2>1. CASE backend = "discard"
    BY <2>1 DEF DrainInv, DiscardInv, TruncationHonest
  <2>2. CASE backend = "standalone"
    <3>1. /\ object.blocks = Capped(drained) /\ cap \in Nat /\ drained \in Nat /\ total \in Nat
          /\ \/ reason = "stream_error"
             \/ drained = total /\ reason = IF OverCap THEN "size_cap" ELSE "none"
      BY <2>2 DEF DrainInv, DrainShape, LoopInv, ObjectInv
    <3> QED
      BY <3>1 DEF TruncationHonest, Capped, Min, OverCap
  <2> QED
    BY <2>1, <2>2 DEF DrainInv, DrainShape, Backends
<1> QED
  BY <1>1, DrainInvHolds, PTL

(* abort_multipart: an incomplete upload outlives a failed drain only when the
   abort itself failed, or when shutdown did and there was nothing to abort. *)
THEOREM OrphansAreAccounted == DrainSpec => []OrphanAccounted
<1>1. DrainInit => OrphanAccounted
  BY DEF DrainInit, OrphanAccounted
<1>2. DrainInv /\ OrphanAccounted /\ [DrainNext]_drainVars => OrphanAccounted'
  <2> SUFFICES ASSUME DrainInv, OrphanAccounted, [DrainNext]_drainVars,
                      stage' = "err", object'.state = "parts"
               PROVE  cause' \in {"abort failed", "shutdown", "shutdown deadline"}
    BY DEF OrphanAccounted
  <2>1. ASSUME NEW n \in 1..MaxChunk, ReadChunk(n) PROVE FALSE
    BY <2>1 DEF ReadChunk
  <2>2. ~ReadEof /\ ~ReadError /\ ~WriteChunk /\ ~WriteError /\ ~WriteDeadline /\ ~Shutdown
    BY DEF ReadEof, ReadError, EndOfStream, WriteChunk, WriteError, WriteDeadline, Fail, Shutdown
  <2>3. CASE ReadDeadline
    BY <2>3 DEF ReadDeadline, Fail, DrainInv, DiscardInv
  <2>4. CASE Abort
    BY <2>4 DEF Abort, DrainInv, DrainShape
  <2>5. CASE ShutdownError \/ ShutdownDeadline
    BY <2>5 DEF ShutdownError, ShutdownDeadline, Fail
  <2>6. CASE UNCHANGED drainVars
    BY <2>6 DEF drainVars, OrphanAccounted
  <2> QED
    BY <2>1, <2>2, <2>3, <2>4, <2>5, <2>6 DEF DrainNext
<1> QED
  BY <1>1, <1>2, DrainInvHolds, PTL DEF DrainSpec

(* CaptureBackend::drain_core: every step of a drain, under any fault, is one
   the capture pipeline is built for, so what is proved of a capture on the
   contract holds of a capture that runs this drain.                         *)
THEOREM DrainKeepsContract == DrainSpec => KeepsContract
<1> DEFINE Within == Result = "running" =>
                       <<Result', object'.state>> \in DrainStep(backend, object.state)
<1>1. DrainInv /\ [DrainNext]_drainVars => [Within]_drainVars
  <2> SUFFICES ASSUME DrainInv, DrainNext, Result = "running"
               PROVE  <<Result', object'.state>> \in DrainStep(backend, object.state)
    OBVIOUS
  <2>0. /\ stage \notin {"ok", "err"} /\ object \in [state : ObjectState, blocks : Nat]
        /\ object.state \in {"none", "parts"}
    BY DEF Result, DrainInv, DrainShape, ObjectInv, ObjectState
  <2>1. ASSUME Result' \in {"running", "err"}, object'.state \in {object.state, "parts"},
               backend = "standalone"
        PROVE  <<Result', object'.state>> \in DrainStep(backend, object.state)
    BY <2>0, <2>1 DEF DrainStep, ObjectState
  <2>2. ASSUME object' = object, Result' \in Results, Result' # "ok" \/ backend = "discard"
        PROVE  <<Result', object'.state>> \in DrainStep(backend, object.state)
    BY <2>0, <2>2 DEF DrainStep, Results, ObjectState
  <2>3. ASSUME NEW n \in 1..MaxChunk, ReadChunk(n)
        PROVE  <<Result', object'.state>> \in DrainStep(backend, object.state)
    <3>1. object' = object /\ stage' \in {"read", "write"}
      BY <2>3 DEF ReadChunk
    <3> QED
      BY <3>1, <2>2 DEF Result, Results
  <2>4. CASE ReadEof \/ ReadError
    <3>1. object' = object /\ stage' = IF backend = "discard" THEN "ok" ELSE "shutdown"
      BY <2>4 DEF ReadEof, ReadError, EndOfStream
    <3> QED
      BY <3>1, <2>2 DEF Result, Results
  <2>5. CASE WriteChunk \/ WriteError \/ WriteDeadline
    <3>1. /\ stage = "write" /\ stage' \in {"read", "abort"}
          /\ object' = object \/ object' = [object EXCEPT !.state = "parts"]
      BY <2>5 DEF WriteChunk, WriteError, WriteDeadline, Fail, MaybeStarted
    <3>2. backend = "standalone" /\ Result' = "running"
      BY <3>1 DEF DrainInv, DrainShape, DiscardInv, Backends, Result
    <3> QED
      BY <2>0, <2>1, <3>1, <3>2
  <2>6. CASE ReadDeadline
    <3>1. object' = object /\ stage' \in {"abort", "err"}
      BY <2>6 DEF ReadDeadline, Fail
    <3> QED
      BY <3>1, <2>2 DEF Result, Results
  <2>7. CASE Abort \/ Shutdown \/ ShutdownError \/ ShutdownDeadline
    <3>1. backend = "standalone" /\ DrainInv'
      BY <2>7, DrainInvStep DEF Abort, Shutdown, ShutdownError, ShutdownDeadline,
         DrainInv, DrainShape, DiscardInv, Backends, DrainNext
    <3>2. stage' = "err" \/ (stage' = "ok" /\ object' = Completed)
      BY <2>7 DEF Abort, Shutdown, ShutdownError, ShutdownDeadline, Fail
    <3>3. Result' = "err" \/ (Result' = "ok" /\ object'.state = "complete")
      BY <3>2 DEF Completed, Result
    <3> QED
      BY <3>1, <3>3 DEF DrainInv, DrainShape, DrainStep
  <2> QED
    BY <2>3, <2>4, <2>5, <2>6, <2>7 DEF DrainNext
<1> QED
  BY <1>1, DrainInvHolds, PTL DEF DrainSpec, KeepsContract
=============================================================================
