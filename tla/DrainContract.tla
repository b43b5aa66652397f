--------------------------- MODULE DrainContract ----------------------------
(***************************************************************************)
(* What a capture may assume of CaptureBackend::drain_core, whatever the   *)
(* size of the core: how its result relates to the core object the store   *)
(* ends up with.  CoreDrain is shown to stay within it and CaptureHandler  *)
(* is built on it.                                                         *)
(***************************************************************************)

Backends    == {"standalone", "discard"}
Results     == {"running", "ok", "err"}
\* The core object in the store: absent, an incomplete multipart upload
\* (billed, not listed), or complete.
ObjectState == {"none", "parts", "complete"}

\* Result and object one step on, for a drain that is still running and whose
\* object is in state obj.  An error says nothing about the object: an abort
\* may fail, and a complete call may have taken effect unanswered.
DrainStep(backend, obj) ==
  IF backend = "discard"
  THEN Results \X {obj}
  ELSE ({"running"} \X {obj, "parts"}) \cup {<<"ok", "complete">>} \cup ({"err"} \X ObjectState)
=============================================================================
