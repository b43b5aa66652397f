------------------------------- MODULE Daemon -------------------------------
(***************************************************************************)
(* The life of the daemon (run_daemon, src/src/main.rs) against the node's *)
(* state it shares with the kernel, with handlers and with other agents:   *)
(* core_pattern and core_pipe_limit, handler.json and the event socket.    *)
(* Every system call is a step, so that a fault can fall between any two.  *)
(*                                                                         *)
(* The kubelet restarts a daemon that exits and stops one whose probe      *)
(* (health::check) fails; Faults says what else may happen to it:          *)
(*   "kill"   SIGKILL or OOM           "stop"  SIGTERM from an upgrade     *)
(*   "drift"  another agent rewrites core_pattern                          *)
(*   "wipe"   the run directory is emptied       "io"  a system call fails *)
(***************************************************************************)
EXTENDS Naturals, FiniteSets

CONSTANTS Paths,      \* handler paths a daemon may be started with
          Faults,     \* the kinds of fault that happen
          MaxFaults   \* bound: faults in one behaviour

ASSUME DaemonAssumption ==
  /\ Faults \subseteq {"kill", "stop", "drift", "wipe", "io"}
  /\ MaxFaults \in Nat
  /\ Paths \cap {"orig", "core", "other", "none"} = {}

VARIABLES pattern,  \* core_pattern: "orig", "core", "other" or a handler's path
          limit,    \* core_pipe_limit: "orig" or "ours"
          config,   \* handler.json: "none", "partial", "whole", or "wiped" away
          tmp,      \* handler.json.tmp: "none", "partial" or "whole"
          socket,   \* events.sock: "none", "stale" (no one reads) or "bound"
          pc,       \* the daemon's next system call, "down" when it is not running
          path,     \* its --handler-path
          saved,    \* CorePatternGuard: prev_pattern and prev_pipe_limit
          term,     \* SIGTERM: "no", "sent", or "lost" on a daemon still starting
          faults,   \* faults so far
          last,     \* history: how the last daemon ended
          orphaned  \* history: a daemon ended without having restored both
                    \* sysctls or could not read one to save it, or another
                    \* agent overwrote one

vars == <<pattern, limit, config, tmp, socket, pc, path, saved, term, faults, last, orphaned>>
node == <<pattern, limit, config, tmp, socket>>

Starting == {"unlink", "bind", "remove tmp", "create tmp", "write tmp", "rename",
             "save", "install", "raise limit"}
Running  == Starting \cup {"register", "serve", "restore", "restore limit"}

NoneSaved == [pattern |-> "none", limit |-> "none"]

Init ==
  /\ pattern = "orig" /\ limit = "orig"
  /\ config = "none" /\ tmp = "none" /\ socket = "none"
  /\ pc = "down" /\ path \in Paths /\ saved = NoneSaved
  /\ term = "no" /\ faults = 0 /\ last = "none" /\ orphaned = FALSE

Goto(label) == pc' = label

Fault(kind) ==
  /\ kind \in Faults
  /\ faults < MaxFaults
  /\ faults' = faults + 1

\* The process is gone: its descriptors close, the socket file stays.
Exit(how) ==
  /\ pc' = "down"
  /\ socket' = IF socket = "bound" THEN "stale" ELSE socket
  /\ saved' = NoneSaved
  /\ term' = "no"
  /\ last' = how
  /\ orphaned' = (orphaned \/ pattern \in Paths \/ limit' = "ours")

----------------------------------------------------------------------------
Start ==
  /\ pc = "down"
  /\ Goto("unlink")
  /\ path' \in Paths
  /\ UNCHANGED <<node, saved, term, faults, last, orphaned>>

\* bind_socket: remove a stale file, then bind.
Unlink ==
  /\ pc = "unlink"
  /\ socket' = "none"
  /\ Goto("bind")
  /\ UNCHANGED <<pattern, limit, config, tmp, path, saved, term, faults, last, orphaned>>

Bind ==
  /\ pc = "bind"
  /\ socket' = "bound"
  /\ Goto("remove tmp")
  /\ UNCHANGED <<pattern, limit, config, tmp, path, saved, term, faults, last, orphaned>>

\* Plausible bug: handler.json is written in place.
WriteTmpInPlace ==
  \/ /\ pc = "remove tmp" /\ tmp' = "none" /\ Goto("create tmp") /\ UNCHANGED config
  \/ /\ pc = "create tmp" /\ config' = "partial" /\ Goto("write tmp") /\ UNCHANGED tmp
  \/ /\ pc = "write tmp" /\ config' = "whole" /\ tmp' = "whole" /\ Goto("rename")

\* HandlerConfig::write: a new temp file is written, synced and renamed.
WriteTmp ==
  \/ /\ pc = "remove tmp" /\ tmp' = "none" /\ Goto("create tmp") /\ UNCHANGED config
  \/ /\ pc = "create tmp" /\ tmp' = "partial" /\ Goto("write tmp") /\ UNCHANGED config
  \/ /\ pc = "write tmp" /\ Goto("rename") /\ UNCHANGED config
     /\ tmp' = IF tmp = "none" THEN "none" ELSE "whole"   \* none: unlinked meanwhile

\* A wiped directory makes the rename fail, and the daemon exits.
Rename ==
  /\ pc = "rename"
  /\ tmp # "none"
  /\ config' = tmp /\ tmp' = "none"
  /\ Goto("save")

WriteConfig ==
  /\ WriteTmp \/ Rename
  /\ UNCHANGED <<pattern, limit, socket, path, saved, term, faults, last, orphaned>>

\* Plausible bugs: our own pattern, left by a kill, is saved to be restored;
\* the default is always restored.
SavedPatternAsRead  == pattern
SavedPatternDefault == "core"

\* The pattern to restore: the kernel's default when ours was left behind.
SavedPattern == IF pattern = path THEN "core" ELSE pattern

\* CorePatternGuard::install_at.
SavePrevious ==
  /\ pc = "save"
  /\ \/ /\ saved' = [pattern |-> SavedPattern, limit |-> limit]
        /\ UNCHANGED <<faults, orphaned>>
     \/ /\ Fault("io")      \* an unreadable core_pipe_limit is not restored
        /\ saved' = [pattern |-> SavedPattern, limit |-> "none"]
        /\ orphaned' = TRUE
  /\ Goto("install")
  /\ UNCHANGED <<node, path, term, last>>

Install ==
  /\ pc = "install"
  /\ pattern' = path
  /\ Goto("raise limit")
  /\ UNCHANGED <<limit, config, tmp, socket, path, saved, term, faults, last, orphaned>>

\* A failed core_pipe_limit write only warns.
RaiseLimit ==
  /\ pc = "raise limit"
  /\ \/ limit' = "ours" /\ UNCHANGED faults
     \/ Fault("io") /\ UNCHANGED limit
  /\ Goto("register")
  /\ UNCHANGED <<pattern, config, tmp, socket, path, saved, term, last, orphaned>>

\* shutdown_signal installs the handlers; if it cannot, the guard drops.
Register ==
  /\ pc = "register"
  /\ \/ Goto("serve") /\ UNCHANGED faults
     \/ Fault("io") /\ Goto("restore")
  /\ UNCHANGED <<node, path, saved, term, last, orphaned>>

\* SIGTERM or SIGINT wakes the daemon, and the guard drops.
Wake ==
  /\ pc = "serve" /\ term = "sent"
  /\ Goto("restore")
  /\ UNCHANGED <<node, path, saved, term, faults, last, orphaned>>

\* CorePatternGuard::restore; its errors are only logged.
RestorePattern ==
  /\ pc = "restore"
  /\ \/ pattern' = saved.pattern /\ last' = "stopped" /\ UNCHANGED faults
     \/ Fault("io") /\ UNCHANGED pattern /\ last' = "failed restore"
  /\ Goto("restore limit")
  /\ UNCHANGED <<limit, config, tmp, socket, path, saved, term, orphaned>>

RestoreLimit ==
  /\ pc = "restore limit"
  /\ \/ limit' = (IF saved.limit = "none" THEN limit ELSE saved.limit) /\ UNCHANGED faults
     \/ Fault("io") /\ UNCHANGED limit
  /\ Exit(last)
  /\ UNCHANGED <<pattern, config, tmp, path>>

\* Any other call of the startup fails, or the temp file is gone.
StartupError ==
  /\ pc \in Starting \ {"unlink", "raise limit"}
  /\ IF pc = "rename" /\ tmp = "none" THEN UNCHANGED faults ELSE Fault("io")
  /\ UNCHANGED <<pattern, limit, config, tmp, path>>
  /\ Exit("failed")

----------------------------------------------------------------------------
Kill ==
  /\ pc \in Running
  /\ Fault("kill")
  /\ UNCHANGED <<pattern, limit, config, tmp, path>>
  /\ Exit("killed")

\* Before its handler is registered SIGTERM ends the process on the spot, or is
\* ignored when the process is PID 1 of its container.
Terminate ==
  \/ /\ pc \in Starting \cup {"register"}
     /\ UNCHANGED <<pattern, limit, config, tmp, path>>
     /\ Exit("terminated")
  \/ /\ term' = IF pc \in Starting \cup {"register"} THEN "lost" ELSE "sent"
     /\ UNCHANGED <<node, pc, path, saved, last, orphaned>>

Stop == pc \in Running /\ term = "no" /\ Fault("stop") /\ Terminate

\* SIGKILL, when the grace period of an ignored SIGTERM is over.
GraceEnds ==
  /\ pc \in Running /\ term = "lost"
  /\ UNCHANGED <<pattern, limit, config, tmp, path, faults>>
  /\ Exit("killed")

\* HandlerConfig::read: missing, cut short and invalid all count as no config.
ConfigReads == config = "whole"

\* Plausible bug: the probe does not look at the socket.
HealthyWithoutSocket == pattern = path /\ ConfigReads

\* health::check.
Healthy == pattern = path /\ ConfigReads /\ socket # "none"

\* The kubelet stops a daemon whose liveness probe keeps failing.
ProbeFails ==
  /\ pc = "serve" /\ term = "no" /\ ~Healthy
  /\ Terminate
  /\ UNCHANGED faults

Drift ==
  /\ Fault("drift")
  /\ pattern' = "other"
  /\ orphaned' = TRUE
  /\ UNCHANGED <<limit, config, tmp, socket, pc, path, saved, term, last>>

Wipe ==
  /\ Fault("wipe")
  /\ config' = (IF config = "none" THEN "none" ELSE "wiped")
  /\ tmp' = "none" /\ socket' = "none"
  /\ UNCHANGED <<pattern, limit, pc, path, saved, term, last, orphaned>>

Step ==
  \/ Unlink \/ Bind \/ WriteConfig \/ SavePrevious \/ Install \/ RaiseLimit \/ Register
  \/ Wake \/ RestorePattern \/ RestoreLimit \/ StartupError

Next == Start \/ Step \/ Kill \/ Stop \/ GraceEnds \/ ProbeFails \/ Drift \/ Wipe

Spec == Init /\ [][Next]_vars

\* The kubelet restarts the container, acts on its probe and ends the grace
\* period; the process runs.
FairSpec == /\ Spec
            /\ WF_vars(Start) /\ WF_vars(Step)
            /\ WF_vars(ProbeFails) /\ WF_vars(GraceEnds)

----------------------------------------------------------------------------
FileState == {"none", "partial", "whole"}

TypeOK ==
  /\ pattern \in Paths \cup {"orig", "core", "other"}
  /\ limit \in {"orig", "ours"}
  /\ config \in FileState \cup {"wiped"} /\ tmp \in FileState
  /\ socket \in {"none", "stale", "bound"}
  /\ pc \in Running \cup {"down"}
  /\ path \in Paths
  /\ saved \in [pattern : Paths \cup {"orig", "core", "other", "none"},
                limit : {"orig", "ours", "none"}]
  /\ term \in {"no", "sent", "lost"} /\ orphaned \in BOOLEAN /\ faults \in 0..MaxFaults
  /\ last \in {"none", "stopped", "failed", "failed restore", "killed", "terminated"}

\* The kernel hands crashes to a handler of ours.
Routed == pattern \in Paths

(* config.rs, write: "A handler that starts while the daemon writes must see the
   old file or the new one, never a half-written one".                       *)
ConfigNeverPartial == config # "partial"

(* run_daemon's order of startup: once the kernel routes crashes to the handler,
   the handler finds its whole config, through kills, restarts, failed startups
   and failed restores, unless somebody emptied the run directory.           *)
RoutedIsConfigured == Routed => config \in {"whole", "wiped"}

(* core_pattern.rs: a daemon that stops in order leaves the kernel routing to no
   handler of this daemon's path, whatever earlier daemons left behind.      *)
StopUnroutes == pc = "down" /\ last = "stopped" => pattern # path

(* README.md, Restore on shutdown: the node's original sysctls are always held by
   the kernel or by the running daemon's guard, and so restored when it stops,
   until a daemon cannot save them, ends without its restore, or another agent
   interferes.                                                               *)
OriginalKept ==
  ~orphaned => "orig" \in {pattern, saved.pattern} /\ "orig" \in {limit, saved.limit}

\* The capture path is up.
Active == pc = "serve" /\ pattern = path /\ ConfigReads /\ socket = "bound"

(* The chart's README, Health: whatever drifts is noticed by the probe and put
   right by the restart, and whatever fails at startup is retried: once faults
   stop the capture path comes up and stays up.                              *)
Repaired == <>[]Active

(* README.md: "the daemon restores the node's original `core_pattern` and
   `core_pipe_limit` when it stops", after a kill too.                       *)
LimitRestored == pc = "down" /\ last = "stopped" => limit = "orig"
=============================================================================
