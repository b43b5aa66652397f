-------------------------------- MODULE Node --------------------------------
(***************************************************************************)
(* A release of the chart on one node: `helm install`, `upgrade` and       *)
(* `uninstall`, the DaemonSet's pod (init container, daemon, probes), the  *)
(* handlers the kernel starts, and the post-delete cleanup worker, over    *)
(* the files and the sysctl they share.  Where module Daemon follows one   *)
(* daemon call by call, this one follows the configuration from the values *)
(* of the release to the handler that has to use it.                       *)
(*                                                                         *)
(* The daemon is PID 1 of its container (flake.nix): a SIGTERM that comes  *)
(* before it registers its handler is ignored, and SIGKILL follows when    *)
(* the grace period ends.  Nothing orders the cleanup worker after the end *)
(* of the daemon's pod.                                                    *)
(***************************************************************************)
EXTENDS HandlerConfig

CONSTANTS Values,  \* the DaemonArgs releases are installed with
          MaxOps   \* bound: installs, upgrades, uninstalls, kills and reboots

ASSUME NodeAssumption == Values \subseteq DaemonArgs /\ MaxOps \in Nat

VARIABLES release,  \* the installed release's values, {} when there is none
          pod,      \* the values the node's pod was created with, {} for no pod
          pc,       \* the pod's next step, "down" when nothing of it runs
          term,     \* its deletion: "no", "sent" or "lost" on a daemon starting
          saved,    \* CorePatternGuard.prev_pattern
          pattern,  \* core_pattern: "orig", "core" or "ours"
          binary,   \* whether the handler is at hostBinDir
          file,     \* handler.json of each run directory
          others,   \* the other files of each run directory
          hook,     \* the cleanup worker: its next step and its hostRunDir
          running,  \* configs of the handlers running
          ops,
          late      \* history: an uninstall met a pod that was still starting

host == <<pattern, binary, file, others>>
vars == <<release, pod, pc, term, saved, host, hook, running, ops, late>>

Starting == {"install binary", "bind", "create tmp", "rename", "route", "register"}
Steps    == {"reset", "rm binary", "rm config", "rm socket", "rm recent", "done"}

Init ==
  /\ release = {} /\ pod = {} /\ pc = "down" /\ term = "no" /\ saved = "none"
  /\ pattern = "orig" /\ binary = FALSE
  /\ file = [d \in Dirs |-> {}] /\ others = [d \in Dirs |-> {}]
  /\ hook = [step |-> "done", dir |-> DefaultDir]
  /\ running = {} /\ ops = 0 /\ late = FALSE

Op == ops < MaxOps /\ ops' = ops + 1

Args    == CHOOSE a \in pod : TRUE
Config  == to_handler_config(Args)
ConfDir == env_path({Args.dir}, DefaultDir)   \* CAPTURE_CONFIG_PATH is set

----------------------------------------------------------------------------
\* Helm.  A new release is installed once the last one is gone.
Install(v) ==
  /\ release = {} /\ pod = {} /\ hook.step = "done"
  /\ Op
  /\ release' = {v}
  /\ UNCHANGED <<pod, pc, term, saved, host, hook, running, late>>

Upgrade(v) ==
  /\ release # {} /\ release # {v}
  /\ Op
  /\ release' = {v}
  /\ UNCHANGED <<pod, pc, term, saved, host, hook, running, late>>

Delete == term' = IF pc \in Starting THEN "lost" ELSE "sent"

\* Deleting the release deletes its pods; the hook's worker starts, cleaning
\* the directories of the values last installed.
Uninstall ==
  /\ release # {}
  /\ Op
  /\ release' = {}
  /\ hook' = [step |-> "reset", dir |-> (CHOOSE v \in release : TRUE).dir]
  /\ IF pod # {} /\ term = "no" THEN Delete ELSE UNCHANGED term
  /\ late' = (late \/ pc \in Starting \/ term' = "lost")
  /\ UNCHANGED <<pod, pc, saved, host, running>>

\* The DaemonSet controller replaces a pod of other values: delete, then create.
Rollout ==
  /\ release # {} /\ pod \notin {{}, release} /\ term = "no"
  /\ Delete
  /\ UNCHANGED <<release, pod, pc, saved, host, hook, running, ops, late>>

PodGone ==
  /\ pod # {} /\ pc = "down" /\ term # "no"
  /\ pod' = {} /\ term' = "no"
  /\ UNCHANGED <<release, pc, saved, host, hook, running, ops, late>>

CreatePod ==
  /\ release # {} /\ pod = {}
  /\ pod' = release /\ pc' = "install binary"
  /\ UNCHANGED <<release, term, saved, host, hook, running, ops, late>>

RestartWithoutConfig ==  \* plausible bug: the config is taken to be in place
  /\ pod # {} /\ pc = "down" /\ term = "no"
  /\ pc' = "route"
  /\ UNCHANGED <<release, pod, term, saved, host, hook, running, ops, late>>

\* A container that exits is started again, without the init container.
Restart ==
  /\ pod # {} /\ pc = "down" /\ term = "no"
  /\ pc' = "bind"
  /\ UNCHANGED <<release, pod, term, saved, host, hook, running, ops, late>>

----------------------------------------------------------------------------
\* The init container; the daemon of a deleted pod is not started any more.
InstallBinary ==
  /\ pc = "install binary"
  /\ binary' = TRUE
  /\ pc' = IF term = "no" THEN "bind" ELSE "down"
  /\ UNCHANGED <<release, pod, term, saved, pattern, file, others, hook, running, ops, late>>

\* run_daemon: the socket, the config (a temp file, renamed), core_pattern.
Bind ==
  /\ pc = "bind"
  /\ others' = [others EXCEPT ![ConfDir] = @ \cup {"events.sock"}]
  /\ pc' = "create tmp"
  /\ UNCHANGED <<release, pod, term, saved, pattern, binary, file, hook, running, ops, late>>

CreateTmp ==
  /\ pc = "create tmp"
  /\ others' = [others EXCEPT ![ConfDir] = @ \cup {"handler.json.tmp"}]
  /\ pc' = "rename"
  /\ UNCHANGED <<release, pod, term, saved, pattern, binary, file, hook, running, ops, late>>

RenameKeepsOld ==  \* plausible bug: a config that is there is kept
  /\ pc = "rename"
  /\ file' = [file EXCEPT ![ConfDir] = IF @ = {} THEN {Config} ELSE @]
  /\ others' = [others EXCEPT ![ConfDir] = @ \ {"handler.json.tmp"}]
  /\ pc' = "route"
  /\ UNCHANGED <<release, pod, term, saved, pattern, binary, hook, running, ops, late>>

\* The daemon writes its config without validating it.
Rename ==
  /\ pc = "rename"
  /\ file' = [file EXCEPT ![ConfDir] = {Config}]
  /\ others' = [others EXCEPT ![ConfDir] = @ \ {"handler.json.tmp"}]
  /\ pc' = "route"
  /\ UNCHANGED <<release, pod, term, saved, pattern, binary, hook, running, ops, late>>

\* CorePatternGuard::install_at.
Route ==
  /\ pc = "route"
  /\ saved' = IF pattern = "ours" THEN "core" ELSE pattern
  /\ pattern' = "ours"
  /\ pc' = "register"
  /\ UNCHANGED <<release, pod, term, binary, file, others, hook, running, ops, late>>

Register ==
  /\ pc = "register"
  /\ pc' = "serve"
  /\ UNCHANGED <<release, pod, term, saved, host, hook, running, ops, late>>

\* health::check, run in the daemon's container.
Healthy ==
  /\ pattern = "ours"
  /\ \E c \in read(file[ConfDir]) : "events.sock" \in others[c.dir]

\* SIGTERM, of a deletion or of a failing liveness probe: the guard restores.
Stop ==
  /\ pc = "serve"
  /\ term = "sent" \/ (term = "no" /\ ~Healthy)
  /\ pattern' = saved /\ saved' = "none"
  /\ pc' = "down"
  /\ UNCHANGED <<release, pod, term, binary, file, others, hook, running, ops, late>>

Killed ==
  /\ pc' = "down" /\ saved' = "none"
  /\ UNCHANGED <<release, pod, term, host, hook, running, late>>

GraceEnds == pc # "down" /\ term = "lost" /\ Killed /\ UNCHANGED ops

Kill == pc \notin {"down", "install binary"} /\ Op /\ Killed

\* The default run directory is on a tmpfs; the pod starts from its beginning.
Reboot ==
  /\ hook.step = "done"
  /\ Op
  /\ pc' = IF pod # {} /\ term = "no" THEN "install binary" ELSE "down"
  /\ saved' = "none" /\ pattern' = "orig" /\ running' = {}
  /\ file' = [file EXCEPT ![DefaultDir] = {}]
  /\ others' = [others EXCEPT ![DefaultDir] = {}]
  /\ UNCHANGED <<release, pod, term, binary, hook, late>>

----------------------------------------------------------------------------
\* main, `coredrop capture`: the config of a handler the kernel starts now.
HandlerConf == unwrap_or_default(read(file[env_path({}, DefaultDir)]))

\* What becomes of a crash: the config of its handler, {} when none is started.
CrashUses == IF pattern = "ours" /\ binary THEN {HandlerConf} ELSE {}

Crash ==
  /\ CrashUses # {} /\ running = {}
  /\ running' = CrashUses
  /\ UNCHANGED <<release, pod, pc, term, saved, host, hook, ops, late>>

\* The handler consults the budget when it has a store, creating the state file
\* and its directory, and ends.
HandlerEnds(c) ==
  /\ c \in running
  /\ others' = [others EXCEPT ![c.dir] =
                  IF object_store(c) = {} THEN @ ELSE @ \cup {"recent.json"}]
  /\ running' = running \ {c}
  /\ UNCHANGED <<release, pod, pc, term, saved, pattern, binary, file, hook, ops, late>>

----------------------------------------------------------------------------
\* The worker's script.
HookReset ==
  /\ hook.step = "reset"
  /\ pattern' = IF pattern = "ours" THEN "core" ELSE pattern
  /\ hook' = [hook EXCEPT !.step = "rm binary"]
  /\ UNCHANGED <<binary, file, others>>

HookRemoves ==
  \/ /\ hook.step = "rm binary"
     /\ binary' = FALSE
     /\ hook' = [hook EXCEPT !.step = "rm config"]
     /\ UNCHANGED <<pattern, file, others>>
  \/ /\ hook.step = "rm config"
     /\ file' = [file EXCEPT ![hook.dir] = {}]
     /\ hook' = [hook EXCEPT !.step = "rm socket"]
     /\ UNCHANGED <<pattern, binary, others>>
  \/ /\ hook.step = "rm socket"
     /\ others' = [others EXCEPT ![hook.dir] = @ \ {"events.sock"}]
     /\ hook' = [hook EXCEPT !.step = "rm recent"]
     /\ UNCHANGED <<pattern, binary, file>>
  \/ /\ hook.step = "rm recent"
     /\ others' = [others EXCEPT ![hook.dir] = @ \ {"recent.json"}]
     /\ hook' = [hook EXCEPT !.step = "done"]
     /\ UNCHANGED <<pattern, binary, file>>

HookBinaryFirst ==  \* plausible bug: the files go before the route
  /\ hook.step \in {"reset", "rm binary"}
  /\ binary' = IF hook.step = "reset" THEN FALSE ELSE binary
  /\ pattern' = IF hook.step = "rm binary" /\ pattern = "ours" THEN "core" ELSE pattern
  /\ hook' = [hook EXCEPT !.step = IF @ = "reset" THEN "rm binary" ELSE "rm config"]
  /\ UNCHANGED <<file, others, release, pod, pc, term, saved, running, ops, late>>

HookNoReset ==  \* plausible bug: the route a killed daemon left is left
  /\ (hook.step = "reset" /\ hook' = [hook EXCEPT !.step = "rm binary"] /\ UNCHANGED host)
     \/ HookRemoves
  /\ UNCHANGED <<release, pod, pc, term, saved, running, ops, late>>

Hook ==
  /\ HookReset \/ HookRemoves
  /\ UNCHANGED <<release, pod, pc, term, saved, running, ops, late>>

DaemonStep == InstallBinary \/ Bind \/ CreateTmp \/ Rename \/ Route \/ Register \/ Stop

Next ==
  \/ \E v \in Values : Install(v) \/ Upgrade(v)
  \/ Uninstall \/ Rollout \/ PodGone \/ CreatePod \/ Restart
  \/ DaemonStep \/ GraceEnds \/ Kill \/ Reboot
  \/ Crash \/ (\E c \in running : HandlerEnds(c))
  \/ Hook

Spec == Init /\ [][Next]_vars

\* The controller, the kubelet, the daemon and the worker go on; crashes,
\* handlers, operators, kills and reboots come as they please.
FairSpec ==
  /\ Spec
  /\ WF_vars(Rollout) /\ WF_vars(PodGone) /\ WF_vars(CreatePod) /\ WF_vars(Restart)
  /\ WF_vars(DaemonStep) /\ WF_vars(GraceEnds) /\ WF_vars(Hook)

----------------------------------------------------------------------------
TypeOK ==
  /\ {release, pod} \subseteq {{}} \cup {{v} : v \in Values}
  /\ pc \in Starting \cup {"serve", "down"} /\ term \in {"no", "sent", "lost"}
  /\ (pc # "down" \/ term # "no") => pod # {}
  /\ saved \in {"orig", "core", "none"} /\ pattern \in {"orig", "core", "ours"}
  /\ (pc \in {"register", "serve"}) = (saved # "none")
  /\ {binary, late} \subseteq BOOLEAN
  /\ \A d \in Dirs : /\ Cardinality(file[d]) <= 1
                     /\ others[d] \subseteq {"events.sock", "handler.json.tmp", "recent.json"}
  /\ hook.step \in Steps /\ hook.dir \in Dirs
  /\ ops \in 0..MaxOps

\* The pod is Ready, not being deleted, and its daemon has come up.
Ready == pc = "serve" /\ term = "no" /\ Healthy

(* health::check and main: a daemon that serves and passes its probe has written
   a valid config, and, in the default run directory, every crash is handed to a
   handler that uses exactly the config this daemon's values spell out, whatever
   earlier releases, kills and reboots left on the node.                     *)
ReadyUsesConfig ==
  Ready => /\ Args.absolute /\ Args.store_url \subseteq {"empty", "s3", "gs", "az"}
           /\ Args.dir = DefaultDir => CrashUses = {Config}

(* config.rs and upload.rs, together: such a handler has an object store exactly
   when the values name a supported one and the daemon's environment holds what
   its client needs: forwarding, reading back and building lose nothing.     *)
StoreAsConfigured ==
  Ready /\ Args.dir = DefaultDir =>
    ((\E c \in CrashUses : object_store(c) # {}) <=>
       \/ Args.store_url \cap {"s3", "gs"} # {}
       \/ "az" \in Args.store_url /\ "AZURE_STORAGE_ACCOUNT_NAME" \in Args.env)

(* The cleanup worker: "This runs before the binary is removed, so no crash is
   routed to a missing handler", through upgrades, kills, reboots and an
   uninstall that overlaps the daemon's own shutdown; a daemon still starting
   when the release is removed (late) can route after the worker's reset.    *)
RoutedHasBinary == ~late /\ pattern = "ours" => binary

(* The chart's README on uninstall: once the pod is gone and the worker is done,
   no route, binary, config or socket of the release is left, however its daemon
   ended; a pod still starting (late) may write them after the worker.       *)
UninstallClean ==
  release = {} /\ pod = {} /\ hook.step = "done" /\ ~late =>
    /\ pattern # "ours" /\ ~binary
    /\ file[hook.dir] = {} /\ "events.sock" \notin others[hook.dir]

(* The DaemonSet: once operators, kills and reboots pause, a valid release is
   served by a ready daemon of its own values, and of a removed one no pod is
   left and the worker has finished.                                         *)
Settles ==
  <>[](IF release = {} THEN pod = {} /\ hook.step = "done"
       ELSE \A v \in release : validate(to_handler_config(v)) => pod = release /\ Ready)

(* values.yaml, corePattern: the handler "reads the hostRunDir config file the
   daemon wrote, not env vars", whatever directory hostRunDir names.         *)
HandlerReadsRunDir == Ready => \A c \in CrashUses : c = Config
=============================================================================
