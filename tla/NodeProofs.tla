----------------------------- MODULE NodeProofs -----------------------------
(***************************************************************************)
(* Proof about module Node, for any values a release may have and any      *)
(* number of installs, upgrades, uninstalls, kills and reboots: what a     *)
(* passing probe says of the config a handler uses, that crashes are never *)
(* routed to a missing binary, and what an uninstall leaves.               *)
(***************************************************************************)
EXTENDS Node, TLAPS

\* At most one value, one of those a release may have.
Option(x) == x = {} \/ \E v \in Values : x = {v}

\* Who is there: a pod that is not being deleted belongs to a release, and the
\* worker only runs when there is none.
PodInv ==
  /\ Option(release) /\ Option(pod)
  /\ pod = {} => pc = "down" /\ term = "no"
  /\ release = {} => pod = {} \/ term # "no"
  /\ hook.step # "done" => release = {}

\* What such a pod has put on the node, from the step that puts it there on.
HostInv ==
  /\ DOMAIN file = Dirs
  /\ term = "no" => \A v \in pod :
       /\ pc # "install binary" => binary
       /\ pc \in {"route", "register", "serve"} => file[v.dir] = {to_handler_config(v)}

IInv == PodInv /\ HostInv

(* The pod's args are the values it was created with, and the daemon and its
   probe look into their run directory.                                      *)
LEMMA PodArgs ==
  ASSUME NEW v \in Values, pod = {v}
  PROVE  Args = v /\ ConfDir = v.dir /\ Config = to_handler_config(v) /\ v.dir \in Dirs
<1>1. Args = v
  BY DEF Args
<1>2. ConfDir = v.dir
  BY <1>1 DEF ConfDir, env_path
<1>3. Config = to_handler_config(v)
  BY <1>1 DEF Config
<1>4. v.dir \in Dirs
  BY NodeAssumption DEF NodeAssumption, DaemonArgs
<1> QED
  BY <1>1, <1>2, <1>3, <1>4

(* A node on which nothing was installed satisfies the invariant.            *)
LEMMA InitIInv == Init => IInv
BY DEF Init, IInv, PodInv, HostInv, Option

(* Operators, the controller, the daemon, the worker, handlers and reboots keep
   the account of who is there.                                              *)
LEMMA PodStep == PodInv /\ [Next]_vars => PodInv'
<1> SUFFICES ASSUME PodInv, [Next]_vars PROVE PodInv'
  OBVIOUS
<1> USE DEF PodInv, Option, host
<1>1. ASSUME NEW v \in Values, Install(v) PROVE PodInv'
  BY <1>1 DEF Install
<1>2. ASSUME NEW v \in Values, Upgrade(v) PROVE PodInv'
  BY <1>2 DEF Upgrade
<1>3. CASE Uninstall
  BY <1>3 DEF Uninstall, Delete
<1>4. CASE Rollout
  BY <1>4 DEF Rollout, Delete
<1>5. CASE PodGone
  BY <1>5 DEF PodGone
<1>6. CASE CreatePod
  BY <1>6 DEF CreatePod
<1>7. CASE Restart
  BY <1>7 DEF Restart
<1>8. CASE DaemonStep
  BY <1>8 DEF DaemonStep, InstallBinary, Bind, CreateTmp, Rename, Route, Register, Stop
<1>9. CASE GraceEnds \/ Kill
  BY <1>9 DEF GraceEnds, Kill, Killed
<1>10. CASE Reboot
  BY <1>10 DEF Reboot
<1>11. CASE Crash \/ \E c \in running : HandlerEnds(c)
  BY <1>11 DEF Crash, HandlerEnds
<1>12. CASE Hook
  BY <1>12 DEF Hook, HookReset, HookRemoves
<1>13. CASE UNCHANGED vars
  BY <1>13 DEF vars
<1> QED
  BY <1>1, <1>2, <1>3, <1>4, <1>5, <1>6, <1>7, <1>8, <1>9, <1>10, <1>11, <1>12, <1>13
  DEF Next

(* The same steps keep what a pod that is not being deleted has put on the node:
   only its own daemon writes its config, and only the worker removes files.  *)
LEMMA HostStep == IInv /\ [Next]_vars => HostInv'
<1> SUFFICES ASSUME IInv, [Next]_vars PROVE HostInv'
  OBVIOUS
<1> USE DEF IInv, PodInv, HostInv, Option, host
<1> DEFINE SameHost == UNCHANGED <<pod, term, binary, file>>
<1>1. ASSUME SameHost, UNCHANGED pc PROVE HostInv'
  BY <1>1
<1>2. ASSUME SameHost, pc' \notin {"register", "serve", "route"}, pc # "install binary"
      PROVE  HostInv'
  BY <1>2
<1>3. ASSUME NEW v \in Values, Install(v) \/ Upgrade(v) PROVE HostInv'
  BY <1>1, <1>3 DEF Install, Upgrade
<1>4. CASE Uninstall
  BY <1>4 DEF Uninstall, Delete
<1>5. CASE Rollout \/ PodGone
  BY <1>5 DEF Rollout, PodGone, Delete
<1>6. CASE CreatePod
  BY <1>6 DEF CreatePod
<1>7. CASE Restart \/ Bind \/ CreateTmp \/ Stop \/ Crash \/ \E c \in running : HandlerEnds(c)
  BY <1>1, <1>2, <1>7 DEF Restart, Bind, CreateTmp, Stop, Crash, HandlerEnds
<1>8. CASE InstallBinary
  BY <1>8 DEF InstallBinary
<1>9. CASE Rename
  <2>1. PICK v \in Values : pod = {v}
    BY <1>9 DEF Rename
  <2>2. file' = [file EXCEPT ![v.dir] = {to_handler_config(v)}] /\ v.dir \in Dirs
    BY <1>9, <2>1, PodArgs DEF Rename
  <2>3. UNCHANGED <<pod, term, binary>> /\ pc = "rename"
    BY <1>9 DEF Rename
  <2> QED
    BY <2>1, <2>2, <2>3
<1>10. CASE Route
  BY <1>10 DEF Route
<1>11. CASE Register
  BY <1>11 DEF Register
<1>12. CASE GraceEnds
  BY <1>12 DEF GraceEnds, Killed
<1>13. CASE Kill
  BY <1>2, <1>13 DEF Kill, Killed
<1>14. CASE Reboot
  BY <1>14 DEF Reboot
<1>15. CASE Hook
  <2>1. release = {} /\ (pod = {} \/ term # "no")
    BY <1>15 DEF Hook, HookReset, HookRemoves
  <2>2. UNCHANGED <<pod, pc, term>> /\ DOMAIN file' = Dirs
    BY <1>15 DEF Hook, HookReset, HookRemoves
  <2> QED
    BY <2>1, <2>2
<1>16. CASE UNCHANGED vars
  BY <1>1, <1>16 DEF vars
<1> QED
  BY <1>3, <1>4, <1>5, <1>6, <1>7, <1>8, <1>9, <1>10, <1>11, <1>12, <1>13, <1>14,
     <1>15, <1>16 DEF Next, DaemonStep

(* health::check and main: for any values, a daemon that serves and passes its
   probe has written a valid config, and in the default run directory the next
   crash is handed to a handler that uses exactly that config.               *)
THEOREM ProbeIsHonest == Spec => []ReadyUsesConfig
<1>1. IInv => ReadyUsesConfig
  <2> SUFFICES ASSUME IInv, Ready PROVE
        /\ Args.absolute /\ Args.store_url \subseteq {"empty", "s3", "gs", "az"}
        /\ Args.dir = DefaultDir => CrashUses = {Config}
    BY DEF ReadyUsesConfig
  <2>1. PICK v \in Values : pod = {v}
    BY DEF IInv, PodInv, Option, Ready
  <2>2. Args = v /\ ConfDir = v.dir /\ Config = to_handler_config(v)
    BY <2>1, PodArgs
  <2>3. binary /\ file[v.dir] = {Config} /\ pattern = "ours"
    BY <2>1, <2>2 DEF IInv, HostInv, Ready, Healthy
  <2>4. validate(Config) /\ read({Config}) = {Config}
    BY <2>2, <2>3 DEF Ready, Healthy, read
  <2>5. v.absolute /\ v.store_url \subseteq {"empty", "s3", "gs", "az"}
    BY <2>2, <2>4 DEF validate, to_handler_config
  <2>6. ASSUME v.dir = DefaultDir PROVE CrashUses = {Config}
    <3>1. HandlerConf = unwrap_or_default({Config})
      BY <2>3, <2>4, <2>6 DEF HandlerConf, env_path
    <3>2. unwrap_or_default({Config}) = Config
      BY DEF unwrap_or_default
    <3> QED
      BY <2>3, <3>1, <3>2 DEF CrashUses
  <2> QED
    BY <2>2, <2>5, <2>6
<1> QED
  BY <1>1, InitIInv, PodStep, HostStep, PTL DEF Spec, IInv

(* config.rs and upload.rs: for any values, the handler a crash is then handed to
   has an object store exactly when the values name one and the environment has
   what its client needs: the way through the config file loses nothing.     *)
THEOREM ConfiguredStoreIsUsed == Spec => []StoreAsConfigured
<1>1. ReadyUsesConfig => StoreAsConfigured
  <2> SUFFICES ASSUME ReadyUsesConfig, Ready, Args.dir = DefaultDir
               PROVE  (\E c \in CrashUses : object_store(c) # {}) <=>
                        \/ Args.store_url \cap {"s3", "gs"} # {}
                        \/ /\ "az" \in Args.store_url
                           /\ "AZURE_STORAGE_ACCOUNT_NAME" \in Args.env
    BY DEF StoreAsConfigured
  <2>1. CrashUses = {Config} /\ Args.store_url \subseteq {"empty", "s3", "gs", "az"}
    BY DEF ReadyUsesConfig
  <2>2. /\ Config.store_url = Args.store_url \ {"empty"}
        /\ "AZURE_STORAGE_ACCOUNT_NAME" \in Config.store_options
             <=> "AZURE_STORAGE_ACCOUNT_NAME" \in Args.env
    BY DEF Config, to_handler_config, store_options_from_env, ALLOWED_STORE_OPTS
  <2>3. object_store(Config) = {url \in Config.store_url :
          /\ url \in {"s3", "gs", "az", "memory"}
          /\ url = "az" => "AZURE_STORAGE_ACCOUNT_NAME" \in Config.store_options}
    BY DEF object_store, Needs
  <2>4. object_store(Config) # {} <=>
          \/ Args.store_url \cap {"s3", "gs"} # {}
          \/ "az" \in Args.store_url /\ "AZURE_STORAGE_ACCOUNT_NAME" \in Args.env
    BY <2>1, <2>2, <2>3
  <2> QED
    BY <2>1, <2>4
<1> QED
  BY <1>1, ProbeIsHonest, PTL

----------------------------------------------------------------------------
\* What the worker has removed so far of a release that is gone.
Removed ==
  /\ hook.step # "reset" => pattern # "ours"
  /\ hook.step \notin {"reset", "rm binary"} => ~binary
  /\ hook.step \notin {"reset", "rm binary", "rm config"} => file[hook.dir] = {}
  /\ hook.step \in {"rm recent", "done"} => "events.sock" \notin others[hook.dir]

HookShape ==
  /\ hook \in [step : Steps, dir : Dirs]
  /\ DOMAIN others = Dirs
  /\ saved # "ours"

\* Unless an uninstall met a starting pod, nothing starts without a release, and
\* whoever starts, or is routed to, finds the binary.
CleanInv ==
  /\ HookShape
  /\ ~late => /\ release = {} => pc \notin Starting /\ Removed
              /\ pc \in Starting \ {"install binary"} => binary
              /\ pattern = "ours" => binary

(* A guard never saves the daemon's own pattern, and the worker works on one run
   directory of a release.                                                   *)
LEMMA HookShapeStep == IInv /\ HookShape /\ [Next]_vars => HookShape'
<1> SUFFICES ASSUME IInv, HookShape, [Next]_vars PROVE HookShape'
  OBVIOUS
<1> USE DEF HookShape, host
<1>1. ASSUME UNCHANGED <<hook, saved>>, DOMAIN others' = DOMAIN others PROVE HookShape'
  BY <1>1
<1>2. ASSUME NEW v \in Values, Install(v) \/ Upgrade(v) PROVE HookShape'
  BY <1>1, <1>2 DEF Install, Upgrade
<1>3. CASE Uninstall
  <2>1. PICK v \in Values : release = {v}
    BY <1>3 DEF Uninstall, IInv, PodInv, Option
  <2>2. (CHOOSE w \in release : TRUE) = v
    BY <2>1
  <2>3. v.dir \in Dirs
    BY NodeAssumption DEF NodeAssumption, DaemonArgs
  <2>4. hook' = [step |-> "reset", dir |-> v.dir] /\ UNCHANGED <<saved, others>>
    BY <1>3, <2>2 DEF Uninstall
  <2> QED
    BY <2>3, <2>4 DEF Steps
<1>4. CASE Rollout \/ PodGone \/ CreatePod \/ Restart \/ Crash
  BY <1>1, <1>4 DEF Rollout, PodGone, CreatePod, Restart, Crash
<1>5. CASE InstallBinary \/ Bind \/ CreateTmp \/ Rename \/ Register
  BY <1>1, <1>5 DEF InstallBinary, Bind, CreateTmp, Rename, Register
<1>6. CASE Route \/ Stop \/ GraceEnds \/ Kill \/ Reboot
  BY <1>6 DEF Route, Stop, GraceEnds, Kill, Killed, Reboot
<1>7. CASE \E c \in running : HandlerEnds(c)
  BY <1>1, <1>7 DEF HandlerEnds
<1>8. CASE Hook
  <2>1. \E s \in Steps : hook' = [hook EXCEPT !.step = s]
    BY <1>8 DEF Hook, HookReset, HookRemoves, Steps
  <2>2. DOMAIN others' = Dirs /\ saved' = saved
    BY <1>8 DEF Hook, HookReset, HookRemoves
  <2> QED
    BY <2>1, <2>2
<1>9. CASE UNCHANGED vars
  BY <1>1, <1>9 DEF vars
<1> QED
  BY <1>2, <1>3, <1>4, <1>5, <1>6, <1>7, <1>8, <1>9 DEF Next, DaemonStep

(* The worker's own steps: the route goes first, and nobody sets it again.   *)
LEMMA HookClean == IInv /\ CleanInv /\ HookShape' /\ Hook => CleanInv'
<1> SUFFICES ASSUME IInv, CleanInv, HookShape', Hook PROVE CleanInv'
  OBVIOUS
<1>0. late' = late
  BY DEF Hook
<1> SUFFICES ASSUME ~late PROVE CleanInv'
  BY <1>0 DEF CleanInv
<1> USE DEF HookShape, host
<1>1. UNCHANGED <<release, pod, pc, term, saved, running, ops, late>> /\ release = {}
  BY DEF Hook, HookReset, HookRemoves, IInv, PodInv
<1>2. pc \notin Starting /\ Removed /\ (pattern = "ours" => binary)
  BY <1>1 DEF CleanInv
<1>3. hook.dir \in Dirs /\ hook'.dir = hook.dir
  BY DEF CleanInv, Hook, HookReset, HookRemoves
<1>4. CASE HookReset
  <2>1. hook'.step = "rm binary" /\ pattern' # "ours"
    BY <1>4 DEF HookReset, CleanInv
  <2> QED
    BY <1>1, <1>2, <2>1 DEF CleanInv, Removed
<1>5. CASE HookRemoves
  <2>1. CASE hook.step = "rm binary"
    <3>1. hook'.step = "rm config" /\ binary' = FALSE /\ pattern' = pattern
      BY <1>5, <2>1 DEF HookRemoves, CleanInv
    <3> QED
      BY <1>1, <1>2, <2>1, <3>1 DEF CleanInv, Removed
  <2>2. CASE hook.step = "rm config"
    <3>1. /\ hook'.step = "rm socket" /\ file' = [file EXCEPT ![hook.dir] = {}]
          /\ UNCHANGED <<pattern, binary, others>>
      BY <1>5, <2>2 DEF HookRemoves, CleanInv
    <3>2. file'[hook'.dir] = {}
      BY <1>3, <3>1 DEF IInv, HostInv
    <3> QED
      BY <1>1, <1>2, <2>2, <3>1, <3>2 DEF CleanInv, Removed
  <2>3. CASE hook.step = "rm socket"
    <3>1. /\ hook'.step = "rm recent"
          /\ others' = [others EXCEPT ![hook.dir] = @ \ {"events.sock"}]
          /\ UNCHANGED <<pattern, binary, file>>
      BY <1>5, <2>3 DEF HookRemoves, CleanInv
    <3>2. "events.sock" \notin others'[hook'.dir]
      BY <1>3, <3>1 DEF CleanInv
    <3> QED
      BY <1>1, <1>2, <1>3, <2>3, <3>1, <3>2 DEF CleanInv, Removed
  <2>4. CASE hook.step = "rm recent"
    <3>1. /\ hook'.step = "done"
          /\ others' = [others EXCEPT ![hook.dir] = @ \ {"recent.json"}]
          /\ UNCHANGED <<pattern, binary, file>>
      BY <1>5, <2>4 DEF HookRemoves, CleanInv
    <3>2. "events.sock" \notin others'[hook'.dir]
      BY <1>2, <1>3, <2>4, <3>1 DEF CleanInv, Removed
    <3> QED
      BY <1>1, <1>2, <1>3, <2>4, <3>1, <3>2 DEF CleanInv, Removed
  <2> QED
    BY <1>5, <2>1, <2>2, <2>3, <2>4 DEF HookRemoves
<1> QED
  BY <1>4, <1>5 DEF Hook

(* Every step keeps it.                                                      *)
LEMMA CleanStep == IInv /\ CleanInv /\ [Next]_vars => CleanInv'
<1> SUFFICES ASSUME IInv, CleanInv, [Next]_vars PROVE CleanInv'
  OBVIOUS
<1>0. HookShape'
  BY HookShapeStep DEF CleanInv
<1> USE <1>0 DEF host
<1>1. ASSUME UNCHANGED <<release, pc, pattern, binary, file, others, hook, late>> PROVE CleanInv'
  BY <1>1 DEF CleanInv, Removed
<1>2. ASSUME NEW v \in Values, Install(v) \/ Upgrade(v) PROVE CleanInv'
  <2>1. release' # {} /\ UNCHANGED <<pc, pattern, binary, late>>
    BY <1>2 DEF Install, Upgrade
  <2> QED
    BY <2>1 DEF CleanInv
<1>3. CASE Uninstall
  <2>1. /\ hook'.step = "reset" /\ UNCHANGED <<pc, pattern, binary>>
        /\ late' = (late \/ pc \in Starting \/ term' = "lost")
    BY <1>3 DEF Uninstall
  <2> QED
    BY <2>1 DEF CleanInv, Removed
<1>4. CASE Rollout \/ PodGone \/ Crash
  BY <1>1, <1>4 DEF Rollout, PodGone, Crash
<1>5. CASE CreatePod
  <2>1. release' # {} /\ pc' = "install binary" /\ UNCHANGED <<pattern, binary, late>>
    BY <1>5 DEF CreatePod
  <2> QED
    BY <2>1 DEF CleanInv
<1>6. CASE Restart
  <2>1. pod # {} /\ term = "no" /\ pc = "down" /\ UNCHANGED <<release, pattern, binary, late>>
    BY <1>6 DEF Restart
  <2>2. release # {} /\ binary
    BY <2>1 DEF IInv, PodInv, HostInv, Option
  <2> QED
    BY <2>1, <2>2 DEF CleanInv
<1>7. CASE InstallBinary \/ Bind \/ CreateTmp \/ Rename \/ Route \/ Register
  <2>1. pc \in Starting /\ UNCHANGED <<release, late>>
    BY <1>7 DEF InstallBinary, Bind, CreateTmp, Rename, Route, Register, Starting
  <2>2. ~late => release # {}
    BY <2>1 DEF CleanInv
  <2>3. ~late => binary'
    <3>1. CASE InstallBinary
      BY <3>1 DEF InstallBinary
    <3>2. CASE Bind \/ CreateTmp \/ Rename \/ Route \/ Register
      <4>1. pc # "install binary" /\ binary' = binary
        BY <3>2 DEF Bind, CreateTmp, Rename, Route, Register
      <4> QED
        BY <2>1, <4>1 DEF CleanInv
    <3> QED
      BY <1>7, <3>1, <3>2
  <2> QED
    BY <2>1, <2>2, <2>3 DEF CleanInv
<1>8. CASE Stop
  <2>1. /\ pc' = "down" /\ pattern' = saved
        /\ UNCHANGED <<release, binary, file, others, hook, late>>
    BY <1>8 DEF Stop
  <2>2. pattern' # "ours"
    BY <2>1 DEF CleanInv, HookShape
  <2> QED
    BY <2>1, <2>2 DEF CleanInv, Removed, Starting
<1>9. CASE GraceEnds \/ Kill
  <2>1. pc' = "down" /\ UNCHANGED <<release, pattern, binary, file, others, hook, late>>
    BY <1>9 DEF GraceEnds, Kill, Killed
  <2> QED
    BY <2>1 DEF CleanInv, Removed, Starting
<1>10. CASE Reboot
  <2>1. /\ hook.step = "done" /\ pattern' = "orig" /\ UNCHANGED <<release, binary, hook, late>>
        /\ file' = [file EXCEPT ![DefaultDir] = {}]
        /\ others' = [others EXCEPT ![DefaultDir] = {}]
        /\ pc' = IF pod # {} /\ term = "no" THEN "install binary" ELSE "down"
    BY <1>10 DEF Reboot
  <2>2. release = {} => pc' = "down"
    BY <2>1 DEF IInv, PodInv
  <2>3. hook.dir \in Dirs /\ DOMAIN file = Dirs /\ DOMAIN others = Dirs
    BY DEF CleanInv, HookShape, IInv, HostInv
  <2>4. Removed => Removed'
    BY <2>1, <2>3 DEF Removed
  <2> QED
    BY <2>1, <2>2, <2>4 DEF CleanInv, Starting
<1>11. ASSUME NEW c \in running, HandlerEnds(c) PROVE CleanInv'
  <2>1. /\ UNCHANGED <<release, pc, pattern, binary, file, hook, late>>
        /\ others' = [others EXCEPT ![c.dir] =
                         IF object_store(c) = {} THEN @ ELSE @ \cup {"recent.json"}]
    BY <1>11 DEF HandlerEnds
  <2>2. "events.sock" \in others'[hook.dir] => "events.sock" \in others[hook.dir]
    BY <2>1 DEF CleanInv, HookShape
  <2> QED
    BY <2>1, <2>2 DEF CleanInv, Removed
<1>12. CASE Hook
  BY <1>12, HookClean
<1>13. CASE UNCHANGED vars
  BY <1>1, <1>13 DEF vars
<1> QED
  BY <1>2, <1>3, <1>4, <1>5, <1>6, <1>7, <1>8, <1>9, <1>10, <1>11, <1>12, <1>13
  DEF Next, DaemonStep

(* The account of the worker holds throughout.                               *)
LEMMA CleanInvHolds == Spec => []CleanInv
<1>1. Init => CleanInv
  BY DirAssumption DEF Init, CleanInv, HookShape, Removed, Starting, Steps
<1> QED
  BY <1>1, InitIInv, PodStep, HostStep, CleanStep, PTL DEF Spec, IInv

(* The cleanup worker's order: for any values, and any installs, upgrades, kills
   and reboots, no crash is routed to a missing handler, unless an uninstall met
   a pod still starting.                                                     *)
THEOREM NoRouteToMissing == Spec => []RoutedHasBinary
<1>1. CleanInv => RoutedHasBinary
  BY DEF CleanInv, RoutedHasBinary
<1> QED
  BY <1>1, CleanInvHolds, PTL

(* The chart's uninstall: however the daemon ended, nothing the worker removes is
   put back, unless by a pod the uninstall met still starting.               *)
THEOREM UninstallLeavesNothing == Spec => []UninstallClean
<1>1. CleanInv => UninstallClean
  BY DEF CleanInv, Removed, UninstallClean
<1> QED
  BY <1>1, CleanInvHolds, PTL
=============================================================================
