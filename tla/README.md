# coredrop in TLA+

A formal model of coredrop: a daemon that routes a node's core dumps to a
capture handler (`core_pattern`), and the handler that drains each core into an
object store with a `/proc` snapshot and a manifest, under a per-pod budget, and
reports it so that the daemon can post a Kubernetes Event; and the chart that
installs, upgrades and removes both.

The modules are translated from `src/src/*.rs` and the chart's templates. TLC
checks them on small instances; TLAPS proves, for every value of the constants,
every safety property that the runs check, among them that the rate limiter
implements its abstract specification and that the drain keeps its contract.
`PROJECT.json` lists components, runs, mutants, the map from definitions to
source lines, findings, hazards and theorems.

Run a check with `tlc -config <run>.cfg <module>`, a proof with `tlapm <module>.tla`.

## 1. Inventory

| Part | Source | State | Operations | Module |
|---|---|---|---|---|
| Rate limiter | `ratelimit.rs` | `recent.json`, its flock | `check_and_record`, `refund`, `with_locked_state` | `RateBudget`, `BudgetLedger`, `RateLimiter` |
| Core drain | `upload.rs`, `backend.rs` | encoder, multipart upload, core object | `stream_core_through_zstd`, `abort_multipart`, both `drain_core` | `DrainContract`, `CoreDrain` |
| Capture pipeline | `handler.rs`, `manifest.rs`, `crictl.rs` | locals of `run`, the store, the report | `run`, `put_object`, `inspect`, `report` | `CaptureHandler` |
| Proc snapshot | `snapshot.rs` | files read so far, fd listing, tar | `ProcSnapshot::capture`, `read_capped`, `read_fd_listing`, `to_tar` | `ProcSnapshot` |
| Redaction | `redact.rs` | none | `redact_environ`, `redact_cmdline`, `redact_url`, shape heuristics | `Redaction` |
| cgroup identity | `cgroup.rs` | none | `parse_cgroup` and what it calls | `CgroupIdentity` |
| Build-id | `buildid.rs` | offsets of the two loops | header walk, note walk | `BuildId` |
| Daemon, guard, health | `main.rs`, `core_pattern.rs`, `config.rs`, `health.rs` | two sysctls, `handler.json`, socket file, guard | `run_daemon`, `bind_socket`, `HandlerConfig::write`, `install_at`, `restore`, `shutdown_signal`, `check` | `Daemon` |
| Config and store construction | `main.rs`, `config.rs`, `upload.rs` | none | `to_handler_config`, `validate`, `read`, `object_store`, `env_path` | `HandlerConfig` |
| Events | `events.rs`, `k8s_events.rs` | socket buffer, aggregator, Events at the API server | `from_outcome`, `send_capture_event`, `run_listener`, `handle_payload`, `record`, `prune`, `sweep` | `EventListener` |
| Chart on a node | `_helpers.tpl`, `daemonset.yaml` | release, pod, host files, cleanup worker | install, upgrade, uninstall, rollout, restart, reboot, cleanup script | `Node` |

How the parts interact. The daemon writes the config, binds the socket and
installs `core_pattern`; the kernel then starts one handler process per crash,
at most `core_pipe_limit` at a time. Handlers share only `recent.json` (flock),
the object store (disjoint keys) and the daemon's socket (datagrams that may be
lost). Nothing else connects handler and daemon, so a daemon may die and be
restarted under running handlers. Before it drains the core, a handler takes the
snapshot, from which it has the pod the crash is charged to; the kernel may let
go of the process meanwhile. Helm, the DaemonSet controller, the kubelet and the
cleanup worker act on the same host directories and the same sysctl as the
daemon, with nothing to order them.

What makes it hard, and where each hazard bites, is the `hazards` list of
`PROJECT.json`. In short: a crash storm on one state file; check order that is
not crash order; kills between `set_len(0)` and the write; failures after an
effect (a completed upload that looks failed, a request that lands after its
timeout); a daemon killed between any two of its startup calls; a process that
is reaped while it is being read; a release removed while its daemon still
starts; a cap, a TTL or a budget met exactly.

## 2. Modules

**`RateBudget`** has the budget as pure operators: `Prune`, `Exhausted`,
`CheckedState`, `CheckVerdict`, `RefundedState`. A state file's content is
modelled as the set of captures whose entry it holds; `PodOf[c]` and `stamp[c]`
are the entry. Order in a pod's vector is never observed. `Budget[c]` is the
limit in the config that capture's handler read: after a restart of the daemon
with another limit, handlers of both configs share the file.

**`BudgetLedger`** is the abstract specification: one atomic step per check and
refund. With `Unreliable = TRUE` a check may fail open and a rewrite may lose
the ledger, which is what the code promises once I/O fails.

**`RateLimiter`** is `with_locked_state` at the level of its system calls. Per
capture, `pc` runs through `open`, `lock`, `read`, `truncate`, `write`;
`IoError` is `?` at any of them and `Kill` a death at any of them. The upload
between check and refund is a choice of the environment. A death after the write
and before the return is the same as one just after the return. The refinement
mapping (`FileLedger`) reads the file, or, while the holder has it cut short,
what the holder read.

**`DrainContract`** says what a capture may rely on: which result goes with which
state of the core object. **`CoreDrain`** is the read/write/shutdown loop with
size cap, deadline, abort and hashing writer, for both backends. Bytes are
counted in blocks; zstd is a buffer that may hold back what it was given until
`shutdown`. Each of its steps is shown to be one of the contract.

**`CaptureHandler`** is `handler::run` for concurrent captures. It EXTENDS
`BudgetLedger` and `DrainContract`, so what it shows rests on what `RateLimiter`
and `CoreDrain` were shown to implement. `pc` is the stage, `local` the variables
of `run` that later stages use, `bucket` the three objects, `event` the payload
sent. crictl answers (`Inspect`), is not asked (`NoInspect`) or runs into its
timeout (`InspectTimeout`); without a timeout it may never return. Keys contain
timestamp and pid and are taken to be distinct.

**`ProcSnapshot`** is the reading of `/proc/<pid>`, one action per file, dirent
or link, interleaved with the kernel's `Release` of a process it does not hold
(`life`). Content is counted in units, so that the cap can fall between two
entries of `environ`, between key and value, or inside a value. It EXTENDS three
modules of operators and steps:

- **`Redaction`**: entries, URLs and arguments are records of what the
  heuristics look at (key has a secret keyword, lengths of dotted parts, alphabet,
  entropy in tenths of a bit); what a reader would see of them is an id. `Entries` is
  the set of all entries. The ids of one entry differ from place to place
  (`ToldApart`), so that a secret piece is not also shown elsewhere in its entry. What
  is secret is stated apart from the code: `SecretPieces`, and `SecretsAt` with
  `IsFlagValue` for arguments. `Recognised` says that the shape heuristics agree with
  what is meant to be secret by its shape; a token that is too short or too plain
  for them is no flaw of the redaction. `Prefix` is what the cap leaves of a blob.
- **`CgroupIdentity`**: a line is a sequence of path segments, a segment a prefix,
  a name and a suffix. `Placed` describes the file of a process with a given identity:
  a path of the container's (`InContainer`, with any cgroups below it and anything
  that is no pod's directory above), or one in which no container's directory
  follows a pod's (`InNone`).
- **`BuildId`**: the program header loop and the note loop, one turn a step, with
  the wrapping `usize` additions of the code. An image is what can be decoded at
  each offset. `WellLinked` is what a linker writes: notes that follow each other,
  padded, through the whole of their segment; `BuildIdOf` is the build-id of such an
  image, as far as it lies in the prefix.

**`Daemon`** has one action per system call of `run_daemon`, over `pattern`,
`limit`, `config`, `tmp` and `socket`. The kubelet restarts it and acts on the
probe. `Faults` selects what else happens. The daemon is PID 1 of its container:
a SIGTERM before `shutdown_signal` has registered its handlers is lost, and the
end of the grace period (`GraceEnds`) kills the daemon where it stands.

**`HandlerConfig`** has the way of a setting as operators: from arguments and
environment to `HandlerConfig`, through `validate` and `read`, to the store a
handler builds. **`Node`** EXTENDS it and follows a release on one node: helm's
operations, the pod (init container, then the daemon in coarser steps than in
`Daemon`), the handlers, and the cleanup worker command by command. `late` notes
that an uninstall met a pod still starting, a case the cleanup does not handle
(see below).

**`EventListener`** has the socket as a bounded queue, the select loop
(`Ignore`, `Receive`, `PostDone`, `Sweep`), the checks a report must pass to
become an Event (outcome, names, pod UID), the aggregator and an external API
server with create, patch and a TTL. With `Outages` a request may be lost or
take effect after the client gave up; `Restart` forgets queue and aggregator.

The eight **`*Proofs`** modules have the theorems; the `MC*` modules give TLC its
sets. Every component module has a `TypeOK` that documents its state.
Definitions commented "plausible bug" are mutants: they stand in for a mapped
definition to show that a property can fail, and are used nowhere else.

## 3. Runs

Passing:

| Run | Instance | What it shows |
|---|---|---|
| `limiter_reliable` | 3 captures, 2 pods, window 3 s, 6 s, lag 1 s | The flock-protected rewrite is an atomic ledger (`ImplementsLedger`). No pod has more than its budget on file (`BudgetHeld`) or in any stretch of window minus lag (`WindowBudget`), and nobody is suppressed without that many uploads in the window (`SuppressedJustified`). |
| `limiter_faults` | 3 captures, one with the limit off (0); any call may fail, any handler be killed | `MutualExclusion`, the weaker ledger, to which an unlimited handler adds nothing, and no handler waits for ever (`Answered`). |
| `drain` | cores of 0 to 5 blocks, reads of 1 or 2, caps 0, 1, 2, 5 | Stored object = capped prefix, hash and size cover it (`StoredPrefix`); truncation is said and only when true (`TruncationHonest`); parts left behind are accounted for (`OrphanAccounted`); the contract is kept; with a deadline it ends (`DrainEnds`). |
| `capture_budget` | 2 concurrent captures of a pod, budget 1, kills, failing PUTs, working state file | The budget holds of the cores in the store (`CoresWithinBudget`), and a store outage costs no budget (`SlotOnlyIfStored`). |
| `capture_faults` | one pipe slot, one capture with the limit off, every fault, a crictl that may hang | A manifest points at what is there, or says why it is not (`ManifestTruthful`); so does a report (`EventTruthful`); every started capture is reported or killed (`EveryCaptureReported`). |
| `snapshot` | some 1,600 processes: an ordinary one varied in one respect at a time; held or not | Exactly the documented secrets are gone (`RedactedExactly`, and across the cap `SecretsGone`); what is cut is named and nothing else (`TruncatedExact`); nothing readable is missing while the process is held (`WholeIfHeld`); the identity is the process's own or none (`IdentityRight`); the build-id is the first one the linker wrote (`BuildIdRight`), found without leaving the bytes read (`ScanBounded`); the snapshot ends (`SnapshotTaken`). |
| `daemon` | 2 handler paths, up to 4 faults of 5 kinds | No half-written config (`ConfigNeverPartial`); a routed crash finds its config (`RoutedIsConfigured`); an orderly stop unroutes (`StopUnroutes`); the original sysctls stay with the kernel or the guard (`OriginalKept`); once faults stop the capture path comes up and stays up (`Repaired`). |
| `node` | 7 values of a release, 2 run directories, 4 operations | A passing probe means that crashes are handled under this pod's config (`ReadyUsesConfig`), with a store exactly when one was configured (`StoreAsConfigured`); no crash is routed to a missing binary (`RoutedHasBinary`); nothing of a removed release is left to run into (`UninstallClean`); the node settles on what was asked of it (`Settles`). |
| `listener_counts` | 2 keys, cap 1, 4 reports, clock of 2 TTLs | Every recorded capture is in exactly one Event (`EveryCaptureCounted`). |
| `listener_outages` | 1 key, outages, a restart | `NoOvercount`, `QueueDrains`, `StaleDropped`. |

Violated, each a disagreement between code and a doc that `findings` quotes:

| Run | Statement | What happens |
|---|---|---|
| `daemon_pipe_limit` | the original `core_pipe_limit` is restored | After a kill, ours is saved and restored. |
| `node_run_dir` | the handler reads the config in `hostRunDir` | It looks for `CAPTURE_CONFIG_PATH` in the empty environment the kernel gives it, and reads the default path: with another `hostRunDir` the pod is ready and every core is discarded. |

Smaller disagreements met on the way have no run of their own; the passing
properties are stated so as to allow for them:

- `ratelimit.rs:73`, "Give back a slot recorded by `check_and_record`": a capture
  let through by an I/O error recorded nothing, yet its refund removes the slot of
  a twin of the same pod and second.
- `main.rs:71` and `src/README.md:94`, "Suppressed crashes still get a proc snapshot
  and manifest": not if their discarding drain meets the upload deadline.
- `main.rs:287`, "so the guard always drops": a SIGTERM between install and
  registration is lost, and the kill that follows restores nothing.
- `_helpers.tpl:135`, "This runs before the binary is removed, so no crash is routed
  to a missing handler": a daemon still starting when the release is removed can
  route, and write its files, after the worker; hence `late` in `RoutedHasBinary`
  and `UninstallClean`. The worker also leaves `handler.json.tmp` and
  `core_pipe_limit`, a `recent.json` that a last handler recreates, and the
  directories of values before the last upgrade.
- `health.rs`: a config that is valid but whose store cannot be built (Azure without
  an account) passes the probe, and every core is discarded; `StoreAsConfigured`
  says exactly when.
- `main.rs`, `check`: the probe takes its paths from the environment only, so flags
  given to the daemon instead are not seen by it.
- `config.rs`, forwarded workload-identity variables name token files of the daemon's
  container, which the handler, in host namespaces, may not have.
- `redact.rs:16`, "redacts the argument that follows it": of two secret flags in a
  row the second is taken as the value of the first, and its own value is kept;
  `IsFlagValue` says so.
- `cgroup.rs`: a nested cgroup with `:` in its name hides the identity of its pod;
  hence `colon` in `IdentityRight`.
- `src/charts/coredrop/README.md:168`, "Only `helm uninstall` clears it": so does
  a rewrite of `recent.json` that fails after `set_len(0)` (`BudgetLedger!Lose`).
- `ratelimit.rs:23`, "Sliding window": a check that comes late may find its pod's
  entries pruned by a newer crash; hence `Window - MaxLag` in `WindowBudget`.
- `src/charts/coredrop/README.md:150`, "Two cases can still leave an incomplete
  multipart upload": a failed abort and a failed final call do too; hence the
  causes in `OrphanAccounted`.
- `handler.rs:203`, "Nothing was stored": a complete call may have taken effect
  unanswered; hence `LateComplete = FALSE` under `CoresWithinBudget`.
- `handler.rs:93`, "Fails when no object store is configured": `run` returns `Ok`
  then, and also when the manifest write fails.
- `k8s_events.rs:654`, "These two never reach the listener": failed and non-k8s
  captures are sent to it, and ignored (`EventListener!Ignore`).
- `main.rs:221`, "only ever gets a path the daemon is listening on": after a kill
  the old config still routes handlers to a socket nobody reads.
- `core_pattern.rs:64`: our own pattern, left by a kill, is recognised only under
  an unchanged handler path; hence `pattern # path` in `StopUnroutes`.
- `k8s_events.rs:28`, "never outlives the object it's tracking": an entry whose
  create failed has no Event, and its repeats patch nothing.
- `k8s_events.rs:518`, names "unique": two crashes of one second, reported a TTL
  apart, share a name; hence the bound on lateness in `EveryCaptureCounted`.

### Bounds

- Captures: two of one pod make every race for a slot; the third, of another
  pod, prunes the first pod's entries with its own clock. Theorems lift the
  number of captures for every safety property of these runs.
- Clock: the window, the lag and one second more on either side, so that entries
  meet the cutoff exactly, lie inside and lie outside. `MaxLag` is the model's
  name for how late a check may come; it is below the window, as a handler
  checks right after its snapshot.
- Drain: caps inside a read, at its end, and equal to the longest core. Theorems
  lift the sizes.
- Snapshot: files and listings below, at and one and two above the cap; every pair
  of kinds of variable behind three paddings, so that each meets the cap; all
  arguments up to length 3; both cgroup versions, both drivers, three runtimes,
  four nestings; executables of both classes with up to two segments of four notes,
  cut at four places, and fourteen that no linker would write. `UsizeMod` and
  `MaxWord` are scaled down, keeping the order that 64 and 32 bits give
  (`WidthAssumption`).
- Daemon: four faults allow a fault in the recovery from a fault in a recovery.
- Node: `MaxOps` = 4, as install, upgrade, uninstall and one kill or reboot
  between any two of their steps (crashes come at any time and are not counted),
  or install, uninstall, install again. The
  theorems lift the bound for all safety properties of the run.
- Listener: a cap of one key with two keys in play and a report that makes no
  Event; four reports for two creations with a repeat each; two TTLs of clock.
  Theorems lift all of these for the two counting properties.
- No run uses symmetry: captures differ in pod or budget, keys in outcome.
- `CHECK_DEADLOCK FALSE`: captures, faults and reports are finite, so the
  instances may stop.

### Fairness

- `RateLimiter`: each handler runs, and flock serves a waiter once the lock is
  free for good. Crashes, errors, kills and upload results have no fairness.
- `CoreDrain`: only the timer and the abort, which the store client's own retry
  limits bound. Kernel and store need never answer.
- `CaptureHandler`: each handler runs, and PUTs return (store client's retry
  limits). crictl owes no answer; its timeout, if not 0, fires. The drain is fair
  only with a deadline.
- `ProcSnapshot`: `/proc` answers; parsing is local. `Release` has no fairness.
- `Daemon`: the process runs, the kubelet restarts it, acts on its probe and ends
  the grace period.
- `Node`: the same of the controller, the kubelet, the daemon and the worker, each
  on its own. Operators, crashes, handlers, kills and reboots have no fairness.
- `EventListener`: the task runs, its timer ticks, the client's timeout ends
  each request. The API server owes nothing.

## 4. Proofs

Each module of proofs has an inductive invariant, a lemma that a step keeps it,
with one proof step per action, and the theorems that follow. The invariants were
first checked by TLC.

`RateLimiterProofs`: for every finite set of captures, every assignment of
pods, every budget of every handler, window, clock bound and lag, with and
without faults:

- `TypeCorrect`: `Spec => []TypeOK`.
- `Exclusion`: `Spec => []MutualExclusion`. The invariant is not inductive: it
  says nothing of who holds the flock. `LockHeld` (whoever is in the locked
  section is the holder) is, since `LockState` needs a free lock and only the
  holder, by finishing, failing or dying, frees it.
- `BudgetNeverExceeded`: `Spec => []BudgetHeld`. That the file is within budget
  is not inductive without the same of each pending rewrite `mem[c].new`, since
  `WriteBack` copies one into the other; `BudgetHeld` states both. The steps rest
  on lemmas about the operators: pruning and refunding only shrink the set, and
  an allowed check adds one entry to a pod that had fewer than the budget. The
  bound is `MaxBudget`, the largest limit any of the handlers has.

- `LimiterRefinesLedger`: `Spec => ImplementsLedger`, with `FileLedger` as the
  refinement mapping. Every system call is a step of the ledger or a stutter: the
  write is the check or the refund, a death or an error with the file cut short
  loses the ledger, everything else changes nothing of it. That needs `RefInv`:
  what a handler has been told at each `pc`, that what it is about to write is the
  update of what it read, that the file is still what it read until it cuts it
  (by `LockHeld`), and that entries are of captures that have crashed, so that a
  later crash does not change what an update computes.
- `SuppressionHasCause`, `WindowBudgetHolds`: `Spec => []SuppressedJustified` and
  `Spec => [](~Unreliable => WindowBudget)`. By the refinement these are the theorems
  of `LedgerProofs`, instantiated with `FileLedger` for the ledger (`Proved`).

`LedgerProofs`, of every user of the ledger, for the same constants:

- `LedgerSuppressesWithCause`: `LedgerSpec => []SuppressedJustified`. `Account` says
  that entries are of captures that were allowed, so the entries a suppressing
  check counted are captures let through, and captures let through stay so.
- `LedgerKeepsBudget`: `LedgerSpec => [](~Unreliable => WindowBudget)`. `OnFile` says
  that a slot that is kept is on file until it is out of the window of every check
  to come, so the slots near a capture that has just been allowed were all counted
  by its check. The lag enters here: a check prunes by its own crash time, so
  an entry may be dropped `MaxLag` early for a crash that is checked late.

`CaptureProofs`: for any set of concurrent captures, any budgets, and any failed,
late or cut-off store call:

- `ManifestsTellTheTruth`: `Spec => []ManifestTruthful`. A manifest is built from
  the variables of `run`, so the invariant has to say that these are true of the
  store from the end of the drain on (`LocalInv`), which needs that nothing is
  stored before the drain or by a discarding one (`DrainInv`); `ManifestInv` says
  that a manifest, once put, stays true, since its handler puts nothing after it.
  Captures share only the ledger: the lemma `Frame` says that a step of one keeps
  the invariant of every other.
- `EventsTellTheTruth`: `Spec => []EventTruthful`, from the same invariant and
  `ReportInv`: a report comes last, a manifest key is known only for a manifest
  that is there, and a manifest says what `run` knew when it reported.
- `CapturesUseLedger`: `Spec => LedgerSpec`; `LedgerProofs` therefore holds of captures.
- `OutageCostsNoSlot`: `Spec => [](~Unreliable => SlotOnlyIfStored)`. `SlotInv` ties what
  a capture was told to its stage and its core; that a failed capture has nothing on
  record takes the refund, and that no step of another capture puts it back.
- `CoresStayWithinBudget`: `Spec => [](~Unreliable /\ ~LateComplete => CoresWithinBudget)`.
  By `SlotInv` a core in the store has a slot that is kept, so `WindowBudget`, which
  counts slots, bounds the cores. Both conditions are the code's: without a
  working state file captures are let through, and a completion that comes after
  its failure was reported stores a core whose slot was given back.

`ProcessProofs`, of the two processes that go from one call that may fail to the next.
Of the daemon, for any set of handler paths, any kinds and any number of faults:

- `ConfigNeverHalfWritten`, `RouteNeedsConfig`: `Spec => []ConfigNeverPartial` and
  `[]RoutedIsConfigured`, from `ConfigInv`: what is renamed is whole, and before
  the first rename neither the kernel nor a guard has a route of ours.
- `StopRemovesRoute`: `Spec => []StopUnroutes`, from `RouteInv`: a guard never holds
  the route of its own daemon, so restoring cannot bring it back.
- `OriginalNeverLost`: `Spec => []OriginalKept`, from `OriginalInv`: until an end
  without restore or a foreign write, the original sysctls are in the guard while
  there is one, and with the kernel otherwise.

And of the drain, for any size of core, any cap, any chunks, both backends, and any
place where a call fails or the deadline fires:

- `StoresPrefix`, `TruncationIsHonest`: `DrainSpec => []StoredPrefix` and
  `[]TruncationHonest`. What the object holds follows from what the encoder was given,
  so the invariant follows that through the loop (`LoopInv`): between chunks it is
  the capped prefix of what was read, during a write the chunk's share is missing
  from it, and `size_cap` is noted exactly once the cap has been passed.
- `OrphansAreAccounted`: `DrainSpec => []OrphanAccounted`: an end with an error came
  through an abort that removed the parts, or has the cause on record.
- `DrainKeepsContract`: `DrainSpec => KeepsContract`, step by step: no step before the end
  makes the object whole (`ObjectInv`), and a discard never touches it
  (`DiscardInv`). So what is proved of the capture pipeline over `DrainContract`
  holds over this drain.

`NodeProofs`: for any directories, any values of releases and any number of
operations:

- `ProbeIsHonest`: `Spec => []ReadyUsesConfig`. The probe sees a route and a valid
  config, not whose they are. `PodInv` says that a pod that is not being deleted
  belongs to a release and that the cleanup worker then is not at work; `HostInv`
  that such a pod's binary and, from the rename on, its own config are in place.
- `ConfiguredStoreIsUsed`: `Spec => []StoreAsConfigured`, from that theorem and what
  `to_handler_config`, `validate` and `object_store` do.
- `NoRouteToMissing`, `UninstallLeavesNothing`: `Spec => []RoutedHasBinary` and
  `[]UninstallClean`, from `CleanInv`: unless an uninstall met a starting pod
  (`late`), nothing starts while there is no release, so what the worker has
  removed (`Removed`, step by step: the route first) nobody puts back; and whoever
  starts with a release finds the binary.

`ListenerProofs`: for any reports, TTLs, key cap, queue and clock:

- `NeverOvercounts`: `Spec => []NoOvercount`, with outages and restarts. What an Event
  claims was once in a request, and what a request claims was in an entry: `Claimed`
  says of all of these, late requests included, that they claim no more than was
  recorded.
- `CapturesAreCounted`: `Spec => [](TTL <= EventTTL /\ MaxLag < TTL =>
  EveryCaptureCounted)`. `Balanced` adds up the books of a key: claimed by Events,
  gone with expired ones, and due from the request under way. It needs `InSync`: the
  Event of a live entry is there and outlives the entry, so that a repeat finds it,
  and every other Event is of a crash at least a TTL ago, so that a creation
  never meets its own name. The two conditions are those the code has: the API server
  keeps Events for an hour, as long as the aggregator keeps its entry, and a
  report comes sooner than that after its crash.

`ParserProofs`, of the three modules that parse what the snapshot reads:

- `ScanStaysInBounds`: `ScanSpec => []ScanBounded`, for every image, word size and length
  of the prefix, by induction over `ScanTypeOK` with `ScanBounded` itself: no sum of an
  offset inside the prefix and two 32-bit lengths wraps (`WidthAssumption`), so the
  bounds checks of the code mean what they say.
- `BuildIdIsRight`: `ScanSpec => []BuildIdRight`, for every image that is `WellLinked`, with
  any number of segments and notes. `LinkInv` says where the scan is: all segments
  before the current one are known and have no build-id (`Passed`), and inside one it
  stands at the start of a note, all before it being others (`AtNote`). A note that is
  not the last ends inside its segment (`NotesInside`), so the reader never stops early.
- `ParsedRight`, a lemma: `parse_cgroup` of a file that is `Placed` gives the process's
  identity, or none if there is none or a ':' hides it. Both spellings of a pod's
  and all of a container's directory give their ids back (`DirsYield`), and nothing
  above the pod's directory is taken for one.
- `BlobRedacted`, a lemma: `redact_environ` and `redact_cmdline` keep the number and the order
  of the entries and take exactly the secret pieces out. `EntryRedacted` is the case of
  one entry; it needs that a piece that stays is not equal to one that goes
  (`Apart`). `RedactNextIs` says of any command line what the variable of the loop is:
  set exactly before the value of a secret flag. The code computes it by recursion over
  the arguments; instead of an induction, the proof takes the least argument at which
  the two differ (`LeastNat`, from the well-foundedness of the numbers).
- `CutStays`, `PrefixIs`, lemmas: what a cut leaves of an entry, and that all
  entries before the last one of a prefix are whole.

`SnapshotProofs`: for every set of processes, every executable, word size and cap:

- `SnapshotScans`: `Spec => ScanSpec`, which makes the two theorems on the build-id
  `SnapshotScanStaysInBounds` and `SnapshotBuildIdIsRight` of the snapshot.
- `TruncationIsExact`, `HeldIsWhole`: `Spec => []TruncatedExact` and `[]WholeIfHeld`, from
  `SnapInv`: which files have been tried (`Seen`, the part of the fixed order that is no
  longer in `todo`), what each file of the snapshot shows of the process (`Shows`), the
  descriptors listed so far (`Listed`), and, for a process that is held, that nothing
  tried and readable is missing (`Complete`). `ProcessAssumption` says what `/proc`
  is: sizes are numbers, descriptors come in ascending order, only files that
  `read_capped` reads may be refused, entries are `Entries` and `ToldApart`, and the
  cgroup file is `Placed`.
- `IdentityIsRight`: `Spec => []IdentityRight`, from `ParsedRight` and that a held process
  is still there when its cgroup is read.
- `RedactionIsExact`, `SecretsAreGone`: `Spec => [](Recognisable(proc) => RedactedExactly)` and
  the same of `SecretsGone`. `BlobInv` says that a file of `environ` or `cmdline` is a
  rendered prefix of the process's, all of it unless it is marked or the process
  has exited. The first theorem is then `BlobRedacted` of that prefix. The second
  compares it with the whole: an entry before the last of the prefix is whole, is
  at the same place among the entries that are not empty (`NonEmptyAgree`) and follows
  the same flags (`FlagValueAgree`), so that the same of it is secret. The run's
  processes are all `Recognisable` (`MCRecognisable`).

The assumptions on constants are named in the module that declares them, and TLC
evaluates them in every run of that module.

Only model-checked: all liveness (`Answered`, `DrainEnds`, `EveryCaptureReported`,
`SnapshotTaken`, `Repaired`, `Settles`, `QueueDrains`, `StaleDropped`), which is out of the
prover's reach.

## 5. Not modelled

- Which JSON field of crictl's answer becomes which name (`crictl.rs`, `extract`),
  and the fields of the manifest that are copied through: data without control.
- Characters: a secret keyword in a name, base64, entropy, hex digits and URL
  syntax are features of model values, so the sums and character classes behind
  them are taken on trust.
- Parsing of the kernel's and the daemon's arguments, TLS, request bodies, log
  lines.
- The parameters of the store builders beyond what makes them fail.
- `lib.rs`: declarations, default paths, a table of signal names.
- Kernel, object store, API server, kubelet and helm are external; they appear as
  the choices the code must cope with.
- More than one node: nodes share only the store, under disjoint keys, and the API
  server, under Event names that hold the pod's own.

## 6. Plan

1. A refinement from `Daemon`'s calls to the coarser daemon of `Node`.
2. Characters: the sums behind entropy and the alphabets of keys, ids and tokens.
