---------------------------- MODULE ProcSnapshot ----------------------------
(***************************************************************************)
(* The /proc snapshot of a crashing process (ProcSnapshot, src/src/        *)
(* snapshot.rs, with the start of handler::run): files read one by one,    *)
(* cut at a cap, redacted and rendered, then the build-id and the cgroup   *)
(* identity. The kernel holds the process meanwhile if core_pipe_limit was *)
(* raised or its core does not fit the pipe; if not, it may exit and be    *)
(* reaped between any two reads.                                           *)
(***************************************************************************)
EXTENDS Redaction, CgroupIdentity, BuildId

CONSTANTS Processes,       \* processes that may crash
          MAX_FILE_BYTES,  \* cap on a file, in units
          MAX_FD_ENTRIES   \* cap on the fd listing

ASSUME SnapshotAssumption ==
  /\ {MAX_FILE_BYTES, MAX_FD_ENTRIES} \subseteq Nat \ {0}
  /\ Images = {p.exe : p \in Processes}

VARIABLES proc,      \* the crashing process
          redact,    \* config.redact, else --no-redact
          life,      \* "dumping", "exited" or "reaped"
          pc,        \* "files", "fd", "exe", "open exe", "scan", "cgroup", "tar", "done"
          todo,      \* files still to read
          fd,        \* the listing in progress: dirents seen, lines kept
          files,     \* Vec<SnapshotFile>
          identity,  \* CgroupIdentity, a set with at most one member
          tar        \* names in the TRUNCATED entry of the tar

vars == <<proc, redact, life, pc, todo, fd, files, identity, tar, elf, scanVars>>

SIMPLE_FILES == <<"maps", "smaps", "status", "limits", "stack">>

\* Files that show the address space, which an exited process has lost.
OfMemory == {"maps", "smaps", "environ", "cmdline"}
Blobs == {"environ", "cmdline"}

Init ==
  /\ proc \in Processes /\ redact \in BOOLEAN
  /\ life = "dumping" /\ pc = "files"
  /\ todo = SIMPLE_FILES \o <<"environ", "cmdline">>
  /\ fd = [total |-> 0, lines |-> <<>>]
  /\ files = <<>> /\ identity = {} /\ tar = {}
  /\ elf = proc.exe /\ ScanStart

----------------------------------------------------------------------------
SizeOf(name) == IF name \in Blobs THEN BlobSize(proc[name]) ELSE proc.size[name]

\* What /proc shows of a process: its descriptors come in ascending order, and
\* only a file that read_capped reads may be refused.
IsProcess(p) ==
  /\ p.held \in BOOLEAN
  /\ p.size \in [Range(SIMPLE_FILES) -> Nat]
  /\ \A name \in Blobs : p[name] \in Seq(Entries) /\ \A entry \in Range(p[name]) : ToldApart(entry)
  /\ p.fds \in Seq(Nat) /\ \A i, j \in DOMAIN p.fds : i < j => p.fds[i] < p.fds[j]
  /\ p.unreadable \subseteq Range(SIMPLE_FILES) \cup Blobs
  /\ Placed(p.cgroup, p.identity, p.colon)

ASSUME ProcessAssumption == \A p \in Processes : IsProcess(p)

\* Plausible bug: no byte past the cap is asked for.
read_capped_exact(size) ==
  LET buf == Min({size, MAX_FILE_BYTES})
  IN [len |-> buf, truncated |-> buf > MAX_FILE_BYTES]

\* read_capped: one more than the cap is read, to tell a longer file.
read_capped(size) ==
  LET buf == Min({size, MAX_FILE_BYTES + 1})
  IN [len |-> Min({buf, MAX_FILE_BYTES}), truncated |-> buf > MAX_FILE_BYTES]

\* The content as stored: redacted blobs, or the number of units of any other file.
Render(name, len) ==
  CASE name = "environ" -> redact_environ(redact, Prefix(proc.environ, len))
    [] name = "cmdline" -> redact_cmdline(redact, Prefix(proc.cmdline, len))
    [] OTHER -> [i \in 1..len |-> name]

File(name, content, truncated) == [name |-> name, content |-> content, truncated |-> truncated]

Unreadable(name) == life = "reaped" \/ name \in proc.unreadable

\* Of an exited process a file of its memory ends anywhere.
SizesRead(name) ==
  IF life # "dumping" /\ name \in OfMemory THEN 0..SizeOf(name) ELSE {SizeOf(name)}

\* Plausible bugs: the first unreadable file ends the reading, or is tried again.
FilesAfterStrict(name) == IF Unreadable(name) THEN <<>> ELSE Tail(todo)
FilesAfterRetry(name)  == IF Unreadable(name) THEN todo ELSE Tail(todo)

FilesAfter(name) == Tail(todo)

\* An unreadable file is skipped.
ReadFile ==
  /\ pc = "files" /\ todo # <<>>
  /\ LET name == Head(todo)
     IN /\ IF Unreadable(name) THEN UNCHANGED files
           ELSE \E size \in SizesRead(name) :
                  files' = Append(files, File(name, Render(name, read_capped(size).len),
                                              read_capped(size).truncated))
        /\ todo' = FilesAfter(name)
  /\ UNCHANGED <<proc, redact, life, pc, fd, identity, tar, elf, scanVars>>

\* read_fd_listing opens the directory.
OpenFd ==
  /\ pc = "files" /\ todo = <<>>
  /\ pc' = IF life = "reaped" THEN "exe" ELSE "fd"
  /\ UNCHANGED <<proc, redact, life, todo, fd, files, identity, tar, elf, scanVars>>

\* Every dirent is counted, those below the cap are resolved. After the exit the
\* dirents still buffered have no target any more.
ReadDirent ==
  /\ pc = "fd" /\ fd.total < Len(proc.fds)
  /\ fd' = [total |-> fd.total + 1,
            lines |-> IF Len(fd.lines) >= MAX_FD_ENTRIES THEN fd.lines
                      ELSE Append(fd.lines, [num |-> proc.fds[fd.total + 1], resolved |-> life = "dumping"])]
  /\ UNCHANGED <<proc, redact, life, pc, todo, files, identity, tar, elf, scanVars>>

\* sort_by_key: numbers are distinct, so that a line has as many before it as
\* have lower numbers.
Sorted(lines) ==
  [i \in DOMAIN lines |->
     CHOOSE l \in Range(lines) : Cardinality({m \in Range(lines) : m.num < l.num}) = i - 1]

\* The listing is sorted and, if it was capped, ends in a note.
EndFd ==
  /\ pc = "fd" /\ (fd.total = Len(proc.fds) \/ life # "dumping")
  /\ files' = Append(files, File("fd", Sorted(fd.lines), fd.total > Len(fd.lines)))
  /\ pc' = "exe"
  /\ UNCHANGED <<proc, redact, life, todo, fd, identity, tar, elf, scanVars>>

\* The link is read, and the executable opened through it for the build-id.
ReadExe ==
  /\ pc = "exe"
  /\ files' = IF life = "dumping" THEN Append(files, File("exe", <<"exe">>, FALSE)) ELSE files
  /\ pc' = "open exe"
  /\ UNCHANGED <<proc, redact, life, todo, fd, identity, tar, elf, scanVars>>

OpenExe ==
  /\ pc = "open exe"
  /\ pc' = IF life = "dumping" THEN "scan" ELSE "cgroup"
  /\ UNCHANGED <<proc, redact, life, todo, fd, files, identity, tar, elf, scanVars>>

Scan ==
  /\ pc = "scan" /\ ScanStep
  /\ pc' = IF stage' = "done" THEN "cgroup" ELSE "scan"
  /\ UNCHANGED <<proc, redact, life, todo, fd, files, identity, tar>>

\* read_cgroup_identity. An exited process may be shown in the root cgroup.
ReadCgroup ==
  /\ pc = "cgroup"
  /\ \/ life # "reaped" /\ identity' = parse_cgroup(proc.cgroup)
     \/ life # "dumping" /\ identity' = {}
  /\ pc' = "tar"
  /\ UNCHANGED <<proc, redact, life, todo, fd, files, tar, elf, scanVars>>

ToTar ==
  /\ pc = "tar"
  /\ tar' = {files[i].name : i \in {j \in DOMAIN files : files[j].truncated}}
  /\ pc' = "done"
  /\ UNCHANGED <<proc, redact, life, todo, fd, files, identity, elf, scanVars>>

\* The kernel lets go of a process that it does not hold.
Release ==
  /\ ~proc.held /\ life # "reaped" /\ pc # "done"
  /\ life' = IF life = "dumping" THEN "exited" ELSE "reaped"
  /\ UNCHANGED <<proc, redact, pc, todo, fd, files, identity, tar, elf, scanVars>>

Step == ReadFile \/ OpenFd \/ ReadDirent \/ EndFd \/ ReadExe \/ OpenExe \/ Scan \/ ReadCgroup \/ ToTar

Next == Step \/ Release

Spec == Init /\ [][Next]_vars

\* /proc answers, and parsing is local.
FairSpec == Spec /\ WF_vars(Step)

----------------------------------------------------------------------------
TypeOK ==
  /\ {proc.held, redact} \subseteq BOOLEAN
  /\ life \in {"dumping", "exited", "reaped"}
  /\ pc \in {"files", "fd", "exe", "open exe", "scan", "cgroup", "tar", "done"}
  /\ \A f \in Range(files) : f.truncated \in BOOLEAN
  /\ Cardinality(identity) <= 1
  /\ ScanTypeOK

Done == pc = "done"
Capped(name) == Prefix(proc[name], Min({SizeOf(name), MAX_FILE_BYTES}))

Recognisable(p) == \A name \in Blobs : \A entry \in Range(p[name]) : Recognised(entry)

BlobFiles == {f \in Range(files) : f.name \in Blobs}

(* redact.rs, module comment: of what was read of environ and cmdline exactly the
   secrets are gone, entry by entry and in order: "never the key", an argument
   after a secret flag, passwords, tokens and secret parameters of a URL;
   "positional arguments are left alone"; --no-redact keeps everything.      *)
RedactedExactly ==
  proc.held =>
    \A f \in BlobFiles :
      IF ~redact THEN f.content = Capped(f.name)
      ELSE LET raw == NonEmpty(Capped(f.name))
           IN /\ Len(f.content) = Len(raw)
              /\ \A i \in DOMAIN raw : Shown(f.content[i]) = Shown(raw[i]) \ SecretsAt(f.name, raw, i)

(* redact.rs with snapshot.rs, which cuts a file before it is redacted: no secret of
   the process is in the snapshot, except what is left of a last entry that the cap,
   or the end of the process, cut in two.                                       *)
SecretsGone ==
  redact =>
    \A f \in BlobFiles :
      LET whole == NonEmpty(proc[f.name])
      IN \A i \in DOMAIN f.content :
           \/ i = Len(f.content) /\ (f.truncated \/ life # "dumping")
           \/ SecretsAt(f.name, whole, i) \cap Shown(f.content[i]) = {}

(* snapshot.rs, read_capped, read_fd_listing and to_tar: a file is named in TRUNCATED
   exactly if the process has more of it than the snapshot, a file of exactly the
   cap not included; nothing is named that was not cut.                         *)
TruncatedExact ==
  LET longer == {n \in Range(SIMPLE_FILES) \cup Blobs : SizeOf(n) > MAX_FILE_BYTES} \ proc.unreadable
      cut    == longer \cup (IF Len(proc.fds) > MAX_FD_ENTRIES THEN {"fd"} ELSE {})
  IN Done => tar \subseteq cut /\ (proc.held => tar = cut)

(* snapshot.rs, module comment: while the kernel holds the process the snapshot is
   complete: every documented file that can be read is there, up to its cap, and
   every descriptor up to theirs with its target; one unreadable file costs only
   itself.                                                                     *)
WholeIfHeld ==
  Done /\ proc.held =>
    /\ {f.name : f \in Range(files)} = {"maps", "smaps", "status", "fd", "limits", "environ", "cmdline",
                              "stack", "exe"} \ proc.unreadable
    /\ \A f \in Range(files) :
         /\ f.name \in Range(SIMPLE_FILES) => Len(f.content) = Min({SizeOf(f.name), MAX_FILE_BYTES})
         /\ f.name = "fd" =>
              f.content = [i \in 1..Min({Len(proc.fds), MAX_FD_ENTRIES}) |->
                             [num |-> proc.fds[i], resolved |-> TRUE]]

(* cgroup.rs, module comment: under either cgroup driver, either cgroup version and
   every runtime, and whatever cgroups the container made below its own, the
   identity is that of the process's pod and container, or none; it is none only
   if the process is gone, is in no pod, or is in a cgroup with ':' in its name.  *)
IdentityRight ==
  Done => /\ identity \subseteq proc.identity
          /\ proc.held /\ ~proc.colon => identity = proc.identity

(* handler.rs: the snapshot ends, however the process fares and whatever its files
   hold, so that the drain of the core can begin.                              *)
SnapshotTaken == <>Done
=============================================================================
