--------------------------- MODULE SnapshotProofs ---------------------------
(***************************************************************************)
(* Proofs about the snapshot of a crashing process (module ProcSnapshot),  *)
(* for every process and every cap: what it holds, what it marks as cut,   *)
(* what it shows of environ and cmdline, and the build-id and identity     *)
(* that it ends with.                                                      *)
(***************************************************************************)
EXTENDS ProcSnapshot, ParserProofs

(* The snapshot reads the build-id as module BuildId describes, and does not
   touch the scan otherwise.                                                 *)
THEOREM SnapshotScans == Spec => ScanSpec
<1>1. Init => ScanInit
  BY SnapshotAssumption DEF Init, ScanInit, SnapshotAssumption
<1>2. [Next]_vars => [ScanStep]_<<elf, scanVars>>
  BY Zenon DEF Next, Step, vars, ReadFile, OpenFd, ReadDirent, EndFd, ReadExe, OpenExe, Scan, ReadCgroup,
         ToTar, Release
<1> QED
  BY <1>1, <1>2, PTL DEF Spec, ScanSpec

(* buildid.rs, as the snapshot calls it: the scan stays in bounds.           *)
THEOREM SnapshotScanStaysInBounds == Spec => []ScanBounded
BY SnapshotScans, ScanStaysInBounds, PTL

(* buildid.rs, as the snapshot calls it: the build-id is the right one.      *)
THEOREM SnapshotBuildIdIsRight == Spec => []BuildIdRight
BY SnapshotScans, BuildIdIsRight, PTL

----------------------------------------------------------------------------
(* A record added to a sequence is added to what the sequence holds.         *)
LEMMA RangeAppend ==
  ASSUME NEW s, s \in Seq(Range(s)), NEW x
  PROVE  Append(s, x) \in Seq(Range(Append(s, x))) /\ Range(Append(s, x)) = Range(s) \cup {x}
<1>1. Len(s) \in Nat /\ DOMAIN s = 1..Len(s)
  OBVIOUS
<1>2. /\ DOMAIN Append(s, x) = 1..Len(s) + 1 /\ Append(s, x)[Len(s) + 1] = x
      /\ \A i \in 1..Len(s) : Append(s, x)[i] = s[i]
      /\ Append(s, x) \in Seq(Range(s) \cup {x})
  BY <1>1
<1>3. Range(Append(s, x)) = Range(s) \cup {x}
  <2> DEFINE t == Append(s, x)
  <2> HIDE DEF t
  <2>1. \A y \in Range(t) : y \in Range(s) \cup {x}
    BY <1>1, <1>2 DEF Range, t
  <2>2. \A y \in Range(s) \cup {x} : y \in Range(t)
    BY <1>1, <1>2 DEF Range, t
  <2> QED
    BY <2>1, <2>2 DEF t
<1> QED
  BY <1>2, <1>3

\* The files that read_capped reads, in their order.
Order == <<"maps", "smaps", "status", "limits", "stack", "environ", "cmdline">>
FileNames == {"maps", "smaps", "status", "limits", "stack", "environ", "cmdline"}
Seen == {Order[i] : i \in 1..7 - Len(todo)}

\* A reading of the list from the front.
Reading ==
  /\ Len(todo) \in 0..7 /\ todo \in Seq(FileNames)
  /\ \A i \in 1..Len(todo) : todo[i] = Order[7 - Len(todo) + i]

(* The list is the documented files.                                         *)
LEMMA OrderIs ==
  /\ SIMPLE_FILES \o <<"environ", "cmdline">> = Order
  /\ Range(SIMPLE_FILES) = {"maps", "smaps", "status", "limits", "stack"}
  /\ {Order[i] : i \in 1..7} = Range(SIMPLE_FILES) \cup Blobs
  /\ \A i \in 1..7 : Order[i] \in Range(SIMPLE_FILES) \cup Blobs
<1>1. SIMPLE_FILES \o <<"environ", "cmdline">> = Order
  <2> DEFINE s == SIMPLE_FILES
             t == <<"environ", "cmdline">>
             u == s \o t
  <2>1. s \in Seq(FileNames) /\ Len(s) = 5
    BY DEF SIMPLE_FILES, FileNames
  <2>2. t \in Seq(FileNames) /\ Len(t) = 2
    BY DEF FileNames
  <2>3. Order \in Seq(FileNames) /\ Len(Order) = 7
    BY DEF Order, FileNames
  <2>4. (\A i \in 1..5 : s[i] = Order[i]) /\ (\A i \in 6..7 : t[i - 5] = Order[i])
    <3>1. 1..5 = {1, 2, 3, 4, 5} /\ 6..7 = {6, 7}
      OBVIOUS
    <3> QED
      BY <3>1 DEF SIMPLE_FILES, Order
  <2> HIDE DEF s, t
  <2>a. ASSUME NEW a \in Seq(FileNames), NEW b \in Seq(FileNames)
        PROVE  /\ a \o b \in Seq(FileNames) /\ Len(a \o b) = Len(a) + Len(b)
               /\ \A i \in 1..Len(a) + Len(b) : (a \o b)[i] = IF i <= Len(a) THEN a[i] ELSE b[i - Len(a)]
    OBVIOUS
  <2>5. /\ u \in Seq(FileNames) /\ Len(u) = Len(s) + Len(t)
        /\ \A i \in 1..Len(s) + Len(t) : u[i] = IF i <= Len(s) THEN s[i] ELSE t[i - Len(s)]
    BY <2>1, <2>2, <2>a, Zenon
  <2> HIDE DEF u
  <2>6. Len(u) = 7 /\ \A i \in 1..7 : u[i] = IF i <= 5 THEN s[i] ELSE t[i - 5]
    BY <2>1, <2>2, <2>5
  <2>7. \A i \in 1..7 : u[i] = Order[i]
    <3> SUFFICES ASSUME NEW i \in 1..7 PROVE u[i] = Order[i]
      OBVIOUS
    <3>1. CASE i <= 5
      <4>1. i \in 1..5
        BY <3>1
      <4> QED
        BY <2>4, <2>6, <3>1, <4>1
    <3>2. CASE ~(i <= 5)
      <4>1. i \in 6..7
        BY <3>2
      <4> QED
        BY <2>4, <2>6, <3>2, <4>1, Zenon
    <3> QED
      BY <3>1, <3>2
  <2>8. u = [i \in 1..7 |-> u[i]] /\ Order = [i \in 1..7 |-> Order[i]]
    <3>1. \A q \in Seq(FileNames) : Len(q) = 7 => q = [i \in 1..7 |-> q[i]]
      OBVIOUS
    <3> QED
      BY <2>3, <2>5, <2>6, <3>1, Zenon
  <2>9. u = Order
    BY <2>7, <2>8
  <2> QED
    BY <2>9 DEF s, t, u
<1>2. Range(SIMPLE_FILES) = {"maps", "smaps", "status", "limits", "stack"}
  <2>1. DOMAIN SIMPLE_FILES = {1, 2, 3, 4, 5}
    BY DEF SIMPLE_FILES
  <2> QED
    BY <2>1 DEF SIMPLE_FILES, Range
<1>3. 1..7 = {1, 2, 3, 4, 5, 6, 7}
  OBVIOUS
<1>4. {Order[i] : i \in 1..7} = Range(SIMPLE_FILES) \cup Blobs
  BY <1>2, <1>3 DEF Order, Blobs
<1> QED
  BY <1>1, <1>2, <1>4

(* The smaller of two numbers.                                               *)
LEMMA MinIs ==
  ASSUME NEW a \in Nat, NEW b \in Nat
  PROVE  Min({a, b}) = IF a <= b THEN a ELSE b
<1>1. \E x \in {a, b} : \A y \in {a, b} : x <= y
  OBVIOUS
<1>2. Min({a, b}) \in {a, b} /\ \A y \in {a, b} : Min({a, b}) <= y
  BY <1>1 DEF Min
<1> QED
  BY <1>2

(* read_capped tells a longer file, and keeps the cap of it.                 *)
LEMMA CappedIs ==
  ASSUME NEW size \in Nat
  PROVE  /\ read_capped(size).truncated = (size > MAX_FILE_BYTES)
         /\ read_capped(size).len = Min({size, MAX_FILE_BYTES})
         /\ read_capped(size).len \in Nat
<1>1. MAX_FILE_BYTES \in Nat /\ MAX_FILE_BYTES + 1 \in Nat
  BY SnapshotAssumption DEF SnapshotAssumption
<1> DEFINE buf == Min({size, MAX_FILE_BYTES + 1})
<1>2. buf = IF size <= MAX_FILE_BYTES + 1 THEN size ELSE MAX_FILE_BYTES + 1
  BY <1>1, MinIs
<1>3. buf \in Nat
  BY <1>1, <1>2
<1> HIDE DEF buf
<1>4. Min({buf, MAX_FILE_BYTES}) = IF buf <= MAX_FILE_BYTES THEN buf ELSE MAX_FILE_BYTES
  BY <1>1, <1>3, MinIs
<1>5. Min({size, MAX_FILE_BYTES}) = IF size <= MAX_FILE_BYTES THEN size ELSE MAX_FILE_BYTES
  BY <1>1, MinIs
<1>6. read_capped(size) = [len |-> Min({buf, MAX_FILE_BYTES}), truncated |-> buf > MAX_FILE_BYTES]
  BY DEF read_capped, buf
<1>7. (buf > MAX_FILE_BYTES) = (size > MAX_FILE_BYTES) /\ Min({buf, MAX_FILE_BYTES}) = Min({size, MAX_FILE_BYTES})
      /\ Min({size, MAX_FILE_BYTES}) \in Nat
  BY <1>1, <1>2, <1>4, <1>5
<1> QED
  BY <1>6, <1>7

(* A file has a size.                                                        *)
LEMMA SizeIs ==
  ASSUME IsProcess(proc), NEW n \in Range(SIMPLE_FILES) \cup Blobs
  PROVE  SizeOf(n) \in Nat
<1>1. CASE n \in Range(SIMPLE_FILES)
  <2>1. n \notin Blobs
    BY <1>1, OrderIs DEF Blobs
  <2> QED
    BY <1>1, <2>1 DEF SizeOf, IsProcess
<1>2. CASE n \in Blobs
  <2>1. proc[n] \in Seq(Entries)
    BY <1>2, Zenon DEF IsProcess
  <2>2. Len(proc[n]) + 1 \in 1..Len(proc[n]) + 1
    BY <2>1
  <2>3. SizeOf(n) = Before(proc[n], Len(proc[n]) + 1)
    BY <1>2, Zenon DEF SizeOf, BlobSize
  <2> QED
    BY <2>1, <2>2, <2>3, BeforeGrows, Zenon
<1> QED
  BY <1>1, <1>2

(* read_fd_listing: sorting lines that come in ascending order changes nothing. *)
LEMMA SortedStays ==
  ASSUME NEW s, s \in Seq(Range(s)),
         \A i \in DOMAIN s : s[i].num \in Nat,
         \A i, j \in DOMAIN s : i < j => s[i].num < s[j].num
  PROVE  Sorted(s) = s
<1> DEFINE Below(l) == {m \in Range(s) : m.num < l.num}
<1>0. Len(s) \in Nat /\ DOMAIN s = 1..Len(s) /\ s = [i \in 1..Len(s) |-> s[i]]
  OBVIOUS
<1>1. ASSUME NEW k \in DOMAIN s PROVE Cardinality(Below(s[k])) = k - 1
  <2> DEFINE f == [j \in 1..k - 1 |-> s[j]]
             B == Below(s[k])
  <2>0. k \in 1..Len(s) /\ k - 1 \in Nat
    BY <1>0
  <2>1. \A j \in 1..k - 1 : f[j] \in B /\ j \in DOMAIN s
    <3> SUFFICES ASSUME NEW j \in 1..k - 1 PROVE f[j] \in B /\ j \in DOMAIN s
      OBVIOUS
    <3>1. j \in DOMAIN s /\ j < k /\ f[j] = s[j]
      BY <1>0, <2>0
    <3>2. s[j] \in Range(s)
      BY <3>1 DEF Range
    <3> QED
      BY <3>1, <3>2
  <2>2. \A m \in B : \E j \in 1..k - 1 : f[j] = m
    <3> SUFFICES ASSUME NEW m \in B PROVE \E j \in 1..k - 1 : f[j] = m
      OBVIOUS
    <3>1. PICK j \in DOMAIN s : m = s[j]
      BY DEF Range
    <3>2. j < k
      <4>1. s[j].num < s[k].num /\ s[j].num \in Nat /\ s[k].num \in Nat
        BY <3>1
      <4>2. k # j /\ ~(k < j)
        BY <4>1
      <4> QED
        BY <1>0, <4>2
    <3>3. j \in 1..k - 1
      BY <1>0, <2>0, <3>2
    <3> QED
      BY <3>1, <3>3
  <2>3. \A i, j \in 1..k - 1 : f[i] = f[j] => i = j
    <3> SUFFICES ASSUME NEW i \in 1..k - 1, NEW j \in 1..k - 1, s[i] = s[j], i # j PROVE FALSE
      OBVIOUS
    <3>1. i \in DOMAIN s /\ j \in DOMAIN s /\ s[i].num \in Nat
      BY <2>1
    <3>2. i < j \/ j < i
      BY <2>0
    <3> QED
      BY <3>1, <3>2
  <2> HIDE DEF B
  <2>4. f \in Bijection(1..k - 1, B)
    BY <2>1, <2>2, <2>3 DEF Bijection, Injection, Surjection, IsInjective
  <2>5. ExistsBijection(1..k - 1, B)
    BY <2>4 DEF ExistsBijection
  <2>6. IsFiniteSet(1..k - 1) /\ Cardinality(1..k - 1) = k - 1
    <3>1. PICK n \in Nat : n = k - 1
      BY <2>0
    <3>2. IsFiniteSet(1..n) /\ Cardinality(1..n) = IF 1 > n THEN 0 ELSE n - 1 + 1
      BY FS_Interval
    <3>3. IsFiniteSet(1..n) /\ Cardinality(1..n) = n
      BY <3>2
    <3> QED
      BY <3>1, <3>3
  <2>7. Cardinality(B) = k - 1
    BY <2>5, <2>6, FS_Bijection
  <2> QED
    BY <2>7 DEF B
<1>2. ASSUME NEW i \in DOMAIN s
      PROVE  (CHOOSE l \in Range(s) : Cardinality(Below(l)) = i - 1) = s[i]
  <2> HIDE DEF Below
  <2>1. s[i] \in Range(s) /\ Cardinality(Below(s[i])) = i - 1
    BY <1>1 DEF Range
  <2>2. \A l \in Range(s) : Cardinality(Below(l)) = i - 1 => l = s[i]
    <3> SUFFICES ASSUME NEW l \in Range(s), Cardinality(Below(l)) = i - 1 PROVE l = s[i]
      OBVIOUS
    <3>1. PICK k \in DOMAIN s : l = s[k]
      BY DEF Range
    <3>2. k - 1 = i - 1
      BY <1>1, <3>1
    <3> QED
      BY <1>0, <3>1, <3>2
  <2> QED
    BY <2>1, <2>2
<1>3. Sorted(s) = [i \in DOMAIN s |-> CHOOSE l \in Range(s) : Cardinality(Below(l)) = i - 1]
  BY DEF Sorted
<1> HIDE DEF Below
<1>4. Sorted(s) = [i \in DOMAIN s |-> s[i]]
  BY <1>2, <1>3
<1> QED
  BY <1>0, <1>4

----------------------------------------------------------------------------
\* The listing of the descriptors so far.
Line == [num : Nat, resolved : BOOLEAN]
Listed ==
  /\ fd.total \in 0..Len(proc.fds)
  /\ fd.lines \in Seq(Line)
  /\ Len(fd.lines) = Min({fd.total, MAX_FD_ENTRIES})
  /\ \A i \in 1..Len(fd.lines) : /\ fd.lines[i].num = proc.fds[i]
                                 /\ proc.held => fd.lines[i].resolved = TRUE

\* What a file of the snapshot shows of the process.
ShowsFile(f) ==
  /\ f.name \in Seen \ proc.unreadable
  /\ f.truncated => SizeOf(f.name) > MAX_FILE_BYTES
  /\ proc.held =>
       /\ SizeOf(f.name) > MAX_FILE_BYTES => f.truncated
       /\ f.name \in Range(SIMPLE_FILES) => Len(f.content) = Min({SizeOf(f.name), MAX_FILE_BYTES})
ShowsFd(f) ==
  /\ f.name = "fd" /\ pc \notin {"files", "fd"}
  /\ f.truncated => Len(proc.fds) > MAX_FD_ENTRIES
  /\ proc.held =>
       /\ Len(proc.fds) > MAX_FD_ENTRIES => f.truncated
       /\ f.content = [i \in 1..Min({Len(proc.fds), MAX_FD_ENTRIES}) |->
                         [num |-> proc.fds[i], resolved |-> TRUE]]
ShowsExe(f) == f.name = "exe" /\ pc \notin {"files", "fd", "exe"} /\ ~f.truncated
Shows(f) == ShowsFile(f) \/ ShowsFd(f) \/ ShowsExe(f)

Has(n) == \E f \in Range(files) : f.name = n

\* What a held process must have shown by now.
Complete ==
  /\ \A n \in Seen \ proc.unreadable : Has(n)
  /\ pc \notin {"files", "fd"} => Has("fd")
  /\ pc \notin {"files", "fd", "exe"} => Has("exe")

SnapInv ==
  /\ IsProcess(proc) /\ (proc.held => life = "dumping")
  /\ Reading /\ (pc # "files" => todo = <<>>)
  /\ Listed
  /\ files \in Seq(Range(files))
  /\ \A f \in Range(files) : Shows(f)
  /\ proc.held => Complete
  /\ pc = "done" => tar = {f.name : f \in {g \in Range(files) : g.truncated}}

(* A capture starts with nothing read.                                       *)
LEMMA SnapInit == Init => SnapInv
<1> SUFFICES ASSUME Init PROVE SnapInv
  OBVIOUS
<1>1. IsProcess(proc)
  BY ProcessAssumption DEF Init, ProcessAssumption
<1>2. todo = Order /\ Len(Order) = 7
  BY OrderIs, Zenon DEF Init, Order
<1>3. Reading
  <2>1. Order \in Seq(FileNames)
    BY DEF Order, FileNames
  <2>2. \A i \in 1..7 : todo[i] = Order[7 - 7 + i]
    BY <1>2
  <2> QED
    BY <1>2, <2>1, <2>2 DEF Reading
<1>4. Seen = {}
  BY <1>2 DEF Seen
<1>5. Listed
  <2>1. fd.total = 0 /\ fd.lines = <<>> /\ Len(proc.fds) \in Nat
    BY <1>1 DEF Init, IsProcess
  <2>2. Min({0, MAX_FD_ENTRIES}) = 0
    BY MinIs, SnapshotAssumption DEF SnapshotAssumption
  <2> QED
    <3>1. Len(fd.lines) = 0 /\ fd.lines \in Seq(Line) /\ fd.total \in 0..Len(proc.fds)
      BY <2>1
    <3>2. 1..Len(fd.lines) = {}
      BY <3>1
    <3> QED
      BY <2>1, <2>2, <3>1, <3>2, Zenon DEF Listed
<1>6. files \in Seq(Range(files)) /\ Range(files) = {}
  BY DEF Init, Range
<1> QED
  BY <1>1, <1>3, <1>4, <1>5, <1>6 DEF Init, SnapInv, Complete

(* The files read so far are those before the head of the list.              *)
LEMMA ReadNext ==
  ASSUME Reading, todo # <<>>, todo' = Tail(todo)
  PROVE  /\ Reading' /\ Seen' = Seen \cup {Head(todo)}
         /\ Head(todo) \in Range(SIMPLE_FILES) \cup Blobs /\ Head(todo) \notin Seen
<1>1. PICK n \in 1..7 : n = Len(todo)
  BY DEF Reading
<1>2. /\ todo \in Seq(FileNames) /\ todo' \in Seq(FileNames) /\ Len(todo') = n - 1
      /\ \A i \in 1..n - 1 : todo'[i] = todo[i + 1]
      /\ Head(todo) = todo[1]
  BY <1>1 DEF Reading
<1>3. /\ \A i \in 1..n : todo[i] = Order[7 - n + i]
      /\ 7 - n + 1 = 8 - n /\ 8 - n \in 1..7 /\ 1 \in 1..n
  <2>1. \A i \in 1..n : todo[i] = Order[7 - n + i]
    BY <1>1, Zenon DEF Reading
  <2>2. 7 - n + 1 = 8 - n /\ 8 - n \in 1..7 /\ 1 \in 1..n
    OBVIOUS
  <2> QED
    BY <2>1, <2>2
<1>4. Head(todo) = Order[8 - n]
  BY <1>2, <1>3
<1>5. Reading'
  <2>1. ASSUME NEW i \in 1..n - 1 PROVE todo'[i] = Order[7 - (n - 1) + i]
    <3>1. i + 1 \in 1..n /\ 7 - n + (i + 1) = 7 - (n - 1) + i
      OBVIOUS
    <3>2. todo[i + 1] = Order[7 - n + (i + 1)]
      BY <1>3, <3>1
    <3> QED
      BY <1>2, <3>1, <3>2
  <2>2. n - 1 \in 0..7
    OBVIOUS
  <2> QED
    BY <1>2, <2>1, <2>2, Zenon DEF Reading
<1>6. Seen' = Seen \cup {Head(todo)}
  <2>1. 1..7 - (n - 1) = 1..7 - n \cup {8 - n}
    OBVIOUS
  <2> QED
    BY <1>1, <1>2, <1>4, <2>1 DEF Seen
<1>7. \A i, j \in 1..7 : i # j => Order[i] # Order[j]
  <2>1. 1..7 = {1, 2, 3, 4, 5, 6, 7}
    OBVIOUS
  <2> QED
    BY <2>1 DEF Order
<1>8. Head(todo) \notin Seen
  <2> SUFFICES ASSUME NEW i \in 1..7 - n, Order[i] = Head(todo) PROVE FALSE
    BY <1>1 DEF Seen
  <2>1. i \in 1..7 /\ i # 8 - n
    OBVIOUS
  <2> QED
    BY <1>3, <1>4, <1>7, <2>1, Zenon
<1>9. Head(todo) \in Range(SIMPLE_FILES) \cup Blobs
  BY <1>3, <1>4, OrderIs
<1> QED
  BY <1>5, <1>6, <1>8, <1>9

(* What a file shows of the process, it shows from then on.                  *)
LEMMA ShowsStay ==
  ASSUME proc' = proc, Seen \subseteq Seen',
         pc \notin {"files", "fd"} => pc' \notin {"files", "fd"},
         pc \notin {"files", "fd", "exe"} => pc' \notin {"files", "fd", "exe"},
         NEW f, Shows(f)
  PROVE  Shows(f)'
<1>1. \A n : SizeOf(n)' = SizeOf(n)
  BY DEF SizeOf
<1>2. CASE ShowsFile(f)
  BY <1>1, <1>2, Zenon DEF ShowsFile, Shows
<1>3. CASE ShowsFd(f)
  BY <1>3 DEF ShowsFd, Shows
<1>4. CASE ShowsExe(f)
  BY <1>4 DEF ShowsExe, Shows
<1> QED
  BY <1>2, <1>3, <1>4 DEF Shows

(* A step that reads nothing keeps the invariant, if it goes on only from a
   completed part or a process that is not held.                             *)
LEMMA QuietStep ==
  ASSUME SnapInv, UNCHANGED <<proc, todo, fd, files>>,
         proc.held => life' = life,
         pc' # "files" => todo = <<>>,
         pc \notin {"files", "fd"} => pc' \notin {"files", "fd"},
         pc \notin {"files", "fd", "exe"} => pc' \notin {"files", "fd", "exe"},
         proc.held => /\ pc \in {"files", "fd"} => pc' \in {"files", "fd"}
                      /\ pc \in {"files", "fd", "exe"} => pc' \in {"files", "fd", "exe"},
         pc' = "done" => tar' = {f.name : f \in {g \in Range(files) : g.truncated}}
  PROVE  SnapInv'
<1>1. Seen' = Seen
  BY DEF Seen
<1>2. Reading' /\ Listed' /\ IsProcess(proc)' /\ (proc'.held => life' = "dumping")
  BY Zenon DEF SnapInv, Reading, Listed, IsProcess
<1>3. \A f \in Range(files') : Shows(f)'
  BY <1>1, ShowsStay, Zenon DEF SnapInv
<1>4. proc'.held => Complete'
  BY <1>1, Zenon DEF SnapInv, Complete, Has
<1> QED
  BY <1>2, <1>3, <1>4, Zenon DEF SnapInv

(* A step that adds a file keeps the invariant, if the file shows what it must
   and completes what the step moves on from.                                *)
LEMMA AddStep ==
  ASSUME SnapInv, NEW f, files' = Append(files, f), UNCHANGED <<proc, life, fd>>, Shows(f)',
         Reading', pc' # "files" => todo' = <<>>, Seen \subseteq Seen', pc' # "done",
         pc \notin {"files", "fd"} => pc' \notin {"files", "fd"},
         pc \notin {"files", "fd", "exe"} => pc' \notin {"files", "fd", "exe"},
         Seen' \subseteq Seen \cup {f.name},
         pc \in {"files", "fd"} /\ pc' \notin {"files", "fd"} => f.name = "fd",
         pc \in {"files", "fd", "exe"} /\ pc' \notin {"files", "fd", "exe"} => f.name = "exe"
  PROVE  SnapInv'
<1>1. files' \in Seq(Range(files')) /\ Range(files') = Range(files) \cup {f}
  BY RangeAppend DEF SnapInv
<1>2. Listed' /\ IsProcess(proc)' /\ (proc'.held => life' = "dumping")
  BY Zenon DEF SnapInv, Listed, IsProcess
<1>3. ASSUME NEW g \in Range(files') PROVE Shows(g)'
  <2>1. CASE g = f
    BY <2>1
  <2>2. CASE g \in Range(files)
    BY <2>2, ShowsStay DEF SnapInv
  <2> QED
    BY <1>1, <2>1, <2>2
<1>4. (\A n : Has(n) => Has(n)') /\ \A n : n = f.name => Has(n)'
  BY <1>1 DEF Has
<1>5. proc'.held => Complete'
  <2> SUFFICES ASSUME proc.held PROVE Complete'
    OBVIOUS
  <2>1. Complete
    BY DEF SnapInv
  <2>2. \A n \in Seen' \ proc'.unreadable : Has(n)'
    BY <1>4, <2>1 DEF Complete
  <2>3. pc' \notin {"files", "fd"} => Has("fd")'
    BY <1>4, <2>1 DEF Complete
  <2>4. pc' \notin {"files", "fd", "exe"} => Has("exe")'
    BY <1>4, <2>1 DEF Complete
  <2> QED
    BY <2>2, <2>3, <2>4 DEF Complete
<1> QED
  BY <1>1, <1>2, <1>3, <1>5 DEF SnapInv

(* Of an ordinary file as many units are stored as were read.                *)
LEMMA RenderLen ==
  ASSUME NEW name \in Range(SIMPLE_FILES), NEW n \in Nat
  PROVE  Len(Render(name, n)) = n
<1>1. name # "environ" /\ name # "cmdline"
  BY OrderIs
<1>2. Render(name, n) = [i \in 1..n |-> name]
  BY <1>1 DEF Render
<1> QED
  BY <1>2

(* ReadFile keeps the invariant.                                             *)
LEMMA ReadFileStep ==
  ASSUME SnapInv, ReadFile
  PROVE  SnapInv'
<1> DEFINE n == Head(todo)
<1>1. pc = "files" /\ todo # <<>> /\ todo' = Tail(todo) /\ UNCHANGED <<proc, life, pc, fd>>
  BY DEF ReadFile, FilesAfter
<1>2. /\ Reading' /\ Seen' = Seen \cup {n}
      /\ n \in Range(SIMPLE_FILES) \cup Blobs /\ n \notin Seen
  BY <1>1, ReadNext DEF SnapInv
<1>3. SizeOf(n) \in Nat
  BY <1>2, SizeIs DEF SnapInv
<1>4. CASE Unreadable(n)
  <2>1. files' = files
    BY <1>4 DEF ReadFile
  <2>2. proc.held => n \in proc.unreadable
    BY <1>4 DEF Unreadable, SnapInv
  <2>3. Listed' /\ IsProcess(proc)' /\ (proc'.held => life' = "dumping")
    BY <1>1, Zenon DEF SnapInv, Listed, IsProcess
  <2>4. \A f \in Range(files') : Shows(f)'
    BY <1>1, <1>2, <2>1, ShowsStay DEF SnapInv
  <2>5. proc'.held => Complete'
    BY <1>1, <1>2, <2>1, <2>2 DEF SnapInv, Complete, Has
  <2> QED
    BY <1>1, <1>2, <2>1, <2>3, <2>4, <2>5 DEF SnapInv
<1>5. CASE ~Unreadable(n)
  <2>1. PICK size \in SizesRead(n) :
          files' = Append(files, File(n, Render(n, read_capped(size).len), read_capped(size).truncated))
    BY <1>5 DEF ReadFile
  <2>2. size \in Nat /\ size <= SizeOf(n) /\ (proc.held => size = SizeOf(n))
    BY <1>3 DEF SizesRead, SnapInv
  <2>3. PICK f : f = File(n, Render(n, read_capped(size).len), read_capped(size).truncated)
    OBVIOUS
  <2>4. f.name = n /\ f.content = Render(n, read_capped(size).len) /\ f.truncated = read_capped(size).truncated
    BY <2>3 DEF File
  <2>5. /\ f.truncated = (size > MAX_FILE_BYTES)
        /\ read_capped(size).len = Min({size, MAX_FILE_BYTES}) /\ read_capped(size).len \in Nat
    BY <2>2, <2>4, CappedIs
  <2>6. f.name \in Range(SIMPLE_FILES) => Len(f.content) = Min({size, MAX_FILE_BYTES})
    BY <2>4, <2>5, RenderLen
  <2>7. f.truncated => SizeOf(n) > MAX_FILE_BYTES
    <3>1. MAX_FILE_BYTES \in Nat
      BY SnapshotAssumption DEF SnapshotAssumption
    <3>2. PICK z \in Nat : z = SizeOf(n)
      BY <1>3
    <3>3. size <= z /\ size \in Nat
      BY <2>2, <3>2
    <3>4. size > MAX_FILE_BYTES => z > MAX_FILE_BYTES
      BY <3>1, <3>3
    <3> QED
      BY <2>5, <3>2, <3>4, Zenon
  <2>8. n \notin proc.unreadable
    BY <1>5 DEF Unreadable
  <2>9. ShowsFile(f)'
    <3> HIDE DEF n
    <3>1. f.name \in Seen' \ proc'.unreadable
      BY <1>1, <1>2, <2>4, <2>8
    <3>2. SizeOf(f.name)' = SizeOf(n)
      BY <1>1, <2>4 DEF SizeOf
    <3> QED
      BY <1>1, <2>2, <2>5, <2>6, <2>7, <3>1, <3>2, Zenon DEF ShowsFile
  <2> QED
    BY <1>1, <1>2, <2>1, <2>3, <2>4, <2>9, AddStep, Zenon DEF Shows
<1> QED
  BY <1>4, <1>5

(* read_fd_listing: a dirent is counted, and listed below the cap.           *)
LEMMA ReadDirentStep ==
  ASSUME SnapInv, ReadDirent
  PROVE  SnapInv'
<1>1. /\ pc = "fd" /\ fd.total < Len(proc.fds)
      /\ UNCHANGED <<proc, life, pc, todo, files, tar>>
  BY DEF ReadDirent
<1>2. PICK t \in Nat, lines \in Seq(Line) : t = fd.total /\ lines = fd.lines
  <2>1. Len(proc.fds) \in Nat
    BY DEF SnapInv, IsProcess
  <2>2. fd.total \in Nat /\ fd.lines \in Seq(Line)
    BY <2>1 DEF SnapInv, Listed
  <2> QED
    BY <2>2
<1>3. MAX_FD_ENTRIES \in Nat \ {0} /\ t < Len(proc.fds) /\ proc.fds \in Seq(Nat) /\ Len(proc.fds) \in Nat
  BY <1>1, <1>2, SnapshotAssumption DEF SnapshotAssumption, SnapInv, IsProcess
<1>4. /\ Min({t, MAX_FD_ENTRIES}) = IF t <= MAX_FD_ENTRIES THEN t ELSE MAX_FD_ENTRIES
      /\ Min({t + 1, MAX_FD_ENTRIES}) = IF t + 1 <= MAX_FD_ENTRIES THEN t + 1 ELSE MAX_FD_ENTRIES
  <2>1. \A a, b \in Nat : Min({a, b}) = IF a <= b THEN a ELSE b
    BY MinIs
  <2>2. t + 1 \in Nat /\ MAX_FD_ENTRIES \in Nat
    BY <1>3
  <2> QED
    BY <2>1, <2>2, Zenon
<1>5. /\ Len(lines) = Min({t, MAX_FD_ENTRIES})
      /\ \A i \in 1..Len(lines) : lines[i].num = proc.fds[i] /\ (proc.held => lines[i].resolved = TRUE)
  BY <1>2, Zenon DEF SnapInv, Listed
<1>6. t + 1 \in 0..Len(proc.fds)
  BY <1>2, <1>3
<1>7. Listed'
  <2> DEFINE x == [num |-> proc.fds[t + 1], resolved |-> life = "dumping"]
  <2>1. CASE Len(lines) >= MAX_FD_ENTRIES
    <3>1. fd' = [total |-> t + 1, lines |-> lines]
      BY <1>2, <2>1 DEF ReadDirent
    <3>2. Min({t + 1, MAX_FD_ENTRIES}) = Len(lines)
      BY <1>2, <1>3, <1>4, <1>5, <2>1
    <3>3. fd'.total = t + 1 /\ fd'.lines = lines
      BY <3>1
    <3> QED
      BY <1>1, <1>2, <1>5, <1>6, <3>2, <3>3 DEF Listed
  <2>2. CASE ~(Len(lines) >= MAX_FD_ENTRIES)
    <3>1. fd' = [total |-> t + 1, lines |-> Append(lines, x)]
      BY <1>2, <2>2, Zenon DEF ReadDirent
    <3>2. Len(lines) = t /\ Min({t + 1, MAX_FD_ENTRIES}) = t + 1
      BY <1>2, <1>3, <1>4, <1>5, <2>2
    <3>3. t + 1 \in 1..Len(proc.fds)
      BY <1>2, <1>3
    <3>4. proc.fds[t + 1] \in Nat
      BY <1>3, <3>3
    <3>5. x \in Line /\ x.num = proc.fds[t + 1]
      BY <3>4 DEF Line
    <3>6. proc.held => x.resolved = TRUE
      BY Zenon DEF SnapInv
    <3> HIDE DEF x
    <3>7. PICK s : s = Append(lines, x)
      BY Zenon
    <3>8. s \in Seq(Line) /\ Len(s) = t + 1 /\ s[t + 1] = x
          /\ \A i \in 1..t : s[i] = lines[i]
      BY <1>2, <3>2, <3>5, <3>7
    <3>9. \A i \in 1..t + 1 : i \in 1..t \/ i = t + 1
      BY <1>2
    <3>10. \A i \in 1..t + 1 : s[i].num = proc.fds[i] /\ (proc.held => s[i].resolved = TRUE)
      BY <1>5, <3>2, <3>5, <3>6, <3>8, <3>9, Zenon
    <3>11. fd'.total = t + 1 /\ fd'.lines = s
      BY <3>1, <3>7
    <3> QED
      BY <1>1, <1>6, <3>2, <3>8, <3>10, <3>11 DEF Listed
  <2> QED
    BY <2>1, <2>2
<1>8. Seen' = Seen /\ Reading' /\ IsProcess(proc)' /\ (proc'.held => life' = "dumping")
  BY <1>1 DEF SnapInv, Seen, Reading, IsProcess
<1>9. \A f \in Range(files') : Shows(f)'
  BY <1>1, <1>8, ShowsStay, Zenon DEF SnapInv
<1>10. proc'.held => Complete'
  BY <1>1, <1>8 DEF SnapInv, Complete, Has
<1> QED
  BY <1>1, <1>7, <1>8, <1>9, <1>10, Zenon DEF SnapInv

(* read_fd_listing: the finished listing says what there is and what is cut. *)
LEMMA EndFdStep ==
  ASSUME SnapInv, EndFd
  PROVE  SnapInv'
<1>1. /\ pc = "fd" /\ (fd.total = Len(proc.fds) \/ life # "dumping") /\ pc' = "exe"
      /\ files' = Append(files, File("fd", Sorted(fd.lines), fd.total > Len(fd.lines)))
      /\ UNCHANGED <<proc, life, todo, fd, tar>>
  BY DEF EndFd
<1>2. PICK t \in Nat, lines \in Seq(Line) : t = fd.total /\ lines = fd.lines
  <2>1. Len(proc.fds) \in Nat
    BY DEF SnapInv, IsProcess
  <2>2. fd.total \in Nat /\ fd.lines \in Seq(Line)
    BY <2>1 DEF SnapInv, Listed
  <2> QED
    BY <2>2
<1>3. PICK m \in Nat : m = Len(proc.fds)
  BY DEF SnapInv, IsProcess
<1>4. MAX_FD_ENTRIES \in Nat \ {0} /\ t <= m
  BY <1>2, <1>3, SnapshotAssumption DEF SnapshotAssumption, SnapInv, Listed
<1>5. /\ Len(lines) = IF t <= MAX_FD_ENTRIES THEN t ELSE MAX_FD_ENTRIES
      /\ \A i \in 1..Len(lines) : lines[i].num = proc.fds[i] /\ (proc.held => lines[i].resolved = TRUE)
  BY <1>2, <1>4, MinIs DEF SnapInv, Listed
<1>6. proc.held => t = m
  BY <1>1, <1>2, <1>3 DEF SnapInv
<1>7. Len(lines) \in Nat /\ Len(lines) <= m /\ DOMAIN lines = 1..Len(lines)
  BY <1>2, <1>4, <1>5
<1>8. Sorted(lines) = lines
  <2>1. lines \in Seq(Range(lines))
    BY <1>2, <1>7 DEF Range
  <2>2. DOMAIN proc.fds = 1..m /\ \A i, j \in DOMAIN proc.fds : i < j => proc.fds[i] < proc.fds[j]
    BY <1>3 DEF SnapInv, IsProcess
  <2>3. \A i \in DOMAIN lines : i \in DOMAIN proc.fds /\ lines[i].num = proc.fds[i] /\ lines[i].num \in Nat
    <3> SUFFICES ASSUME NEW i \in DOMAIN lines
                 PROVE  i \in DOMAIN proc.fds /\ lines[i].num = proc.fds[i] /\ lines[i].num \in Nat
      OBVIOUS
    <3>1. i \in DOMAIN proc.fds
      BY <1>3, <1>7, <2>2
    <3>2. lines[i] \in Line
      BY <1>2, <1>7
    <3> QED
      BY <1>5, <1>7, <3>1, <3>2 DEF Line
  <2>4. \A i, j \in DOMAIN lines : i < j => lines[i].num < lines[j].num
    BY <2>2, <2>3
  <2> QED
    BY <2>1, <2>3, <2>4, SortedStays
<1>9. PICK f : f = File("fd", Sorted(fd.lines), fd.total > Len(fd.lines))
  OBVIOUS
<1>10. f.name = "fd" /\ f.content = lines /\ f.truncated = (t > Len(lines))
  BY <1>2, <1>8, <1>9 DEF File
<1>11. (t > Len(lines)) = (t > MAX_FD_ENTRIES)
  BY <1>2, <1>4, <1>5
<1>12. ASSUME proc.held
       PROVE  lines = [i \in 1..Min({m, MAX_FD_ENTRIES}) |-> [num |-> proc.fds[i], resolved |-> TRUE]]
  <2>1. Min({m, MAX_FD_ENTRIES}) = Len(lines)
    BY <1>3, <1>4, <1>5, <1>6, <1>12, MinIs
  <2>2. ASSUME NEW i \in 1..Len(lines) PROVE lines[i] = [num |-> proc.fds[i], resolved |-> TRUE]
    <3>1. lines[i] \in Line
      BY <1>2, <1>7
    <3>2. lines[i].num = proc.fds[i] /\ lines[i].resolved = TRUE
      BY <1>5, <1>12
    <3> QED
      BY <3>1, <3>2, Zenon DEF Line
  <2>3. lines = [i \in 1..Len(lines) |-> lines[i]]
    BY <1>2
  <2> QED
    BY <2>1, <2>2, <2>3, Zenon
<1>13. ShowsFd(f)'
  <2>1. f.truncated => m > MAX_FD_ENTRIES
    <3>1. t > MAX_FD_ENTRIES => m > MAX_FD_ENTRIES
      BY <1>4
    <3> QED
      BY <1>10, <1>11, <3>1, Zenon
  <2>2. proc.held => (m > MAX_FD_ENTRIES => f.truncated)
    BY <1>6, <1>10, <1>11, Zenon
  <2> QED
    BY <1>1, <1>3, <1>10, <1>12, <2>1, <2>2, Zenon DEF ShowsFd
<1>14. Seen' = Seen /\ Reading' /\ todo' = <<>>
  BY <1>1 DEF SnapInv, Seen, Reading
<1> QED
  BY <1>1, <1>9, <1>10, <1>13, <1>14, AddStep DEF Shows

(* Every step keeps the invariant.                                           *)
LEMMA SnapStep == SnapInv /\ [Next]_vars => SnapInv'
<1> SUFFICES ASSUME SnapInv, [Next]_vars PROVE SnapInv'
  OBVIOUS
<1>1. CASE UNCHANGED vars
  BY <1>1, QuietStep, Zenon DEF vars, SnapInv
<1>2. CASE OpenFd
  BY <1>2, QuietStep, Zenon DEF OpenFd, SnapInv
<1>3. CASE ReadExe
  <2>1. pc = "exe" /\ pc' = "open exe" /\ UNCHANGED <<proc, life, todo, fd, tar>>
    BY <1>3, Zenon DEF ReadExe
  <2>2. CASE life = "dumping"
    <3>1. PICK f : f = File("exe", <<"exe">>, FALSE)
      BY Zenon
    <3>2. files' = Append(files, f)
      BY <1>3, <2>2, <3>1, Zenon DEF ReadExe
    <3>3. f.name = "exe" /\ f.truncated = FALSE
      BY <3>1 DEF File
    <3>4. Shows(f)'
      BY <2>1, <3>3, Zenon DEF Shows, ShowsExe
    <3>5. Seen' = Seen /\ Reading' /\ todo' = <<>>
      BY <2>1, Zenon DEF SnapInv, Seen, Reading
    <3> QED
      BY <2>1, <3>2, <3>3, <3>4, <3>5, AddStep, Zenon
  <2>3. CASE life # "dumping"
    <3>1. files' = files /\ ~proc.held
      BY <1>3, <2>3, Zenon DEF ReadExe, SnapInv
    <3> QED
      BY <2>1, <3>1, QuietStep, Zenon DEF SnapInv
  <2> QED
    BY <2>2, <2>3
<1>4. CASE OpenExe
  BY <1>4, QuietStep, Zenon DEF OpenExe, SnapInv
<1>5. CASE Scan
  BY <1>5, QuietStep, Zenon DEF Scan, SnapInv
<1>6. CASE ReadCgroup
  BY <1>6, QuietStep, Zenon DEF ReadCgroup, SnapInv
<1>7. CASE ToTar
  <2>1. pc = "tar" /\ pc' = "done" /\ UNCHANGED <<proc, life, todo, fd, files>>
        /\ tar' = {files[i].name : i \in {j \in DOMAIN files : files[j].truncated}}
    BY <1>7 DEF ToTar
  <2>2. tar' = {f.name : f \in {g \in Range(files) : g.truncated}}
    BY <2>1 DEF Range
  <2> QED
    BY <2>1, <2>2, QuietStep, Zenon DEF SnapInv
<1>8. CASE Release
  BY <1>8, QuietStep, Zenon DEF Release, SnapInv
<1> QED
  BY <1>1, <1>2, <1>3, <1>4, <1>5, <1>6, <1>7, <1>8, ReadFileStep, ReadDirentStep, EndFdStep
     DEF Next, Step

(* The invariant holds in every state.                                       *)
LEMMA SnapHolds == Spec => []SnapInv
BY SnapInit, SnapStep, PTL DEF Spec

(* When the snapshot is done, every file has been tried.                     *)
LEMMA AllSeen ==
  ASSUME SnapInv, Done
  PROVE  Seen = Range(SIMPLE_FILES) \cup Blobs
<1>1. todo = <<>>
  BY DEF SnapInv, Done
<1>2. Len(todo) = 0 /\ 7 - 0 = 7
  BY <1>1
<1>3. Seen = {Order[i] : i \in 1..7}
  BY <1>2 DEF Seen
<1> QED
  BY <1>3, OrderIs, Zenon

(* snapshot.rs: for every process and every cap, TRUNCATED names only what the
   process has more of, and all of that if the kernel holds the process.     *)
THEOREM TruncationIsExact == Spec => []TruncatedExact
<1>1. ASSUME SnapInv PROVE TruncatedExact
  <2> SUFFICES ASSUME Done PROVE TruncatedExact
    BY DEF TruncatedExact
  <2> DEFINE longer == {n \in Range(SIMPLE_FILES) \cup Blobs : SizeOf(n) > MAX_FILE_BYTES} \ proc.unreadable
             cut == longer \cup (IF Len(proc.fds) > MAX_FD_ENTRIES THEN {"fd"} ELSE {})
  <2>1. Seen = Range(SIMPLE_FILES) \cup Blobs
    BY <1>1, AllSeen
  <2>2. tar = {f.name : f \in {g \in Range(files) : g.truncated}} /\ \A f \in Range(files) : Shows(f)
    BY <1>1 DEF SnapInv, Done
  <2>3. ASSUME NEW n \in tar PROVE n \in cut
    <3>1. PICK f \in Range(files) : f.truncated /\ f.name = n
      BY <2>2
    <3>2. CASE ShowsFile(f)
      BY <2>1, <3>1, <3>2 DEF ShowsFile
    <3>3. CASE ShowsFd(f)
      BY <3>1, <3>3 DEF ShowsFd
    <3>4. ~ShowsExe(f)
      BY <3>1 DEF ShowsExe
    <3> QED
      BY <2>2, <3>2, <3>3, <3>4 DEF Shows
  <2>4. ASSUME proc.held, NEW n \in cut PROVE n \in tar
    <3>1. Complete /\ (n \in longer => n \in Seen \ proc.unreadable)
      BY <1>1, <2>1, <2>4 DEF SnapInv
    <3>2. PICK f \in Range(files) : f.name = n
      BY <2>4, <3>1 DEF Complete, Has, Done
    <3>3. f.truncated
      <4>1. CASE ShowsFile(f)
        <5>1. n # "fd"
          BY <2>1, <3>2, <4>1, OrderIs DEF ShowsFile, Blobs
        <5> QED
          BY <2>4, <3>2, <4>1, <5>1 DEF ShowsFile
      <4>2. CASE ShowsFd(f)
        <5>1. n = "fd" /\ n \notin longer
          BY <3>2, <4>2, OrderIs DEF ShowsFd, Blobs
        <5> QED
          BY <2>4, <4>2, <5>1 DEF ShowsFd
      <4>3. ~ShowsExe(f)
        BY <2>4, <3>2, OrderIs DEF ShowsExe, Blobs
      <4> QED
        BY <2>2, <4>1, <4>2, <4>3 DEF Shows
    <3> QED
      BY <2>2, <3>2, <3>3
  <2> HIDE DEF longer, cut
  <2>5. tar \subseteq cut /\ (proc.held => tar = cut)
    BY <2>3, <2>4
  <2> QED
    BY <2>5 DEF TruncatedExact, longer, cut
<1> QED
  BY <1>1, SnapHolds, PTL

(* snapshot.rs: for every process the kernel holds and every cap, the snapshot is
   whole, and an unreadable file costs only itself.                          *)
THEOREM HeldIsWhole == Spec => []WholeIfHeld
<1>1. ASSUME SnapInv PROVE WholeIfHeld
  <2> SUFFICES ASSUME Done, proc.held PROVE WholeIfHeld
    BY Zenon DEF WholeIfHeld
  <2> DEFINE All == {"maps", "smaps", "status", "fd", "limits", "environ", "cmdline", "stack", "exe"}
  <2>1. Seen = Range(SIMPLE_FILES) \cup Blobs
    BY <1>1, AllSeen
  <2>2. (\A f \in Range(files) : Shows(f)) /\ Complete /\ proc.unreadable \subseteq Range(SIMPLE_FILES) \cup Blobs
    BY <1>1, Zenon DEF SnapInv, IsProcess
  <2>3. Seen \cup {"fd", "exe"} = All
    BY <2>1, OrderIs DEF Blobs
  <2>4. "fd" \notin Range(SIMPLE_FILES) \cup Blobs /\ "exe" \notin Range(SIMPLE_FILES) \cup Blobs
    BY OrderIs DEF Blobs
  <2> HIDE DEF All
  <2>5. \A f \in Range(files) : f.name \in All \ proc.unreadable
    BY <2>2, <2>3, <2>4, Zenon DEF Shows, ShowsFile, ShowsFd, ShowsExe
  <2>6. \A n \in All \ proc.unreadable : Has(n)
    BY <2>2, <2>3 DEF Complete, Done
  <2>7. {f.name : f \in Range(files)} = All \ proc.unreadable
    BY <2>5, <2>6 DEF Has
  <2>8. ASSUME NEW f \in Range(files)
        PROVE  /\ f.name \in Range(SIMPLE_FILES) => Len(f.content) = Min({SizeOf(f.name), MAX_FILE_BYTES})
               /\ f.name = "fd" =>
                    f.content = [i \in 1..Min({Len(proc.fds), MAX_FD_ENTRIES}) |->
                                   [num |-> proc.fds[i], resolved |-> TRUE]]
    <3>1. CASE ShowsFile(f)
      BY <2>1, <2>4, <3>1 DEF ShowsFile
    <3>2. CASE ShowsFd(f)
      BY <2>4, <3>2 DEF ShowsFd
    <3>3. CASE ShowsExe(f)
      BY <2>4, <3>3 DEF ShowsExe
    <3> QED
      BY <2>2, <3>1, <3>2, <3>3 DEF Shows
  <2> QED
    BY <2>7, <2>8, Zenon DEF WholeIfHeld, All
<1> QED
  BY <1>1, SnapHolds, PTL

----------------------------------------------------------------------------
IdInv ==
  pc \in {"tar", "done"} => /\ identity \subseteq proc.identity
                            /\ proc.held /\ ~proc.colon => identity = proc.identity

(* The identity is read once, and is right when it is.                       *)
LEMMA IdStep == SnapInv /\ IdInv /\ [Next]_vars => IdInv'
<1> SUFFICES ASSUME SnapInv, IdInv, [Next]_vars PROVE IdInv'
  OBVIOUS
<1>1. Placed(proc.cgroup, proc.identity, proc.colon) /\ (proc.held => life = "dumping")
  BY DEF SnapInv, IsProcess
<1>2. CASE ReadCgroup
  <2>1. UNCHANGED proc /\ (identity' = parse_cgroup(proc.cgroup) \/ (life # "dumping" /\ identity' = {}))
    BY <1>2 DEF ReadCgroup
  <2> QED
    BY <1>1, <2>1, ParsedRight DEF IdInv
<1>3. CASE ToTar
  BY <1>3 DEF ToTar, IdInv
<1>4. CASE Release
  BY <1>4 DEF Release, IdInv
<1>5. CASE UNCHANGED vars
  BY <1>5 DEF vars, IdInv
<1>6. CASE ReadFile \/ OpenFd \/ ReadDirent \/ EndFd \/ ReadExe \/ OpenExe \/ Scan
  BY <1>6, Zenon DEF ReadFile, OpenFd, ReadDirent, EndFd, ReadExe, OpenExe, Scan, IdInv
<1> QED
  BY <1>2, <1>3, <1>4, <1>5, <1>6 DEF Next, Step

(* cgroup.rs: for every process in a container, under either driver, either version
   and every runtime, and for every one in none, the identity is the process's own,
   or none if the process is gone or in a cgroup with ':' in its name.        *)
THEOREM IdentityIsRight == Spec => []IdentityRight
<1>1. Init => IdInv
  BY DEF Init, IdInv
<1>2. IdInv => IdentityRight
  BY DEF IdInv, IdentityRight, Done
<1> QED
  BY <1>1, <1>2, IdStep, SnapHolds, PTL DEF Spec

----------------------------------------------------------------------------
\* What of environ or cmdline a file of the snapshot holds: a prefix, redacted, and
\* all of it unless it is marked, or the process has exited.
ShowsBlob(f) ==
  \E n \in 0..SizeOf(f.name) :
    /\ f.content = Render(f.name, n)
    /\ proc.held => n = Min({SizeOf(f.name), MAX_FILE_BYTES})
    /\ n = SizeOf(f.name) \/ f.truncated \/ life # "dumping"

BlobInv == \A f \in BlobFiles : ShowsBlob(f)

(* What a file shows of environ or cmdline, it shows from then on.           *)
LEMMA BlobStays ==
  ASSUME UNCHANGED <<proc, redact>>, life # "dumping" => life' # "dumping", NEW f, ShowsBlob(f)
  PROVE  ShowsBlob(f)'
<1>1. \A n : SizeOf(n)' = SizeOf(n)
  BY DEF SizeOf
<1>2. \A n, l : Render(n, l)' = Render(n, l)
  BY Zenon DEF Render
<1> QED
  BY <1>1, <1>2, Zenon DEF ShowsBlob

(* ReadFile: the file that it adds is such a prefix.                         *)
LEMMA ReadBlob ==
  ASSUME SnapInv, ReadFile, NEW f, f \in BlobFiles', f \notin BlobFiles
  PROVE  ShowsBlob(f)'
<1> DEFINE n == Head(todo)
<1>1. pc = "files" /\ todo # <<>> /\ todo' = Tail(todo) /\ UNCHANGED <<proc, redact, life>>
  BY DEF ReadFile, FilesAfter
<1>2. n \in Range(SIMPLE_FILES) \cup Blobs
  BY <1>1, ReadNext DEF SnapInv
<1>3. SizeOf(n) \in Nat
  BY <1>2, SizeIs DEF SnapInv
<1>4. ~Unreadable(n)
  <2>1. Unreadable(n) => files' = files
    BY Zenon DEF ReadFile
  <2> QED
    BY <2>1, Zenon DEF BlobFiles
<1>5. PICK size \in SizesRead(n) :
        files' = Append(files, File(n, Render(n, read_capped(size).len), read_capped(size).truncated))
  BY <1>4 DEF ReadFile
<1>6. /\ size \in Nat /\ size <= SizeOf(n)
      /\ proc.held => size = SizeOf(n)
      /\ life = "dumping" => size = SizeOf(n)
  BY <1>3 DEF SizesRead, SnapInv
<1>7. f = File(n, Render(n, read_capped(size).len), read_capped(size).truncated)
  <2> DEFINE g == File(n, Render(n, read_capped(size).len), read_capped(size).truncated)
  <2> HIDE DEF g
  <2>1. Range(files') = Range(files) \cup {g}
    BY <1>5, RangeAppend DEF SnapInv, g
  <2>2. f = g
    BY <2>1, Zenon DEF BlobFiles
  <2> QED
    BY <2>2 DEF g
<1>8. /\ f.name = n /\ f.content = Render(n, read_capped(size).len)
      /\ f.truncated = read_capped(size).truncated
  BY <1>7 DEF File
<1>9. /\ f.truncated = (size > MAX_FILE_BYTES)
      /\ read_capped(size).len = Min({size, MAX_FILE_BYTES}) /\ read_capped(size).len \in Nat
  BY <1>6, <1>8, CappedIs
<1>10. MAX_FILE_BYTES \in Nat
  BY SnapshotAssumption DEF SnapshotAssumption
<1> HIDE DEF n
<1>11. PICK z \in Nat, l \in Nat : z = SizeOf(n) /\ l = read_capped(size).len
  BY <1>3, <1>9
<1>12. l = IF size <= MAX_FILE_BYTES THEN size ELSE MAX_FILE_BYTES
  BY <1>6, <1>9, <1>10, <1>11, MinIs
<1>13. /\ l \in 0..z
       /\ life = "dumping" => l = z \/ f.truncated
  <2>1. size <= z /\ (life = "dumping" => size = z)
    BY <1>6, <1>11
  <2>2. l <= z
    BY <1>6, <1>10, <1>12, <2>1
  <2>3. size > MAX_FILE_BYTES => f.truncated
    BY <1>9, Zenon
  <2>4. l = size \/ size > MAX_FILE_BYTES
    BY <1>6, <1>10, <1>12
  <2> QED
    BY <1>11, <2>1, <2>2, <2>3, <2>4
<1>14. proc.held => l = Min({z, MAX_FILE_BYTES})
  BY <1>6, <1>9, <1>11, Zenon
<1>15. ShowsBlob(f)
  BY <1>8, <1>11, <1>13, <1>14, Zenon DEF ShowsBlob
<1> QED
  BY <1>1, <1>15, BlobStays, Zenon

(* No step but ReadFile adds such a file.                                    *)
LEMMA BlobStep == SnapInv /\ BlobInv /\ [Next]_vars => BlobInv'
<1> SUFFICES ASSUME SnapInv, BlobInv, [Next]_vars, NEW f \in BlobFiles' PROVE ShowsBlob(f)'
  BY Zenon DEF BlobInv
<1>1. UNCHANGED <<proc, redact>> /\ (life # "dumping" => life' # "dumping")
  <2>1. CASE Release
    BY <2>1 DEF Release
  <2>2. CASE ~Release
    BY <2>2, Zenon DEF Next, Step, vars, ReadFile, OpenFd, ReadDirent, EndFd, ReadExe, OpenExe, Scan, ReadCgroup, ToTar
  <2> QED
    BY <2>1, <2>2
<1>2. CASE f \in BlobFiles
  BY <1>1, <1>2, BlobStays, Zenon DEF BlobInv
<1>3. CASE f \notin BlobFiles
  <2>1. CASE ReadFile
    BY <1>3, <2>1, ReadBlob, Zenon
  <2>2. CASE EndFd \/ ReadExe
    <3>1. PICK g : /\ files' = files \/ files' = Append(files, g)
                   /\ g.name \in {"fd", "exe"}
      <4>1. CASE EndFd
        <5>1. File("fd", Sorted(fd.lines), fd.total > Len(fd.lines)).name = "fd"
          BY DEF File
        <5> QED
          BY <4>1, <5>1, Zenon DEF EndFd
      <4>2. CASE ReadExe
        <5>1. File("exe", <<"exe">>, FALSE).name = "exe"
          BY DEF File
        <5>2. files' = Append(files, File("exe", <<"exe">>, FALSE)) \/ files' = files
          BY <4>2, Zenon DEF ReadExe
        <5> QED
          BY <5>1, <5>2, Zenon
      <4> QED
        BY <2>2, <4>1, <4>2
    <3>2. Range(files') \subseteq Range(files) \cup {g}
      BY <3>1, RangeAppend, Zenon DEF SnapInv
    <3>3. g.name \notin Blobs
      BY <3>1 DEF Blobs
    <3> QED
      BY <1>3, <3>2, <3>3, Zenon DEF BlobFiles
  <2>3. CASE ~(ReadFile \/ EndFd \/ ReadExe)
    <3>1. files' = files
      BY <2>3, Zenon DEF Next, Step, vars, OpenFd, ReadDirent, OpenExe, Scan, ReadCgroup, ToTar, Release
    <3> QED
      BY <1>3, <3>1, Zenon DEF BlobFiles
  <2> QED
    BY <2>1, <2>2, <2>3
<1> QED
  BY <1>2, <1>3

(* Hence every file of environ or cmdline is such a prefix.                  *)
LEMMA BlobHolds == Spec => []BlobInv
<1>1. Init => BlobInv
  <2>1. Init => Range(files) = {}
    BY DEF Init, Range
  <2> QED
    BY <2>1, Zenon DEF BlobInv, BlobFiles
<1> QED
  BY <1>1, BlobStep, SnapHolds, PTL DEF Spec

----------------------------------------------------------------------------
(* Render: what is stored of a prefix of environ or cmdline.                 *)
LEMMA RenderIs ==
  ASSUME NEW name \in Blobs, NEW n
  PROVE  Render(name, n) = IF redact THEN RedactedBlob(name, Prefix(proc[name], n)) ELSE Prefix(proc[name], n)
<1>1. CASE name = "environ"
  <2>1. Render(name, n) = redact_environ(redact, Prefix(proc.environ, n)) /\ proc[name] = proc.environ
    BY <1>1, Zenon DEF Render
  <2> HIDE DEF Prefix
  <2> QED
    BY <1>1, <2>1, Zenon DEF redact_environ, RedactedBlob
<1>2. CASE name = "cmdline"
  <2>1. name # "environ"
    BY <1>2
  <2>2. Render(name, n) = redact_cmdline(redact, Prefix(proc.cmdline, n)) /\ proc[name] = proc.cmdline
    BY <1>2, <2>1, Zenon DEF Render
  <2> QED
    BY <2>1, <2>2, Zenon DEF redact_cmdline, RedactedBlob
<1> QED
  BY <1>1, <1>2 DEF Blobs

(* A prefix of environ or cmdline, redacted: each entry of it has lost its secrets. *)
LEMMA PrefixRedacted ==
  ASSUME IsProcess(proc), Recognisable(proc), NEW name \in Blobs, NEW n \in Nat
  PROVE  LET cut == Prefix(proc[name], n)
             raw == NonEmpty(cut)
             out == RedactedBlob(name, cut)
         IN /\ cut \in Seq(Entries) /\ raw \in Seq(Entries)
            /\ out \in Seq(Range(out)) /\ Len(out) = Len(raw)
            /\ \A i \in DOMAIN raw : Shown(out[i]) = Shown(raw[i]) \ SecretsAt(name, raw, i)
<1> DEFINE blob == proc[name]
           cut == Prefix(blob, n)
<1>1. blob \in Seq(Entries) /\ \A j \in DOMAIN blob : ToldApart(blob[j]) /\ Recognised(blob[j])
  <2>1. /\ blob \in Seq(Entries)
        /\ \A entry \in Range(blob) : ToldApart(entry) /\ Recognised(entry)
    BY Zenon DEF IsProcess, Recognisable
  <2>2. \A j \in DOMAIN blob : blob[j] \in Range(blob)
    BY Zenon DEF Range
  <2> QED
    BY <2>1, <2>2, Zenon
<1> HIDE DEF blob
<1>2. /\ cut \in Seq(Entries) /\ Len(cut) <= Len(blob)
      /\ \A j \in DOMAIN cut : ToldApart(cut[j]) /\ (Recognised(blob[j]) => Recognised(cut[j]))
  BY <1>1, PrefixIs, Zenon
<1> HIDE DEF cut
<1>3. \A j \in DOMAIN cut : j \in DOMAIN blob
  BY <1>1, <1>2
<1>4. \A j \in DOMAIN cut : ToldApart(cut[j]) /\ Recognised(cut[j])
  BY <1>1, <1>2, <1>3, Zenon
<1>5. name \in {"environ", "cmdline"}
  BY DEF Blobs
<1> QED
  BY <1>2, <1>4, <1>5, BlobRedacted, Zenon DEF cut, blob

(* redact.rs, for every process whose secrets are where its heuristics look for them:
   of what a held process shows exactly the secrets are gone.                 *)
THEOREM RedactionIsExact == Spec => [](Recognisable(proc) => RedactedExactly)
<1>1. SnapInv /\ BlobInv => (Recognisable(proc) => RedactedExactly)
  <2> SUFFICES ASSUME SnapInv, BlobInv, Recognisable(proc), proc.held, NEW f \in BlobFiles
               PROVE  IF ~redact THEN f.content = Capped(f.name)
                      ELSE LET raw == NonEmpty(Capped(f.name))
                           IN /\ Len(f.content) = Len(raw)
                              /\ \A i \in DOMAIN raw : Shown(f.content[i]) = Shown(raw[i]) \ SecretsAt(f.name, raw, i)
    BY Zenon DEF RedactedExactly
  <2>1. f.name \in Blobs /\ ShowsBlob(f) /\ IsProcess(proc)
    BY Zenon DEF BlobInv, BlobFiles, SnapInv
  <2>2. SizeOf(f.name) \in Nat
    BY <2>1, SizeIs
  <2>3. PICK n \in 0..SizeOf(f.name) :
          f.content = Render(f.name, n) /\ n = Min({SizeOf(f.name), MAX_FILE_BYTES})
    BY <2>1, Zenon DEF ShowsBlob
  <2>4. n \in Nat
    BY <2>2
  <2>5. Capped(f.name) = Prefix(proc[f.name], n)
    BY <2>3, Zenon DEF Capped
  <2>6. f.content = IF redact THEN RedactedBlob(f.name, Capped(f.name)) ELSE Capped(f.name)
    BY <2>1, <2>3, <2>5, RenderIs, Zenon
  <2>7. /\ Len(RedactedBlob(f.name, Capped(f.name))) = Len(NonEmpty(Capped(f.name)))
        /\ \A i \in DOMAIN NonEmpty(Capped(f.name)) :
             Shown(RedactedBlob(f.name, Capped(f.name))[i])
               = Shown(NonEmpty(Capped(f.name))[i]) \ SecretsAt(f.name, NonEmpty(Capped(f.name)), i)
    BY <2>1, <2>4, <2>5, PrefixRedacted, Zenon
  <2> QED
    BY <2>6, <2>7, Zenon
<1> QED
  BY <1>1, SnapHolds, BlobHolds, PTL

(* redact.rs with snapshot.rs, likewise, whether or not the process is held: no secret
   is in the snapshot, except what is left of a last entry that was cut in two. *)
THEOREM SecretsAreGone == Spec => [](Recognisable(proc) => SecretsGone)
<1>1. SnapInv /\ BlobInv => (Recognisable(proc) => SecretsGone)
  <2> SUFFICES ASSUME SnapInv, BlobInv, Recognisable(proc), redact, NEW f \in BlobFiles,
                      NEW i \in DOMAIN f.content,
                      ~(i = Len(f.content) /\ (f.truncated \/ life # "dumping"))
               PROVE  SecretsAt(f.name, NonEmpty(proc[f.name]), i) \cap Shown(f.content[i]) = {}
    BY Zenon DEF SecretsGone
  <2> DEFINE name == f.name
             blob == proc[name]
             whole == NonEmpty(blob)
  <2>1. name \in Blobs /\ ShowsBlob(f) /\ IsProcess(proc)
    BY Zenon DEF BlobInv, BlobFiles, SnapInv
  <2>2. SizeOf(name) \in Nat /\ SizeOf(name) = BlobSize(blob)
    BY <2>1, SizeIs DEF SizeOf
  <2>3. PICK n \in 0..SizeOf(name) :
          f.content = Render(name, n) /\ (n = SizeOf(name) \/ f.truncated \/ life # "dumping")
    BY <2>1, Zenon DEF ShowsBlob
  <2>4. n \in Nat
    BY <2>2
  <2> DEFINE cut == Prefix(blob, n)
             raw == NonEmpty(cut)
  <2>5. /\ blob \in Seq(Entries) /\ \A j \in DOMAIN blob : ToldApart(blob[j])
    <3>1. blob \in Seq(Entries) /\ \A entry \in Range(blob) : ToldApart(entry)
      BY <2>1, Zenon DEF IsProcess
    <3>2. \A j \in DOMAIN blob : blob[j] \in Range(blob)
      BY Zenon DEF Range
    <3> QED
      BY <3>1, <3>2, Zenon
  <2>6. f.content = RedactedBlob(name, cut)
    BY <2>1, <2>3, RenderIs, Zenon
  <2>7. /\ cut \in Seq(Entries) /\ raw \in Seq(Entries)
        /\ f.content \in Seq(Range(f.content)) /\ Len(f.content) = Len(raw)
        /\ \A k \in DOMAIN raw : Shown(f.content[k]) = Shown(raw[k]) \ SecretsAt(name, raw, k)
    BY <2>1, <2>4, <2>6, PrefixRedacted, Zenon
  <2>8. /\ Len(cut) <= Len(blob) /\ \A j \in 1..Len(cut) - 1 : cut[j] = blob[j]
        /\ n >= BlobSize(blob) => cut = blob
    BY <2>4, <2>5, PrefixIs, Zenon
  <2> HIDE DEF cut, blob, name
  <2>9. i \in DOMAIN raw /\ i \in 1..Len(raw) /\ Len(raw) \in Nat
    <3> HIDE DEF raw
    <3> QED
      BY <2>7
  <2>10. SecretsAt(name, whole, i) = SecretsAt(name, raw, i)
    <3>1. CASE i = Len(f.content)
      <4>1. n = SizeOf(name)
        BY <2>3, <3>1, Zenon
      <4>2. n >= BlobSize(blob)
        BY <2>2, <2>4, <4>1
      <4> QED
        BY <2>8, <4>2, Zenon
    <3>2. CASE i # Len(f.content)
      <4>1. i \in 1..Len(raw) - 1
        BY <2>7, <2>9, <3>2
      <4>2. \A k \in 1..Len(raw) - 1 : raw[k] = whole[k]
        BY <2>5, <2>7, <2>8, NonEmptyAgree, Zenon
      <4>3. \A j \in 1..i - 1 : j \in 1..Len(raw) - 1
        BY <2>9, <4>1
      <4>4. raw[i] = whole[i] /\ \A j \in 1..i - 1 : raw[j] = whole[j]
        BY <4>1, <4>2, <4>3, Zenon
      <4>5. i \in Nat
        BY <2>9
      <4>6. IsFlagValue(raw, i) <=> IsFlagValue(whole, i)
        BY <4>4, <4>5, FlagValueAgree, Zenon
      <4> HIDE DEF raw, whole
      <4> QED
        BY <4>4, <4>6, Zenon DEF SecretsAt
    <3> QED
      BY <3>1, <3>2
  <2>11. Shown(f.content[i]) = Shown(raw[i]) \ SecretsAt(name, raw, i)
    BY <2>7, <2>9, Zenon
  <2> HIDE DEF raw
  <2>12. SecretsAt(name, whole, i) \cap Shown(f.content[i]) = {}
    BY <2>10, <2>11, Zenon
  <2> QED
    BY <2>12 DEF whole, blob, name
<1> QED
  BY <1>1, SnapHolds, BlobHolds, PTL

=============================================================================
