--------------------------- MODULE MCProcSnapshot ---------------------------
(***************************************************************************)
(* ProcSnapshot for TLC: an ordinary process, and its variations in one    *)
(* respect at a time (files, descriptors, environ, cmdline, cgroup,        *)
(* executable, and not being held by the kernel).                          *)
(***************************************************************************)
EXTENDS ProcSnapshot

\* cgroup files.
Nm(id, digits, sep, len) == [id |-> id, digits |-> digits, sep |-> sep, len |-> len]
Seg(prefix, name, suffix) == [prefix |-> prefix, name |-> name, suffix |-> suffix]
Dir(id, suffix) == Seg("", Nm(id, "other", "", 8), suffix)
Uid(id) == Nm(id, "hex", "-", 36)
Cid(id) == Nm(id, "hex", "", 64)

CgroupfsPath(uid, cid) == <<Dir("kubepods", ""), Dir("burstable", ""), Seg("pod", uid, ""), Seg("", cid, "")>>
SystemdPath(uid, cid, runtime) ==
  <<Dir("kubepods", ".slice"),
    Seg("-pod", [uid EXCEPT !.sep = IF @ = "-" THEN "_" ELSE @], ".slice"), Seg(runtime, cid, ".scope")>>

ContainerPaths(uid, cid) ==
  {CgroupfsPath(uid, cid)} \cup {SystemdPath(uid, cid, r) : r \in RuntimePrefixes}

Nested == {<<>>, <<Dir("init", ".scope")>>, <<Dir("x", ""), Seg("", Cid("other"), "")>>,
           CgroupfsPath(Uid("other"), Cid("other"))}

V2(path) == << <<<<Dir("0", "")>>, <<>>, path>> >>
V1(path) == << <<<<Dir("1", "")>>, <<Dir("name=systemd", "")>>, <<Dir("system", ".slice")>>>>,
               <<<<Dir("2", "")>>, <<Dir("cpu", "")>>, path>>,
               <<<<Dir("3", "")>>, <<Dir("pids", "")>>, path>> >>

UIDs == {Uid("u1"), Nm("static", "hex", "", 32), Nm("long", "hex", "-", 253)}

\* What a cgroup file says and, first, whose it is.
Cgroup(whose, colon, lines) == [whose |-> whose, colon |-> colon, lines |-> lines]
PodCgroups ==
  UNION {{Cgroup({[pod |-> uid, container |-> Cid("c1")]}, FALSE, lines) :
            lines \in UNION {{V1(path \o below), V2(path \o below)} :
                               path \in ContainerPaths(uid, Cid("c1")), below \in Nested}} : uid \in UIDs}
HostCgroups ==
  {Cgroup({}, FALSE, V2(path)) :
     path \in {<<Dir("system", ".slice"), Dir("sshd", "")>>, <<Dir("kubepods", ".slice")>>,
               <<Seg("pod", Uid("u1"), "")>>, <<Seg("pod", Uid("u1"), ""), Dir("init", ".scope")>>,
               <<Seg("pod", Nm("long", "hex", "-", 254), ""), Seg("", Cid("c1"), "")>>,
               <<Seg("pod", Uid("u1"), ""), Seg("", Nm("short", "hex", "", 11), "")>>,
               <<Seg("pod", Nm("MAN", "other", "-", 5), ".scope"), Seg("", Cid("c1"), "")>>}}
ColonCgroups ==
  {Cgroup({[pod |-> Uid("u1"), container |-> Cid("c1")]}, TRUE,
          << <<<<Dir("0", "")>>, <<>>, path \o <<Dir("sshd@1", "")>>, <<Dir("22", "")>>>> >>) :
     path \in ContainerPaths(Uid("u1"), Cid("c1"))}

----------------------------------------------------------------------------
\* environ and cmdline.
Key(id, secret) == [id |-> id, secret |-> secret]
Entry(key, eq, value) ==
  [utf8 |-> TRUE, ascii |-> TRUE, flag |-> FALSE, key |-> key, eq |-> eq, value |-> value]
Var(id, value) == Entry(Key(id, FALSE), TRUE, value)
Arg(id) == Entry(Key(id, FALSE), FALSE, Plain(NoText))

Word8(id) == Text(id, <<8>>, TRUE, 25)
Shaped(text) == [text EXCEPT !.shaped = TRUE]
Token == Shaped(Text("token", <<20>>, TRUE, 35))
Jwt   == Shaped(Text("jwt", <<10, 4, 4>>, TRUE, 40))
Pem   == [Shaped(Text("pem", <<30>>, FALSE, 40)) EXCEPT !.pem = TRUE]

Variables ==
  {Entry(Key("API_KEY", TRUE), TRUE, Plain(Word8("hunter2"))),
   [Entry(Key("PASS", TRUE), TRUE, Plain(Word8("motdepasse"))) EXCEPT !.ascii = FALSE],
   [Entry(Key("RAW", TRUE), TRUE, Plain(Word8("bytes"))) EXCEPT !.utf8 = FALSE],
   Var("HOME", Plain(Word8("root"))), Var("A", Plain(Token)), Var("B", Plain(Jwt)), Var("C", Plain(Pem)),
   Var("D", Plain(Text("19 of base64", <<19>>, TRUE, 40))), Var("E", Plain(Text("flat", <<20>>, TRUE, 34))),
   Var("F", Plain(Text("version", <<12, 3, 9>>, TRUE, 40))), Var("G", Plain(Text("prose", <<40>>, FALSE, 45))),
   Var("DB", Url(Word8("db host"), <<Word8("user"), Word8("pw")>>,
                 <<[key |-> Key("password", TRUE), value |-> Word8("x")],
                   [key |-> Key("mode", FALSE), value |-> Word8("ro")]>>)),
   Var("GIT", Url(Word8("git host"), <<Shaped(Text("pat", <<24>>, TRUE, 40))>>, <<>>)),
   Var("WEB", Url(Word8("site"), <<>>, <<[key |-> Key("sig", TRUE), value |-> Word8("signed")]>>)),
   Var("HTTP", Url(Word8("web host"), <<Word8("someone"), NoText>>, <<[key |-> Key("auth", TRUE), value |-> NoText]>>))}

Environs == {pad \o <<a, b>> : a, b \in Variables, pad \in {<<>>, <<Arg("_")>>, <<Arg("_"), Arg("_")>>}}

Flag(id, secret) == [Entry(Key(id, secret), FALSE, Plain(NoText)) EXCEPT !.flag = TRUE]
Arguments ==
  {Arg(""), Arg("file"), Flag("-v", FALSE), Flag("--password", TRUE), Flag("--token", TRUE),
   [Entry(Key("--secret", TRUE), TRUE, Plain(Word8("s3"))) EXCEPT !.flag = TRUE]}
Cmdlines == UNION {[1..n -> Arguments] : n \in 0..3}
            \cup [1..4 -> {a \in Arguments : a.key.id \in {"--password", "--token", "file"}}]

----------------------------------------------------------------------------
\* Executables, as a linker lays them out: program headers, then the notes. A
\* header is the list of its notes, or empty for one of another type.
Note(namesz, descsz, type, gnu) == [namesz |-> namesz, descsz |-> descsz, type |-> type, gnu |-> gnu]
BuildIdNote == Note(4, 20, 3, TRUE)
OtherNotes == {Note(4, 16, 1, TRUE), Note(4, 83, 4, FALSE), Note(6, 5, 3, FALSE), Note(0, 0, 0, FALSE)}

HeaderSize(is64) == IF is64 THEN 64 ELSE 52
EntSize(is64) == IF is64 THEN 56 ELSE 32
PhdrEnd(is64, i) == HeaderSize(is64) + EntSize(is64) * i
NoteSize(note) == 12 + Padded(note.namesz) + Padded(note.descsz)
ListSize(list, n) == FoldSet(LAMBDA k, sum : NoteSize(list[k]) + sum, 0, 1..n)

\* cut: how many bytes at the end of the file the prefix lacks.
Image(is64, lists, cut) ==
  LET n == Len(lists)
      Off(s) == PhdrEnd(is64, n) + FoldSet(LAMBDA r, sum : ListSize(lists[r], Len(lists[r])) + sum, 0, 1..s - 1)
      At(s, k) == Off(s) + ListSize(lists[s], k - 1)
      all == Off(n + 1)
  IN [magic |-> TRUE, is64 |-> is64, len |-> IF cut > all THEN 0 ELSE all - cut,
      phoff |-> HeaderSize(is64), phentsize |-> EntSize(is64), phnum |-> n,
      linked |-> [s \in 1..n |-> [k \in DOMAIN lists[s] |-> At(s, k)]],
      phdrs |-> [o \in {PhdrEnd(is64, s - 1) : s \in 1..n} |->
                   LET s == CHOOSE s \in 1..n : o = PhdrEnd(is64, s - 1)
                   IN [type |-> IF lists[s] = <<>> THEN 1 ELSE PT_NOTE,
                       off |-> Off(s), size |-> ListSize(lists[s], Len(lists[s]))]],
      notes |-> [o \in UNION {{At(s, k) : k \in DOMAIN lists[s]} : s \in 1..n} |->
                   LET at == CHOOSE at \in (1..n) \X (1..4) :
                               at[2] \in DOMAIN lists[at[1]] /\ o = At(at[1], at[2])
                   IN lists[at[1]][at[2]]]]

NoteLists == {<<>>, <<BuildIdNote>>} \cup {<<a>> : a \in OtherNotes} \cup {<<a, BuildIdNote>> : a \in OtherNotes}
             \cup {<<a, b, BuildIdNote, a>> : a, b \in OtherNotes}

\* The last note of a segment may lack its padding.
Unpadded == [Image(TRUE, <<<<Note(4, 17, 1, TRUE)>>, <<BuildIdNote>>>>, 0) EXCEPT !.phdrs[64].size = @ - 3]

GoodImages ==
  {Unpadded} \cup
  {Image(is64, <<a, b>>, cut) : is64 \in BOOLEAN, a \in NoteLists, b \in {<<>>, <<BuildIdNote>>}, cut \in {0, 4, 40, 120}}

Base == Image(TRUE, <<<<Note(4, 16, 1, TRUE), BuildIdNote>>, <<BuildIdNote>>>>, 0)
\* Bytes that no linker writes.
BadImages ==
  LET o1 == Base.linked[1][1]
  IN {[Base EXCEPT !.magic = FALSE], [Base EXCEPT !.len = 63],
      [Base EXCEPT !.phoff = UsizeMod - 2], [Base EXCEPT !.phentsize = 0],
      [Base EXCEPT !.phentsize = 700],
      [Base EXCEPT !.phdrs[64].off = UsizeMod - 8], [Base EXCEPT !.phdrs[64].size = UsizeMod - 1],
      [Base EXCEPT !.phdrs[64].size = 14], [Base EXCEPT !.phdrs[64].size = 12], [Base EXCEPT !.notes[o1].namesz = MaxWord],
      [Base EXCEPT !.notes[o1].descsz = MaxWord], [Base EXCEPT !.notes[o1].namesz = 37],
      [Base EXCEPT !.notes[o1].descsz = 17, !.phdrs[64].size = 33],
      [Base EXCEPT !.notes = [o \in {} |-> BuildIdNote]]}

----------------------------------------------------------------------------
Ordinary == [cgroup |-> V2(CgroupfsPath(Uid("u1"), Cid("c1"))), colon |-> FALSE,
             identity |-> {[pod |-> Uid("u1"), container |-> Cid("c1")]},
             size |-> [name \in Range(SIMPLE_FILES) |-> 1],
             environ |-> <<Var("HOME", Plain(Word8("root")))>>, cmdline |-> <<Arg("file")>>,
             exe |-> Image(TRUE, <<<<BuildIdNote>>>>, 0),
             fds |-> <<0>>, unreadable |-> {}, held |-> TRUE]

MCProcesses ==
  {[Ordinary EXCEPT !.size[n] = k, !.unreadable = u] :
     n \in Range(SIMPLE_FILES), k \in {0, MAX_FILE_BYTES, MAX_FILE_BYTES + 1, MAX_FILE_BYTES + 2},
     u \in {{}, {"stack"}, {"smaps", "environ"}, {"cmdline"}}}
  \cup {[Ordinary EXCEPT !.fds = [i \in 1..n |-> 2 * i]] : n \in 0..MAX_FD_ENTRIES + 2}
  \cup {[Ordinary EXCEPT !.environ = e] : e \in Environs}
  \cup {[Ordinary EXCEPT !.cmdline = c] : c \in Cmdlines}
  \cup {[Ordinary EXCEPT !.cgroup = c.lines, !.identity = c.whose, !.colon = c.colon] :
          c \in PodCgroups \cup HostCgroups \cup ColonCgroups}
  \cup {[Ordinary EXCEPT !.exe = e] : e \in GoodImages \cup BadImages}
  \cup {[Ordinary EXCEPT !.held = FALSE, !.environ = <<a, b>>, !.fds = <<0, 1>>] :
          a, b \in {v \in Variables : v.key.id \in {"API_KEY", "DB", "PASS"}}}

\* What the proofs about redaction suppose.
ASSUME MCRecognisable == \A p \in MCProcesses : Recognisable(p)

MCImages == GoodImages \cup BadImages \cup {Ordinary.exe}
=============================================================================
