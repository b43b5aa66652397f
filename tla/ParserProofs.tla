---------------------------- MODULE ParserProofs ----------------------------
(***************************************************************************)
(* Proofs about what the snapshot makes of the bytes of a process, each in *)
(* a module of its own.  BuildId: the reader stays inside the bytes it was *)
(* given, makes progress and finds the right note, for every image, every  *)
(* prefix length and every width of usize that leaves room for two u32     *)
(* above a file offset.  CgroupIdentity: a path gives the pod and the      *)
(* container it was made for.  Redaction: of every blob, whole or cut,     *)
(* exactly the secret pieces are taken out.                                *)
(***************************************************************************)
EXTENDS BuildId, CgroupIdentity, Redaction, FiniteSetTheorems, WellFoundedInduction, TLAPS

(* A set of numbers that is not empty has a least one.                       *)
LEMMA LeastNat ==
  ASSUME NEW T, T \subseteq Nat, T # {}
  PROVE  \E x \in T : \A y \in T : x <= y
<1> DEFINE R == OpToRel(<, Nat)
<1>1. IsWellFoundedOn(R, Nat)
  BY NatLessThanWellFounded, Zenon
<1>2. \A x, y \in Nat : x < y => <<x, y>> \in R
  BY DEF OpToRel
<1> HIDE DEF R
<1>3. \E x \in T : \A y \in T : ~(<<y, x>> \in R)
  BY <1>1, WFMin, Zenon
<1>4. PICK x \in T : \A y \in T : ~(<<y, x>> \in R)
  BY <1>3
<1>5. \A y \in T : ~(y < x)
  BY <1>2, <1>4, Zenon
<1> QED
  BY <1>5

(* Min is the least member.                                                  *)
LEMMA LeastIsMin ==
  ASSUME NEW T, T \subseteq Nat, T # {}
  PROVE  Min(T) \in T /\ \A y \in T : Min(T) <= y
BY LeastNat, Zenon DEF Min

(* And whatever is a least member is Min.                                    *)
LEMMA MinIsLeast ==
  ASSUME NEW T, T \subseteq Nat, NEW x \in T, \A y \in T : x <= y
  PROVE  Min(T) = x
<1>1. Min(T) \in T /\ \A y \in T : Min(T) <= y
  BY LeastIsMin, Zenon
<1>2. Min(T) <= x /\ x <= Min(T) /\ Min(T) \in Nat /\ x \in Nat
  BY <1>1, Zenon
<1> QED
  BY <1>2

----------------------------------------------------------------------------
(* Rounding up to a multiple of four adds at most three and loses nothing. *)
LEMMA Align4Bounds ==
  ASSUME NEW n \in Word
  PROVE  Align4(n) \in n..(n + 3)
<1>1. n + 3 < UsizeMod
  BY WidthAssumption DEF Word
<1>2. Align4(n) = (n + 3) - ((n + 3) % 4)
  BY <1>1 DEF Align4, Add
<1>3. (n + 3) % 4 \in 0..3
  BY DEF Word
<1> QED
  BY <1>2, <1>3, WidthAssumption DEF Word

(* Every image decodes to words: reads of its headers are in range. *)
LEMMA DecodedTypes ==
  ASSUME IsImage(elf), NEW o
  PROVE  /\ PhdrAt(o) \in [type : Word, off : Usize, size : Usize]
         /\ NoteAt(o) \in [namesz : Word, descsz : Word, type : Word, gnu : BOOLEAN]
<1>1. 0 \in Word /\ 0 \in Usize
  BY WidthAssumption DEF Word, Usize
<1> QED
  BY <1>1 DEF IsImage, PhdrAt, NoteAt

ScanInv == ScanTypeOK /\ ScanBounded

(* A note whose header is in the slice: no sum of scan_notes wraps. *)
LEMMA NoteSums ==
  ASSUME ScanInv, stage = "note", Add(pos, 12) <= notes.len
  PROVE  /\ name_start = pos + 12
         /\ desc_start = pos + 12 + Align4(NoteHere.namesz)
         /\ desc_end = desc_start + NoteHere.descsz
         /\ desc_start \in Nat /\ NoteHere.descsz \in Word
<1>1. elf.len \in Nat /\ elf.len <= MaxPrefix
  BY WidthAssumption DEF ScanInv, ScanTypeOK, IsImage
<1>2. pos \in Nat /\ notes.len \in Nat /\ notes.off \in Nat /\ pos <= notes.len + 3 /\ notes.len <= elf.len
  BY <1>1 DEF ScanInv, ScanTypeOK, ScanBounded, Slices
<1>3. pos + 12 < UsizeMod
  BY <1>1, <1>2, WidthAssumption
<1>4. name_start = pos + 12 /\ pos + 12 <= notes.len
  BY <1>2, <1>3 DEF Add, name_start
<1>5. NoteHere.namesz \in Word /\ NoteHere.descsz \in Word
  BY DecodedTypes DEF ScanInv, ScanTypeOK, NoteHere
<1>6. Align4(NoteHere.namesz) \in Nat /\ Align4(NoteHere.namesz) <= MaxWord + 3
  BY <1>5, Align4Bounds, WidthAssumption DEF Word
<1>7. desc_start = pos + 12 + Align4(NoteHere.namesz) /\ desc_start <= MaxPrefix + MaxWord + 3
  BY <1>1, <1>2, <1>4, <1>6, WidthAssumption DEF Add, desc_start
<1>8. desc_end = desc_start + NoteHere.descsz
  BY <1>2, <1>5, <1>6, <1>7, WidthAssumption DEF Add, desc_end, Word
<1> QED
  BY <1>2, <1>4, <1>5, <1>6, <1>7, <1>8

----------------------------------------------------------------------------
(* A fresh scan has an empty slice and has found nothing. *)
LEMMA ScanInvInit == ScanInit => ScanInv
<1> SUFFICES ASSUME ScanInit PROVE ScanInv
  OBVIOUS
<1>1. IsImage(elf) /\ elf.len \in Nat
  BY ImageAssumption, WidthAssumption DEF ScanInit, IsImage
<1> QED
  BY <1>1 DEF ScanInit, ScanStart, ScanInv, ScanTypeOK, ScanBounded, NoSlice, NoId, Slices

(* Every turn of the two loops keeps the bounds. *)
LEMMA ScanInvStep == ScanInv /\ [ScanStep]_<<elf, scanVars>> => ScanInv'
<1> SUFFICES ASSUME ScanInv, [ScanStep]_<<elf, scanVars>> PROVE ScanInv'
  OBVIOUS
<1>0. IsImage(elf) /\ elf.len \in Nat /\ elf.len <= MaxPrefix
  BY WidthAssumption DEF ScanInv, ScanTypeOK, IsImage
<1>1. CASE GiveUp /\ stage # "done" /\ UNCHANGED elf
  BY <1>1 DEF GiveUp, ScanInv, ScanTypeOK, ScanBounded
<1>2. CASE NextHeader /\ stage # "done" /\ UNCHANGED elf
  BY <1>2 DEF NextHeader, ScanInv, ScanTypeOK, ScanBounded
<1>3. CASE ReadHeader /\ UNCHANGED elf
  <2>1. CASE GiveUp
    BY <1>1, <1>3, <2>1 DEF ReadHeader
  <2>2. CASE stage' = "phdr" /\ UNCHANGED <<ph, notes, pos, rounds, build_id>>
    BY <1>3, <2>2 DEF ReadHeader, ScanInv, ScanTypeOK, ScanBounded
  <2> QED
    BY <1>3, <2>1, <2>2 DEF ReadHeader
<1>4. CASE ReadPhdr /\ UNCHANGED elf
  <2> DEFINE off == elf.phoff + ph * elf.phentsize
             hdr == PhdrAt(off)
  <2>1. hdr.off \in Usize /\ hdr.size \in Usize
    BY <1>0, DecodedTypes
  <2>2. CASE /\ ~Overflows(hdr.off, hdr.size) /\ Readable(hdr.off, hdr.size, elf.len)
             /\ notes' = [off |-> hdr.off, len |-> hdr.size]
             /\ stage' = "note" /\ pos' = 0 /\ rounds' = 0
             /\ UNCHANGED <<ph, build_id>>
    <3> HIDE DEF hdr
    <3>1. hdr.off \in Nat /\ hdr.size \in Nat
      BY <2>1, WidthAssumption DEF Usize
    <3>2. hdr.off + hdr.size <= elf.len
      BY <2>2, <3>1, WidthAssumption DEF Overflows, Readable, Add
    <3>3. notes' \in Slices /\ notes'.off = hdr.off /\ notes'.len = hdr.size
      BY <2>2, <3>1 DEF Slices
    <3>4. build_id' = NoId
      BY <1>4, <2>2 DEF ReadPhdr, ScanInv, ScanTypeOK
    <3>5. ScanTypeOK'
      BY <1>0, <1>4, <2>2, <3>3, <3>4 DEF ScanInv, ScanTypeOK
    <3>6. ScanBounded'
      BY <1>4, <2>2, <3>1, <3>2, <3>3, <3>4 DEF ScanBounded
    <3> QED
      BY <3>5, <3>6 DEF ScanInv
  <2>3. GiveUp \/ NextHeader \/ (/\ ~Overflows(hdr.off, hdr.size) /\ Readable(hdr.off, hdr.size, elf.len)
                                 /\ notes' = [off |-> hdr.off, len |-> hdr.size]
                                 /\ stage' = "note" /\ pos' = 0 /\ rounds' = 0
                                 /\ UNCHANGED <<ph, build_id>>)
    BY <1>4, Zenon DEF ReadPhdr
  <2> QED
    BY <1>1, <1>2, <1>4, <2>2, <2>3 DEF ReadPhdr
<1>5. CASE ReadNote /\ UNCHANGED elf
  <2>1. CASE NextHeader
    BY <1>2, <1>5, <2>1 DEF ReadNote
  <2>2. CASE ~NextHeader
    <3>1. /\ stage = "note" /\ ~(Add(pos, 12) > notes.len) /\ ~(desc_end > notes.len)
          /\ rounds' = rounds + 1
          /\ \/ /\ build_id' = [off |-> notes.off + desc_start, len |-> desc_end - desc_start]
                /\ stage' = "done" /\ UNCHANGED <<ph, notes, pos>>
             \/ pos' = NextPos /\ UNCHANGED <<stage, ph, notes, build_id>>
      BY <1>5, <2>2, Zenon DEF ReadNote, Found
    <3>2. /\ {ph, pos, rounds} \subseteq Nat /\ notes.off \in Nat /\ notes.len \in Nat
          /\ notes \in Slices /\ build_id = NoId
          /\ notes.off + notes.len <= elf.len /\ pos <= notes.len + 3 /\ 12 * rounds <= pos
      BY <3>1 DEF ScanInv, ScanTypeOK, ScanBounded, Slices
    <3>3. Add(pos, 12) <= notes.len
      BY <1>0, <3>1, <3>2, WidthAssumption DEF Add
    <3>4. /\ desc_start = pos + 12 + Align4(NoteHere.namesz)
          /\ desc_end = desc_start + NoteHere.descsz
          /\ desc_start \in Nat /\ NoteHere.descsz \in Word /\ NoteHere.namesz \in Word
      BY <1>0, <3>1, <3>3, NoteSums, DecodedTypes DEF NoteHere
    <3>5. desc_end \in Nat /\ desc_end <= notes.len /\ pos + 12 <= desc_start /\ desc_start <= desc_end
      BY <3>1, <3>2, <3>4, Align4Bounds, WidthAssumption DEF Word
    <3>6. CASE /\ build_id' = [off |-> notes.off + desc_start, len |-> desc_end - desc_start]
               /\ stage' = "done" /\ UNCHANGED <<ph, notes, pos>>
      <4>1. build_id' \in Slices /\ build_id'.off = notes.off + desc_start
            /\ build_id'.len = desc_end - desc_start
        BY <3>2, <3>4, <3>5, <3>6 DEF Slices
      <4>2. ScanTypeOK'
        BY <1>0, <1>5, <3>1, <3>2, <3>6, <4>1 DEF ScanTypeOK
      <4>3. ScanBounded'
        BY <1>5, <3>1, <3>2, <3>4, <3>5, <3>6, <4>1 DEF ScanBounded
      <4> QED
        BY <4>2, <4>3 DEF ScanInv
    <3>7. CASE pos' = NextPos /\ UNCHANGED <<stage, ph, notes, build_id>>
      <4>1. Align4(NoteHere.descsz) \in NoteHere.descsz..(NoteHere.descsz + 3)
        BY <3>4, Align4Bounds
      <4>2. NextPos = desc_start + Align4(NoteHere.descsz)
        BY <1>0, <3>2, <3>4, <3>5, <4>1, WidthAssumption DEF NextPos, Add, Word
      <4>3. pos' \in Nat /\ pos' <= notes.len + 3 /\ pos + 12 <= pos'
        BY <3>2, <3>4, <3>5, <3>7, <4>1, <4>2, WidthAssumption DEF Word
      <4>4. ScanTypeOK'
        BY <1>0, <1>5, <3>1, <3>2, <3>7, <4>3 DEF ScanInv, ScanTypeOK
      <4>5. ScanBounded'
        BY <1>5, <3>1, <3>2, <3>7, <4>3 DEF ScanBounded
      <4> QED
        BY <4>4, <4>5 DEF ScanInv
    <3> QED
      BY <3>1, <3>6, <3>7
  <2> QED
    BY <2>1, <2>2
<1>6. CASE UNCHANGED <<elf, scanVars>>
  BY <1>6 DEF scanVars, ScanInv, ScanTypeOK, ScanBounded
<1> QED
  BY <1>3, <1>4, <1>5, <1>6 DEF ScanStep

(* buildid.rs: for every image, prefix length and width the scan stays in the bytes
   read, no sum wraps, and every note moves it on.                              *)
THEOREM ScanStaysInBounds == ScanSpec => []ScanBounded
<1>1. ScanInv => ScanBounded
  BY DEF ScanInv
<1> QED
  BY ScanInvInit, ScanInvStep, <1>1, PTL DEF ScanSpec

(* The code's rounding is the linker's padding.                              *)
LEMMA AlignPads ==
  ASSUME NEW n \in Word
  PROVE  n \in Nat /\ Align4(n) = Padded(n) /\ Padded(n) \in Nat /\ n <= Padded(n) /\ Padded(n) <= n + 3
<1>1. n \in Nat /\ n + 3 < UsizeMod
  BY WidthAssumption DEF Word
<1>2. Align4(n) = (n + 3) - ((n + 3) % 4)
  BY <1>1 DEF Align4, Add
<1>3. (n + 3) - ((n + 3) % 4) = 4 * ((n + 3) \div 4)
  BY <1>1
<1>4. Align4(n) = Padded(n) /\ Align4(n) \in n..(n + 3)
  BY <1>2, <1>3, Align4Bounds DEF Padded
<1> QED
  BY <1>1, <1>4

(* If no header so far has a build-id and the next one is missing, there is none
   to be found.                                                              *)
LEMMA NoneToFind ==
  ASSUME NEW n \in Nat, elf.phnum \in Nat, \A r \in 1..n : Hits(r) = {},
         n = elf.phnum \/ ~Known(n + 1)
  PROVE  BuildIdOf = NoId
<1> DEFINE segs == {s \in 1..elf.phnum : Hits(s) # {}}
<1>1. CASE segs = {}
  BY <1>1 DEF BuildIdOf
<1>2. CASE segs # {}
  <2>1. Min(segs) \in segs
    <3>1. segs \subseteq Nat
      OBVIOUS
    <3> HIDE DEF segs
    <3> QED
      BY <1>2, <3>1, LeastIsMin, Zenon
  <2>2. Min(segs) > n /\ Min(segs) \in 1..elf.phnum
    BY <2>1
  <2>3. n + 1 \in 1..Min(segs) /\ ~Known(n + 1)
    BY <2>2
  <2> QED
    BY <2>3, Zenon DEF BuildIdOf
<1> QED
  BY <1>1, <1>2

(* The first build-id note of the first header with one is the build-id.     *)
LEMMA FirstFound ==
  ASSUME elf.phnum \in Nat, NEW s \in 1..elf.phnum, NEW k \in Hits(s),
         \A r \in 1..s : Known(r), \A r \in 1..s - 1 : Hits(r) = {}, \A j \in 1..k - 1 : j \notin Hits(s)
  PROVE  BuildIdOf = [off |-> DescAt(elf.linked[s][k]), len |-> NoteAt(elf.linked[s][k]).descsz]
<1> DEFINE segs == {r \in 1..elf.phnum : Hits(r) # {}}
<1>1. segs \subseteq Nat /\ s \in segs /\ \A r \in segs : s <= r
  OBVIOUS
<1>2. Min(segs) = s
  <2> HIDE DEF segs
  <2> QED
    BY <1>1, MinIsLeast, Zenon
<1>3. Hits(s) \subseteq Nat /\ \A j \in Hits(s) : k <= j
  <2>1. Hits(s) \subseteq 1..Len(elf.linked[s])
    BY DEF Hits
  <2>2. \A j \in Hits(s) : j \in Nat /\ j >= 1
    BY <2>1
  <2>3. ASSUME NEW j \in Hits(s), ~(k <= j) PROVE FALSE
    <3>1. j \in 1..k - 1
      BY <2>2, <2>3
    <3> QED
      BY <3>1
  <2> QED
    BY <2>2, <2>3
<1>4. Min(Hits(s)) = k
  BY <1>3, MinIsLeast
<1> QED
  BY <1>1, <1>2, <1>4 DEF BuildIdOf

(* Every note of a segment ends in the segment.                              *)
LEMMA NotesInside ==
  ASSUME IsImage(elf), NEW hdr, hdr.off + hdr.size \in Nat, NEW list, list # <<>>, LaidOut(hdr, list),
         NEW k \in 1..Len(list)
  PROVE  DescAt(list[k]) + NoteAt(list[k]).descsz <= hdr.off + hdr.size
<1> DEFINE End(i) == DescAt(list[i]) + NoteAt(list[i]).descsz
           T == {m \in 0..Len(list) - 1 : End(Len(list) - m) > hdr.off + hdr.size}
<1>0. list \in Seq(Nat) /\ Len(list) \in Nat /\ Len(list) > 0
  BY DEF LaidOut
<1>1. ASSUME NEW i \in 1..Len(list)
      PROVE  /\ End(i) \in Nat /\ list[i] <= End(i)
             /\ End(i) <= DescAt(list[i]) + Padded(NoteAt(list[i]).descsz)
  <2>1. list[i] \in Nat /\ NoteAt(list[i]).namesz \in Word /\ NoteAt(list[i]).descsz \in Word
    BY <1>0, DecodedTypes
  <2>2. /\ Padded(NoteAt(list[i]).namesz) \in Nat /\ NoteAt(list[i]).descsz \in Nat
        /\ Padded(NoteAt(list[i]).descsz) \in Nat
        /\ NoteAt(list[i]).descsz <= Padded(NoteAt(list[i]).descsz)
    BY <2>1, AlignPads
  <2> QED
    BY <2>1, <2>2 DEF DescAt
<1>2. End(Len(list)) <= hdr.off + hdr.size
  BY <1>0, <1>1 DEF LaidOut
<1>3. \A i \in 1..Len(list) - 1 : End(i) <= End(i + 1)
  <2> SUFFICES ASSUME NEW i \in 1..Len(list) - 1 PROVE End(i) <= End(i + 1)
    OBVIOUS
  <2>1. list[i + 1] = DescAt(list[i]) + Padded(NoteAt(list[i]).descsz)
    BY DEF LaidOut
  <2>2. i \in 1..Len(list) /\ i + 1 \in 1..Len(list)
    BY <1>0
  <2>3. End(i) <= list[i + 1] /\ list[i + 1] <= End(i + 1) /\ End(i) \in Nat /\ End(i + 1) \in Nat
    BY <1>1, <2>1, <2>2
  <2> HIDE DEF End
  <2> QED
    BY <1>0, <2>2, <2>3
<1> HIDE DEF End
<1>4. T = {}
  <2> SUFFICES ASSUME T # {} PROVE FALSE
    OBVIOUS
  <2>0. T \subseteq Nat
    BY <1>0
  <2>1. PICK m \in T : \A y \in T : m <= y
    <3> HIDE DEF T
    <3> QED
      BY <2>0, LeastNat, Zenon
  <2>2. m # 0
    <3>1. End(Len(list) - m) > hdr.off + hdr.size /\ End(Len(list)) \in Nat
      BY <1>0, <1>1, <2>1
    <3> QED
      BY <1>0, <1>2, <3>1
  <2>3. m - 1 \in 0..Len(list) - 1 /\ m - 1 \notin T
    <3>1. m \in 0..Len(list) - 1
      BY <2>1
    <3>2. m - 1 \notin T
      <4> HIDE DEF T
      <4> QED
        BY <1>0, <2>0, <2>1, <2>2, <3>1
    <3> QED
      BY <1>0, <2>2, <3>1, <3>2
  <2>4. Len(list) - m \in 1..Len(list) - 1 /\ Len(list) - (m - 1) = Len(list) - m + 1
    BY <1>0, <2>1, <2>2
  <2>5. End(Len(list) - m) \in Nat /\ End(Len(list) - m + 1) \in Nat
    <3>1. Len(list) - m \in 1..Len(list) /\ Len(list) - m + 1 \in 1..Len(list)
      BY <1>0, <2>4
    <3> QED
      BY <1>1, <3>1, Zenon
  <2>6. End(Len(list) - m + 1) <= hdr.off + hdr.size
    BY <2>3, <2>4, <2>5
  <2>7. End(Len(list) - m) > hdr.off + hdr.size
    BY <2>1
  <2> QED
    BY <1>3, <2>4, <2>5, <2>6, <2>7
<1>5. Len(list) - k \in 0..Len(list) - 1 /\ Len(list) - (Len(list) - k) = k /\ End(k) \in Nat
  BY <1>0, <1>1
<1>6. ~(End(Len(list) - (Len(list) - k)) > hdr.off + hdr.size)
  BY <1>4, <1>5, Zenon
<1>7. End(k) <= hdr.off + hdr.size
  BY <1>5, <1>6
<1> QED
  BY <1>7 DEF End

----------------------------------------------------------------------------
(* Where the k-th note of header s begins, and for the k after the last one where
   the padding of the last ends.                                             *)
NoteStart(s, k) ==
  IF k <= Len(elf.linked[s]) THEN elf.linked[s][k]
  ELSE DescAt(elf.linked[s][k - 1]) + Padded(NoteAt(elf.linked[s][k - 1]).descsz)

(* The scan of a well-formed image is at a note of the header that is next, and
   there was no build-id before it.                                          *)
AtNote ==
  /\ ph < elf.phnum /\ Known(ph + 1) /\ elf.linked[ph + 1] # <<>>
  /\ notes = [off |-> Phdr(ph + 1).off, len |-> Phdr(ph + 1).size]
  /\ \E k \in 1..Len(elf.linked[ph + 1]) + 1 :
       /\ notes.off + pos = NoteStart(ph + 1, k)
       /\ \A j \in 1..k - 1 : j \notin Hits(ph + 1)

Passed(n) == n <= elf.phnum /\ \A r \in 1..n : Known(r) /\ Hits(r) = {}

LinkInv ==
  WellLinked => /\ stage = "header" => ph = 0
                /\ stage \in {"phdr", "note"} => Passed(ph)
                /\ stage = "note" => AtNote
                /\ stage = "done" => build_id = BuildIdOf

(* A scan starts before the first header.                                   *)
LEMMA LinkInit == ScanInit => LinkInv
BY DEF ScanInit, ScanStart, LinkInv

(* What the image says does not change.                                      *)
LEMMA SameImage ==
  ASSUME elf' = elf
  PROVE  /\ WellLinked' <=> WellLinked
         /\ BuildIdOf' = BuildIdOf
         /\ \A r : (Known(r)' <=> Known(r)) /\ Hits(r)' = Hits(r) /\ Phdr(r)' = Phdr(r)
         /\ \A s, k : NoteStart(s, k)' = NoteStart(s, k)
<1>1. \A o : PhdrAt(o)' = PhdrAt(o) /\ NoteAt(o)' = NoteAt(o)
  BY DEF PhdrAt, NoteAt
<1>2. \A o : DescAt(o)' = DescAt(o) /\ Phdr(o)' = Phdr(o)
  BY <1>1 DEF DescAt, Phdr
<1>3. \A h, l : LaidOut(h, l)' <=> LaidOut(h, l)
  BY <1>1, <1>2 DEF LaidOut
<1>4. \A r : (Known(r)' <=> Known(r)) /\ Hits(r)' = Hits(r)
  BY <1>1, <1>2 DEF Known, Hits
<1>5. \A s, k : NoteStart(s, k)' = NoteStart(s, k)
  BY <1>1, <1>2 DEF NoteStart
<1>6. WellLinked' <=> WellLinked
  BY <1>2, <1>3 DEF WellLinked
<1>7. BuildIdOf' = BuildIdOf
  BY <1>1, <1>2, <1>4, Zenon DEF BuildIdOf
<1> QED
  BY <1>2, <1>4, <1>5, <1>6, <1>7

(* Every turn of the two loops keeps the place of the scan in the image.     *)
LEMMA LinkStep == ScanInv /\ LinkInv /\ [ScanStep]_<<elf, scanVars>> => LinkInv'
<1> SUFFICES ASSUME ScanInv, LinkInv, [ScanStep]_<<elf, scanVars>>, WellLinked' PROVE LinkInv'
  BY DEF LinkInv
<1>0. /\ IsImage(elf) /\ elf.len \in Nat /\ elf.len <= MaxPrefix /\ elf.phnum \in Nat
      /\ elf.phoff \in Nat /\ elf.phentsize \in Nat /\ ph \in Nat /\ elf.is64 \in BOOLEAN
  BY WidthAssumption DEF ScanInv, ScanTypeOK, IsImage, Word, Usize
<1>e. elf' = elf
  BY DEF ScanStep, scanVars
<1>s. WellLinked
  BY <1>e, SameImage
<1>g. ASSUME NEW n \in Nat, \A r \in 1..n : Hits(r) = {}, n = elf.phnum \/ ~Known(n + 1),
             GiveUp, build_id = NoId
      PROVE  LinkInv'
  <2>1. BuildIdOf = NoId
    BY <1>0, <1>g, NoneToFind
  <2> QED
    BY <1>e, <1>g, <2>1, SameImage DEF LinkInv, GiveUp
<1>n. ASSUME NextHeader, Passed(ph), ph < elf.phnum, Known(ph + 1), Hits(ph + 1) = {}
      PROVE  LinkInv'
  <2>1. Passed(ph + 1)
    BY <1>0, <1>n DEF Passed
  <2>2. Passed(ph)'
    BY <1>e, <1>n, <2>1, SameImage DEF Passed, NextHeader
  <2> QED
    BY <1>n, <2>2 DEF LinkInv, NextHeader
<1>1. CASE ReadHeader
  <2>1. stage' = "phdr" /\ ph' = 0
    BY <1>0, <1>1, <1>s DEF ReadHeader, WellLinked, LinkInv
  <2>2. Passed(ph)'
    BY <1>0, <1>e, <2>1 DEF Passed
  <2> QED
    BY <2>1, <2>2 DEF LinkInv
<1>2. CASE ReadPhdr
  <2> DEFINE off == elf.phoff + ph * elf.phentsize
             hdr == PhdrAt(off)
             last == IF elf.is64 THEN 40 ELSE 20
             Enter == /\ notes' = [off |-> hdr.off, len |-> hdr.size]
                      /\ stage' = "note" /\ pos' = 0 /\ rounds' = 0
                      /\ UNCHANGED <<ph, build_id>>
  <2>1. stage = "phdr" /\ Passed(ph) /\ build_id = NoId /\ \A r \in 1..ph : Hits(r) = {}
    BY <1>2, <1>s DEF ReadPhdr, LinkInv, ScanInv, ScanTypeOK, Passed
  <2>2. off \in Nat /\ Phdr(ph + 1) = hdr /\ elf.phoff + ((ph + 1) - 1) * elf.phentsize = off
    BY <1>0 DEF Phdr
  <2>3. hdr.off \in Nat /\ hdr.size \in Nat /\ hdr.off < UsizeMod /\ hdr.size < UsizeMod
    BY <1>0, DecodedTypes, WidthAssumption DEF Usize
  <2>4. /\ IF ph >= elf.phnum \/ off >= UsizeMod \/ ~Readable(off, 4, elf.len) THEN GiveUp
           ELSE IF hdr.type # PT_NOTE THEN NextHeader
           ELSE IF \/ ~Readable(off, last, elf.len)
                   \/ Overflows(hdr.off, hdr.size)
                   \/ ~Readable(hdr.off, hdr.size, elf.len)
                THEN GiveUp ELSE Enter
    BY <1>2, Zenon DEF ReadPhdr
  <2>5. /\ Known(ph + 1) => off + 4 <= elf.len
        /\ Known(ph + 1) /\ elf.linked[ph + 1] # <<>> => off + last <= elf.len /\ hdr.off + hdr.size <= elf.len
        /\ off + 4 <= elf.len /\ elf.linked[ph + 1] = <<>> => Known(ph + 1)
        /\ off + last <= elf.len /\ hdr.off + hdr.size <= elf.len => Known(ph + 1)
    <3> DEFINE end == IF elf.linked[ph + 1] = <<>> THEN 4 ELSE last
    <3>1. Known(ph + 1) <=> /\ off + end <= elf.len
                            /\ elf.linked[ph + 1] # <<>> => hdr.off + hdr.size <= elf.len
      <4> HIDE DEF off, hdr
      <4> QED
        BY <2>2 DEF Known
    <3>2. off + last <= elf.len => off + 4 <= elf.len
      <4> HIDE DEF off
      <4> QED
        BY <1>0, <2>2
    <3> HIDE DEF off, hdr, last
    <3> QED
      BY <3>1, <3>2
  <2>6. ph < elf.phnum => /\ elf.linked[ph + 1] = <<>> <=> hdr.type # PT_NOTE
                          /\ elf.linked[ph + 1] # <<>> => LaidOut(hdr, elf.linked[ph + 1])
    <3> HIDE DEF off, hdr
    <3>1. ph < elf.phnum => ph + 1 \in 1..elf.phnum
      BY <1>0
    <3> QED
      BY <1>s, <2>2, <3>1 DEF WellLinked
  <2> HIDE DEF off, hdr
  <2>7. CASE ph >= elf.phnum
    <3>1. ph = elf.phnum
      BY <1>0, <2>1, <2>7 DEF Passed
    <3> QED
      BY <1>0, <1>g, <2>1, <2>4, <2>7, <3>1
  <2>8. CASE ph < elf.phnum /\ (off >= UsizeMod \/ ~Readable(off, 4, elf.len))
    <3>1. ~(off + 4 <= elf.len)
      BY <1>0, <2>2, <2>8, WidthAssumption DEF Readable, Add
    <3> QED
      BY <1>0, <1>g, <2>1, <2>4, <2>5, <2>8, <3>1
  <2>9. CASE ph < elf.phnum /\ off < UsizeMod /\ Readable(off, 4, elf.len)
    <3>1. off + 4 <= elf.len
      BY <1>0, <2>2, <2>9, WidthAssumption DEF Readable, Add
    <3>2. CASE hdr.type # PT_NOTE
      <4>1. Hits(ph + 1) = {} /\ Known(ph + 1)
        BY <2>5, <2>6, <2>9, <3>1, <3>2 DEF Hits
      <4>2. NextHeader
        BY <1>0, <2>2, <2>4, <2>9, <3>2, WidthAssumption
      <4> QED
        BY <1>n, <2>1, <2>9, <4>1, <4>2
    <3>3. CASE /\ hdr.type = PT_NOTE
               /\ \/ ~Readable(off, last, elf.len)
                  \/ Overflows(hdr.off, hdr.size)
                  \/ ~Readable(hdr.off, hdr.size, elf.len)
      <4>1. ~(off + last <= elf.len /\ hdr.off + hdr.size <= elf.len)
        BY <1>0, <2>2, <2>3, <3>3, WidthAssumption DEF Readable, Overflows, Add
      <4>2. ~Known(ph + 1)
        BY <2>5, <2>6, <2>9, <3>3, <4>1
      <4>3. GiveUp
        BY <1>0, <2>2, <2>4, <2>9, <3>3, WidthAssumption
      <4> QED
        BY <1>0, <1>g, <2>1, <4>2, <4>3
    <3>4. CASE /\ hdr.type = PT_NOTE
               /\ Readable(off, last, elf.len)
               /\ ~Overflows(hdr.off, hdr.size)
               /\ Readable(hdr.off, hdr.size, elf.len)
      <4>1. off + last <= elf.len /\ hdr.off + hdr.size <= elf.len
        BY <1>0, <2>2, <2>3, <2>9, <3>4, WidthAssumption DEF Readable, Overflows, Add
      <4>2. Known(ph + 1) /\ elf.linked[ph + 1] # <<>> /\ LaidOut(hdr, elf.linked[ph + 1])
        BY <2>5, <2>6, <2>9, <3>4, <4>1
      <4>3. Enter
        BY <1>0, <2>2, <2>4, <2>9, <3>4, WidthAssumption
      <4>4. notes'.off + pos' = NoteStart(ph + 1, 1) /\ 1 \in 1..Len(elf.linked[ph + 1]) + 1
        <5>1. /\ elf.linked[ph + 1] \in Seq(Nat) /\ elf.linked[ph + 1][1] = hdr.off
              /\ notes'.off = hdr.off /\ pos' = 0
          BY <4>2, <4>3 DEF LaidOut
        <5>2. Len(elf.linked[ph + 1]) \in Nat /\ 1 <= Len(elf.linked[ph + 1])
          BY <4>2, <5>1
        <5>3. NoteStart(ph + 1, 1) = hdr.off
          BY <5>1, <5>2 DEF NoteStart
        <5> QED
          BY <2>3, <5>1, <5>2, <5>3
      <4>5. AtNote'
        <5>1. /\ ph' = ph /\ ph' < elf'.phnum /\ Known(ph + 1)' /\ elf'.linked[ph' + 1] # <<>>
              /\ notes' = [off |-> Phdr(ph + 1)'.off, len |-> Phdr(ph + 1)'.size]
          BY <1>e, <2>2, <2>9, <4>2, <4>3, SameImage
        <5>2. notes'.off + pos' = NoteStart(ph + 1, 1)' /\ 1 \in 1..Len(elf'.linked[ph' + 1]) + 1
          BY <1>e, <4>3, <4>4, SameImage
        <5> QED
          BY <4>3, <5>1, <5>2 DEF AtNote
      <4>6. Passed(ph)'
        BY <1>e, <2>1, <4>3, SameImage DEF Passed
      <4> QED
        BY <4>3, <4>5, <4>6 DEF LinkInv
    <3> QED
      BY <3>2, <3>3, <3>4
  <2> QED
    BY <1>0, <2>2, <2>7, <2>8, <2>9, WidthAssumption
<1>3. CASE ReadNote
  <2> DEFINE s == ph + 1
             list == elf.linked[s]
             hdr == Phdr(s)
             n == NoteAt(notes.off + pos)
  <2>1. /\ stage = "note" /\ Passed(ph) /\ AtNote /\ pos \in Nat /\ notes.off \in Nat /\ notes.len \in Nat
        /\ notes.off + notes.len <= elf.len /\ pos <= notes.len + 3
    BY <1>3, <1>s DEF ReadNote, LinkInv, ScanInv, ScanTypeOK, ScanBounded, Slices
  <2>w. /\ MaxPrefix \in Nat /\ MaxWord \in Nat /\ UsizeMod \in Nat /\ MaxPrefix + 2 * MaxWord + 64 < UsizeMod
        /\ notes.len <= MaxPrefix
    BY <1>0, <2>1, WidthAssumption
  <2>2. PICK k \in 1..Len(list) + 1 : notes.off + pos = NoteStart(s, k) /\ \A j \in 1..k - 1 : j \notin Hits(s)
    BY <2>1 DEF AtNote
  <2>3. s \in 1..elf.phnum /\ Known(s) /\ list # <<>> /\ ph < elf.phnum /\ \A r \in 1..ph : Known(r) /\ Hits(r) = {}
    <3>1. ph < elf.phnum /\ Known(s) /\ list # <<>> /\ \A r \in 1..ph : Known(r) /\ Hits(r) = {}
      BY <2>1, Zenon DEF AtNote, Passed
    <3> QED
      BY <1>0, <3>1
  <2>4. LaidOut(hdr, list) /\ hdr.off + hdr.size = notes.off + notes.len
    <3>1. notes.off = hdr.off /\ notes.len = hdr.size
      BY <2>1 DEF AtNote
    <3>2. LaidOut(hdr, list)
      BY <1>s, <2>3, Zenon DEF WellLinked
    <3> QED
      BY <3>1, <3>2
  <2>5. list \in Seq(Nat) /\ Len(list) \in Nat /\ Len(list) > 0
    <3>1. list \in Seq(Nat)
      BY <2>4, Zenon DEF LaidOut
    <3> HIDE DEF list
    <3> QED
      BY <2>3, <3>1
  <2>6. n.namesz \in Word /\ n.descsz \in Word /\ n = NoteHere
    BY <1>0, DecodedTypes DEF NoteHere
  <2>7. /\ Align4(n.namesz) = Padded(n.namesz) /\ Padded(n.namesz) \in Nat
        /\ Align4(n.descsz) = Padded(n.descsz) /\ Padded(n.descsz) \in Nat
        /\ n.descsz \in Nat /\ n.descsz <= Padded(n.descsz)
    BY <2>6, AlignPads
  <2>8. CASE k = Len(list) + 1
    <3> DEFINE o == list[Len(list)]
    <3>1. notes.off + pos = DescAt(o) + Padded(NoteAt(o).descsz)
      BY <2>2, <2>5, <2>8 DEF NoteStart
    <3>2. hdr.off + hdr.size <= notes.off + pos
      BY <2>4, <3>1 DEF LaidOut
    <3>3. pos >= notes.len
      BY <2>1, <2>4, <3>2
    <3>4. Add(pos, 12) > notes.len
      <4>1. pos + 12 < UsizeMod /\ pos + 12 > notes.len
        BY <2>1, <2>w, <3>3
      <4> QED
        BY <4>1 DEF Add
    <3>5. NextHeader
      BY <1>3, <3>4 DEF ReadNote
    <3>6. Hits(s) = {}
      BY <2>2, <2>5, <2>8 DEF Hits
    <3> QED
      BY <1>n, <2>1, <2>3, <3>5, <3>6
  <2>9. CASE k \in 1..Len(list)
    <3>1. list[k] = notes.off + pos
      BY <2>2, <2>5, <2>9 DEF NoteStart
    <3>2. DescAt(list[k]) + NoteAt(list[k]).descsz <= hdr.off + hdr.size
      <4>1. hdr.off + hdr.size \in Nat
        BY <2>1, <2>4
      <4> HIDE DEF list, hdr
      <4> QED
        BY <1>0, <2>3, <2>4, <2>9, <4>1, NotesInside
    <3>3. DescAt(list[k]) = notes.off + (pos + 12 + Padded(n.namesz)) /\ NoteAt(list[k]) = n
      <4>1. NoteAt(list[k]) = n
        BY <3>1
      <4>2. DescAt(list[k]) = (notes.off + pos) + 12 + Padded(n.namesz)
        BY <3>1, <4>1 DEF DescAt
      <4> HIDE DEF n
      <4> QED
        BY <2>1, <2>7, <4>1, <4>2
    <3>4. pos + 12 + Padded(n.namesz) + n.descsz <= notes.len
      <4>1. PICK A \in Nat, dz \in Nat, p \in Nat, o \in Nat, l \in Nat :
              A = Padded(n.namesz) /\ dz = n.descsz /\ p = pos /\ o = notes.off /\ l = notes.len
        BY <2>1, <2>7, Zenon
      <4>2. (o + (p + 12 + A)) + dz <= o + l
        BY <2>4, <3>2, <3>3, <4>1
      <4>3. p + 12 + A + dz <= l
        BY <4>2
      <4> QED
        BY <4>1, <4>3
    <3>5. /\ name_start = pos + 12 /\ desc_start = pos + 12 + Padded(n.namesz)
          /\ desc_end = desc_start + n.descsz /\ NextPos = desc_start + Padded(n.descsz)
          /\ ~Overflows(name_start, NoteHere.namesz) /\ ~Overflows(desc_start, NoteHere.descsz)
      <4>1. PICK A \in Nat, D \in Nat, dz \in Nat, nz \in Nat :
              /\ A = Padded(n.namesz) /\ D = Padded(n.descsz) /\ dz = n.descsz /\ nz = n.namesz
              /\ dz <= MaxWord /\ D <= dz + 3 /\ nz <= MaxWord
        <5>1. n.descsz <= MaxWord /\ Padded(n.descsz) <= n.descsz + 3 /\ n.namesz <= MaxWord /\ n.namesz \in Nat
          <6>1. Padded(n.descsz) <= n.descsz + 3 /\ n.namesz \in Nat
            BY <2>6, AlignPads, Zenon
          <6> HIDE DEF n
          <6> QED
            BY <2>6, <2>w, <6>1 DEF Word
        <5> QED
          BY <2>7, <5>1
      <4>2. pos + 12 + A + dz <= notes.len
        BY <3>4, <4>1
      <4>3. /\ pos + 12 < UsizeMod /\ (pos + 12) + A < UsizeMod /\ ((pos + 12) + A) + dz < UsizeMod
            /\ ((pos + 12) + A) + D < UsizeMod /\ (pos + 12) + nz < UsizeMod
        <5> HIDE DEF n
        <5>1. PICK p \in Nat, l \in Nat : p = pos /\ l = notes.len
          BY <2>1, Zenon
        <5>2. p + 12 + A + dz <= l /\ l <= MaxPrefix
          BY <2>w, <4>2, <5>1
        <5>3. dz <= MaxWord /\ D <= dz + 3 /\ nz <= MaxWord
          BY <4>1
        <5>4. /\ p + 12 < UsizeMod /\ (p + 12) + A < UsizeMod /\ ((p + 12) + A) + dz < UsizeMod
              /\ ((p + 12) + A) + D < UsizeMod /\ (p + 12) + nz < UsizeMod
          BY <2>w, <5>2, <5>3
        <5> QED
          BY <5>1, <5>4
      <4>4. name_start = pos + 12
        BY <4>3 DEF name_start, Add
      <4>5. desc_start = (pos + 12) + A
        <5>1. desc_start = Add(pos + 12, A)
          BY <2>6, <2>7, <4>1, <4>4 DEF desc_start
        <5> QED
          BY <4>3, <5>1 DEF Add
      <4>6. desc_end = desc_start + dz /\ NextPos = desc_start + D
        <5>1. desc_end = Add((pos + 12) + A, dz) /\ NextPos = Add((pos + 12) + A, D)
          BY <2>6, <2>7, <4>1, <4>5 DEF desc_end, NextPos
        <5> QED
          BY <4>3, <4>5, <5>1 DEF Add
      <4>7. ~((pos + 12) + nz >= UsizeMod) /\ ~(((pos + 12) + A) + dz >= UsizeMod)
        BY <2>1, <2>w, <4>3
      <4>8. ~Overflows(name_start, NoteHere.namesz) /\ ~Overflows(desc_start, NoteHere.descsz)
        BY <2>6, <4>1, <4>4, <4>5, <4>7, Zenon DEF Overflows
      <4> QED
        BY <4>1, <4>4, <4>5, <4>6, <4>8
    <3>6. ~(Add(pos, 12) > notes.len) /\ ~(desc_end > notes.len)
      <4>1. Add(pos, 12) = pos + 12 /\ desc_end = (pos + 12 + Padded(n.namesz)) + n.descsz
        BY <3>5 DEF name_start
      <4>2. PICK A \in Nat, dz \in Nat, p \in Nat, l \in Nat :
              A = Padded(n.namesz) /\ dz = n.descsz /\ p = pos /\ l = notes.len
        BY <2>1, <2>7, Zenon
      <4>3. p + 12 + A + dz <= l
        BY <3>4, <4>2
      <4>4. ~(p + 12 > l) /\ ~((p + 12 + A) + dz > l)
        BY <4>3
      <4> QED
        BY <4>1, <4>2, <4>4
    <3>7. IF IsBuildId
          THEN /\ build_id' = [off |-> notes.off + desc_start, len |-> desc_end - desc_start] /\ stage' = "done"
          ELSE pos' = NextPos /\ UNCHANGED <<stage, ph, notes, build_id>>
      BY <1>3, <3>5, <3>6, Zenon DEF ReadNote, Found
    <3>8. IsBuildId <=> k \in Hits(s)
      BY <2>6, <2>9, <3>3 DEF IsBuildId, Hits
    <3>9. CASE IsBuildId
      <4>1. BuildIdOf = [off |-> DescAt(list[k]), len |-> NoteAt(list[k]).descsz]
        <5>1. (\A r \in 1..s : Known(r)) /\ (\A r \in 1..s - 1 : Hits(r) = {})
          BY <1>0, <2>3
        <5> QED
          BY <1>0, <2>2, <2>3, <3>8, <3>9, <5>1, FirstFound, Zenon
      <4>2. DescAt(list[k]) = notes.off + desc_start /\ NoteAt(list[k]).descsz = desc_end - desc_start
        <5> HIDE DEF n
        <5> QED
          BY <2>1, <2>7, <3>3, <3>5
      <4>3. build_id' = BuildIdOf /\ stage' = "done"
        BY <3>7, <3>9, <4>1, <4>2
      <4> QED
        BY <1>e, <4>3, SameImage DEF LinkInv
    <3>10. CASE ~IsBuildId
      <4>1. pos' = NextPos /\ UNCHANGED <<stage, ph, notes, build_id>>
        BY <3>7, <3>10
      <4>2. notes.off + pos' = DescAt(list[k]) + Padded(NoteAt(list[k]).descsz)
        <5>1. pos' = (pos + 12 + Padded(n.namesz)) + Padded(n.descsz)
          BY <3>5, <4>1
        <5>2. DescAt(list[k]) + Padded(NoteAt(list[k]).descsz)
              = notes.off + (pos + 12 + Padded(n.namesz)) + Padded(n.descsz)
          BY <3>3
        <5> HIDE DEF n
        <5> QED
          BY <2>1, <2>7, <5>1, <5>2
      <4>3. notes.off + pos' = NoteStart(s, k + 1)
        <5>1. CASE k = Len(list)
          BY <2>5, <4>2, <5>1 DEF NoteStart
        <5>2. CASE k < Len(list)
          <6>1. k \in 1..Len(list) - 1 /\ k + 1 <= Len(list)
            BY <2>5, <2>9, <5>2
          <6>2. list[k + 1] = DescAt(list[k]) + Padded(NoteAt(list[k]).descsz)
            BY <2>4, <6>1 DEF LaidOut
          <6> QED
            BY <4>2, <6>1, <6>2 DEF NoteStart
        <5> QED
          BY <2>5, <2>9, <5>1, <5>2
      <4>4. k + 1 \in 1..Len(list) + 1 /\ \A j \in 1..(k + 1) - 1 : j \notin Hits(s)
        BY <2>2, <2>5, <2>9, <3>8, <3>10
      <4>5. AtNote'
        <5>1. /\ ph' = ph /\ ph' < elf'.phnum /\ Known(s)' /\ elf'.linked[ph' + 1] # <<>>
              /\ notes' = [off |-> Phdr(s)'.off, len |-> Phdr(s)'.size]
          BY <1>e, <2>1, <2>3, <4>1, SameImage DEF AtNote
        <5>2. notes'.off + pos' = NoteStart(s, k + 1)' /\ k + 1 \in 1..Len(elf'.linked[ph' + 1]) + 1
          BY <1>e, <4>1, <4>3, <4>4, SameImage
        <5>3. \A j \in 1..(k + 1) - 1 : j \notin Hits(s)'
          <6>1. Hits(s)' = Hits(s)
            BY <1>e, <4>1, SameImage
          <6> QED
            BY <4>4, <6>1
        <5> QED
          BY <4>1, <5>1, <5>2, <5>3 DEF AtNote
      <4>6. Passed(ph)'
        BY <1>e, <2>1, <4>1, SameImage DEF Passed
      <4> QED
        BY <2>1, <4>1, <4>5, <4>6 DEF LinkInv
    <3> QED
      BY <3>9, <3>10
  <2>10. k = Len(list) + 1 \/ k \in 1..Len(list)
    BY <2>2, <2>5
  <2> QED
    BY <2>8, <2>9, <2>10
<1>4. CASE UNCHANGED <<elf, scanVars>>
  <2>1. UNCHANGED <<elf, stage, ph, notes, pos, rounds, build_id>>
    BY <1>4 DEF scanVars
  <2>2. (Passed(ph) => Passed(ph)') /\ (AtNote => AtNote')
    BY <2>1, SameImage DEF Passed, AtNote
  <2> QED
    BY <1>s, <2>1, <2>2, SameImage DEF LinkInv
<1> QED
  BY <1>1, <1>2, <1>3, <1>4 DEF ScanStep

(* buildid.rs: for every image whose notes are laid out as linkers lay them out, the
   scan of the program headers ends with the first GNU build-id note, or with none
   if it, or anything before it, is beyond the bytes read.                    *)
THEOREM BuildIdIsRight == ScanSpec => []BuildIdRight
<1>1. ScanInit => ScanInv /\ LinkInv
  BY ScanInvInit, LinkInit
<1>2. ScanInv /\ LinkInv /\ [ScanStep]_<<elf, scanVars>> => (ScanInv /\ LinkInv)'
  BY ScanInvStep, LinkStep
<1>3. ScanInv /\ LinkInv => BuildIdRight
  BY DEF LinkInv, BuildIdRight
<1> QED
  BY <1>1, <1>2, <1>3, PTL DEF ScanSpec

----------------------------------------------------------------------------
(* A pod's directory yields its UID under either driver, a container's its id under
   every runtime, and what is not like a pod's directory yields no UID.       *)
LEMMA DirsYield ==
  ASSUME NEW uid \in PodUids, NEW cid \in ContainerIds, NEW pod \in PodDirs(uid), NEW dir \in ContainerDirs(cid)
  PROVE  extract_pod_uid(pod) = {uid} /\ extract_container_id(dir) = {cid}
<1>1. uid \in DirNames /\ uid.digits = "hex" /\ uid.sep \in {"", "-"} /\ uid.len \in 1..MAX_POD_UID_LEN
  BY Zenon DEF PodUids, DirNames
<1>2. cid \in DirNames /\ cid.digits = "hex" /\ cid.sep = "" /\ cid.len = 64
  BY Zenon DEF ContainerIds
<1>3. Dashed(uid) = uid /\ Dashed(Underscored(uid)) = uid
  BY <1>1, Zenon DEF Dashed, Underscored, DirNames
<1>4. pod.suffix # ".scope" /\ pod.prefix \in {"pod", "-pod"} /\ Dashed(pod.name) = uid
  <2>1. CASE pod = [prefix |-> "pod", name |-> uid, suffix |-> ""]
    BY <1>3, <2>1, Zenon
  <2>2. CASE pod = [prefix |-> "-pod", name |-> Underscored(uid), suffix |-> ".slice"]
    BY <1>3, <2>2
  <2> QED
    BY <2>1, <2>2, Zenon DEF PodDirs
<1>5. is_pod_uid(uid)
  BY <1>1, Zenon DEF is_pod_uid
<1>6. dir.suffix # ".slice" /\ dir.prefix \in RuntimePrefixes \cup {""} /\ dir.name = cid
  <2>1. CASE dir = [prefix |-> "", name |-> cid, suffix |-> ""]
    BY <2>1, Zenon
  <2>2. ASSUME NEW r \in RuntimePrefixes, dir = [prefix |-> r, name |-> cid, suffix |-> ".scope"]
        PROVE  dir.suffix # ".slice" /\ dir.prefix \in RuntimePrefixes \cup {""} /\ dir.name = cid
    BY <2>2, Zenon
  <2> QED
    BY <2>1, <2>2, Zenon DEF ContainerDirs
<1>7. extract_pod_uid(pod) = {uid}
  BY <1>4, <1>5 DEF extract_pod_uid
<1>8. dir.name.len >= MIN_CONTAINER_ID_LEN
  <2>1. 64 >= MIN_CONTAINER_ID_LEN
    BY DEF MIN_CONTAINER_ID_LEN
  <2>2. dir.name.len = 64
    BY <1>2, <1>6, Zenon
  <2> QED
    BY <2>1, <2>2
<1>9. extract_container_id(dir) = {cid}
  BY <1>2, <1>6, <1>8, Zenon DEF extract_container_id
<1> QED
  BY <1>7, <1>9

(* What gives a pod or a container could be taken for the directory of one. *)
LEMMA OthersYieldNone ==
  ASSUME NEW seg \in Segments
  PROVE  /\ IsPod(seg) => LikePod(seg)
         /\ extract_container_id(seg) # {} => LikeContainer(seg)
<1>1. Dashed(seg.name).digits = seg.name.digits /\ Dashed(seg.name).len = seg.name.len
  BY Zenon DEF Dashed, Segments, DirNames
<1> QED
  BY <1>1, Zenon DEF IsPod, LikePod, extract_pod_uid, is_pod_uid, extract_container_id, LikeContainer

(* The path of a process in a container yields the container's identity, whatever
   lies below.                                                               *)
LEMMA PathInContainer ==
  ASSUME NEW path \in Seq(Segments), NEW id \in [pod : PodUids, container : ContainerIds], InContainer(path, id)
  PROVE  parse_cgroup_path(path) = {id}
<1> DEFINE Here == {i \in 1..Len(path) - 1 : IsPod(path[i]) /\ \A j \in 1..i - 1 : ~IsPod(path[j])}
<1>1. PICK i \in 1..Len(path) - 1 : /\ path[i] \in PodDirs(id.pod) /\ path[i + 1] \in ContainerDirs(id.container)
                                    /\ \A j \in 1..i - 1 : ~LikePod(path[j])
  BY DEF InContainer
<1>2. extract_pod_uid(path[i]) = {id.pod} /\ extract_container_id(path[i + 1]) = {id.container}
  BY <1>1, DirsYield
<1>3. IsPod(path[i]) /\ \A j \in 1..i - 1 : ~IsPod(path[j])
  <2>1. \A j \in 1..i - 1 : path[j] \in Segments
    OBVIOUS
  <2> QED
    BY <1>1, <1>2, <2>1, OthersYieldNone DEF IsPod
<1>4. Here = {i}
  BY <1>3
<1>5. parse_cgroup_path(path) =
        UNION {[pod : extract_pod_uid(path[n]), container : extract_container_id(path[n + 1])] : n \in Here}
  BY Zenon DEF parse_cgroup_path
<1> HIDE DEF Here
<1>6. parse_cgroup_path(path) = [pod : {id.pod}, container : {id.container}]
  BY <1>2, <1>4, <1>5, Zenon
<1>7. id = [pod |-> id.pod, container |-> id.container]
  OBVIOUS
<1>8. \A r \in [pod : {id.pod}, container : {id.container}] : r = [pod |-> id.pod, container |-> id.container]
  OBVIOUS
<1>9. [pod |-> id.pod, container |-> id.container] \in [pod : {id.pod}, container : {id.container}]
  OBVIOUS
<1> QED
  BY <1>6, <1>7, <1>8, <1>9, Zenon

(* The path of a process in no container gives none.                         *)
LEMMA PathInNone ==
  ASSUME NEW path \in Seq(Segments), InNone(path)
  PROVE  parse_cgroup_path(path) = {}
<1>1. ASSUME NEW i \in 1..Len(path) - 1, IsPod(path[i]) PROVE extract_container_id(path[i + 1]) = {}
  <2>1. path[i] \in Segments /\ path[i + 1] \in Segments
    OBVIOUS
  <2> QED
    BY <1>1, <2>1, OthersYieldNone DEF InNone
<1>2. \A i \in 1..Len(path) - 1 :
        IsPod(path[i]) => [pod : extract_pod_uid(path[i]), container : extract_container_id(path[i + 1])] = {}
  BY <1>1, Zenon
<1> QED
  BY <1>2, Zenon DEF parse_cgroup_path

(* The file yields the identity of the process, and only where a ':' hides it may it
   yield none.                                                               *)
LEMMA ParsedRight ==
  ASSUME NEW lines, NEW whose, NEW colon, Placed(lines, whose, colon)
  PROVE  parse_cgroup(lines) \subseteq whose /\ (~colon => parse_cgroup(lines) = whose)
<1> DEFINE Path(i) == lines[i][Len(lines[i])]
           Identity(i) == parse_cgroup_path(Path(i))
           Firsts == {i \in DOMAIN lines : \A j \in 1..i - 1 : Identity(j) = {}}
<1>1. DOMAIN lines = 1..Len(lines) /\ Len(lines) \in Nat /\ \A i \in DOMAIN lines : Path(i) \in Seq(Segments)
  BY DEF Placed
<1>2. parse_cgroup(lines) = UNION {Identity(i) : i \in Firsts}
  BY Zenon DEF parse_cgroup
<1>3. CASE whose = {} /\ \A i \in DOMAIN lines : InNone(Path(i))
  <2>1. \A i \in DOMAIN lines : Identity(i) = {}
    BY <1>1, <1>3, PathInNone
  <2> HIDE DEF Identity
  <2> QED
    BY <1>2, <1>3, <2>1
<1>4. CASE \E id \in whose : /\ whose = {id} /\ id \in [pod : PodUids, container : ContainerIds]
                             /\ \A i \in DOMAIN lines : InNone(Path(i)) \/ InContainer(Path(i), id)
                             /\ colon \/ \E i \in DOMAIN lines : InContainer(Path(i), id)
  <2>1. PICK id \in whose : /\ whose = {id} /\ id \in [pod : PodUids, container : ContainerIds]
                            /\ \A i \in DOMAIN lines : InNone(Path(i)) \/ InContainer(Path(i), id)
                            /\ colon \/ \E i \in DOMAIN lines : InContainer(Path(i), id)
    BY <1>4
  <2>2. \A i \in DOMAIN lines : InContainer(Path(i), id) => Identity(i) = {id}
    BY <1>1, <2>1, PathInContainer
  <2>3. \A i \in DOMAIN lines : Identity(i) \in {{}, {id}}
    BY <1>1, <2>1, <2>2, PathInNone, Zenon
  <2> DEFINE T == {i \in DOMAIN lines : Identity(i) = {id}}
  <2> HIDE DEF Identity, Path
  <2>4. parse_cgroup(lines) \subseteq whose
    <3> HIDE DEF Firsts
    <3>1. Firsts \subseteq DOMAIN lines
      BY DEF Firsts
    <3>2. \A i \in Firsts : Identity(i) \subseteq {id}
      BY <2>3, <3>1
    <3> QED
      BY <1>2, <2>1, <3>2, Zenon
  <2>5. ASSUME ~colon PROVE id \in parse_cgroup(lines)
    <3>1. T # {} /\ T \subseteq Nat
      BY <1>1, <2>1, <2>2, <2>5
    <3>2. PICK i \in T : \A j \in T : i <= j
      <4> HIDE DEF T
      <4> QED
        BY <3>1, LeastNat, Zenon
    <3>3. i \in 1..Len(lines) /\ Identity(i) = {id}
      BY <1>1, <3>2
    <3>4. ASSUME NEW j \in 1..i - 1 PROVE Identity(j) = {}
      <4>1. j \in DOMAIN lines /\ ~(i <= j)
        BY <1>1, <3>3
      <4> QED
        BY <2>3, <3>2, <4>1
    <3>5. i \in Firsts
      BY <1>1, <3>3, <3>4
    <3> QED
      BY <1>2, <3>3, <3>5
  <2> QED
    BY <2>1, <2>4, <2>5
<1> QED
  BY <1>3, <1>4 DEF Placed

----------------------------------------------------------------------------
(* Labels that differ from place to place.                                   *)
LEMMA Apart ==
  ASSUME NEW e, ToldApart(e)
  PROVE  LET v == e.value
             Real(id) == id \notin {"", "<redacted>"}
         IN /\ Real(e.key.id) =>
                 /\ e.key.id # v.text.id
                 /\ \A i \in DOMAIN v.info : e.key.id # v.info[i].id
                 /\ \A i \in DOMAIN v.query : e.key.id # v.query[i].key.id /\ e.key.id # v.query[i].value.id
            /\ \A i \in DOMAIN v.info : Real(v.info[i].id) =>
                 /\ v.info[i].id # v.text.id
                 /\ \A j \in DOMAIN v.info : j # i => v.info[i].id # v.info[j].id
                 /\ \A j \in DOMAIN v.query : v.info[i].id # v.query[j].key.id /\ v.info[i].id # v.query[j].value.id
            /\ \A i \in DOMAIN v.query : Real(v.query[i].value.id) =>
                 /\ v.query[i].value.id # v.text.id
                 /\ \A j \in DOMAIN v.query : /\ v.query[i].value.id # v.query[j].key.id
                                              /\ j # i => v.query[i].value.id # v.query[j].value.id
<1> DEFINE v == e.value
           places == ({"key", "text"} \X {1}) \cup ({"info"} \X DOMAIN v.info)
                     \cup ({"name", "value"} \X DOMAIN v.query)
           Real(id) == id \notin {"", "<redacted>"}
<1>1. /\ <<"key", 1>> \in places /\ <<"text", 1>> \in places
      /\ \A i \in DOMAIN v.info : <<"info", i>> \in places
      /\ \A i \in DOMAIN v.query : <<"name", i>> \in places /\ <<"value", i>> \in places
  OBVIOUS
<1>2. /\ PieceAt(e, <<"key", 1>>) = e.key.id /\ PieceAt(e, <<"text", 1>>) = v.text.id
      /\ \A i \in DOMAIN v.info : PieceAt(e, <<"info", i>>) = v.info[i].id
      /\ \A i \in DOMAIN v.query : /\ PieceAt(e, <<"name", i>>) = v.query[i].key.id
                                   /\ PieceAt(e, <<"value", i>>) = v.query[i].value.id
  BY DEF PieceAt
<1>3. \A p, q \in places : PieceAt(e, p) = PieceAt(e, q) => p = q \/ ~Real(PieceAt(e, p))
  <2>1. \A p, q \in places : PieceAt(e, p) = PieceAt(e, q) => p = q \/ PieceAt(e, p) \in {"", "<redacted>"}
    BY Zenon DEF ToldApart
  <2> HIDE DEF places
  <2> QED
    BY <2>1, Zenon
<1>4. \A i, j : /\ <<"key", 1>> # <<"text", 1>> /\ <<"key", 1>> # <<"info", i>> /\ <<"key", 1>> # <<"name", i>>
                /\ <<"key", 1>> # <<"value", i>> /\ <<"info", i>> # <<"text", 1>> /\ <<"info", i>> # <<"name", j>>
                /\ <<"info", i>> # <<"value", j>> /\ <<"value", i>> # <<"text", 1>> /\ <<"value", i>> # <<"name", j>>
                /\ i # j => <<"info", i>> # <<"info", j>> /\ <<"value", i>> # <<"value", j>>
  OBVIOUS
<1> HIDE DEF places, Real, v
<1>5. ASSUME Real(e.key.id)
      PROVE  /\ e.key.id # v.text.id
             /\ \A i \in DOMAIN v.info : e.key.id # v.info[i].id
             /\ \A i \in DOMAIN v.query : e.key.id # v.query[i].key.id /\ e.key.id # v.query[i].value.id
  <2>1. \A q \in places : PieceAt(e, q) = e.key.id => q = <<"key", 1>>
    BY <1>1, <1>2, <1>3, <1>5, Zenon
  <2>2. e.key.id # v.text.id
    BY <1>1, <1>2, <1>4, <2>1, Zenon
  <2>3. \A i \in DOMAIN v.info : e.key.id # v.info[i].id
    BY <1>1, <1>2, <1>4, <2>1, Zenon
  <2>4. \A i \in DOMAIN v.query : e.key.id # v.query[i].key.id
    BY <1>1, <1>2, <1>4, <2>1, Zenon
  <2>5. \A i \in DOMAIN v.query : e.key.id # v.query[i].value.id
    BY <1>1, <1>2, <1>4, <2>1, Zenon
  <2> QED
    BY <2>2, <2>3, <2>4, <2>5, Zenon
<1>6. ASSUME NEW i \in DOMAIN v.info, Real(v.info[i].id)
      PROVE  /\ v.info[i].id # v.text.id
             /\ \A j \in DOMAIN v.info : j # i => v.info[i].id # v.info[j].id
             /\ \A j \in DOMAIN v.query : v.info[i].id # v.query[j].key.id /\ v.info[i].id # v.query[j].value.id
  <2>1. \A q \in places : PieceAt(e, q) = v.info[i].id => q = <<"info", i>>
    BY <1>1, <1>2, <1>3, <1>6, Zenon
  <2>2. v.info[i].id # v.text.id
    BY <1>1, <1>2, <1>4, <2>1, Zenon
  <2>3. \A j \in DOMAIN v.info : j # i => v.info[i].id # v.info[j].id
    BY <1>1, <1>2, <1>4, <2>1, Zenon
  <2>4. \A j \in DOMAIN v.query : v.info[i].id # v.query[j].key.id
    BY <1>1, <1>2, <1>4, <2>1, Zenon
  <2>5. \A j \in DOMAIN v.query : v.info[i].id # v.query[j].value.id
    BY <1>1, <1>2, <1>4, <2>1, Zenon
  <2> QED
    BY <2>2, <2>3, <2>4, <2>5, Zenon
<1>7. ASSUME NEW i \in DOMAIN v.query, Real(v.query[i].value.id)
      PROVE  /\ v.query[i].value.id # v.text.id
             /\ \A j \in DOMAIN v.query : /\ v.query[i].value.id # v.query[j].key.id
                                          /\ j # i => v.query[i].value.id # v.query[j].value.id
  <2>1. \A q \in places : PieceAt(e, q) = v.query[i].value.id => q = <<"value", i>>
    BY <1>1, <1>2, <1>3, <1>7, Zenon
  <2>2. v.query[i].value.id # v.text.id
    BY <1>1, <1>2, <1>4, <2>1, Zenon
  <2>3. \A j \in DOMAIN v.query : v.query[i].value.id # v.query[j].key.id
    BY <1>1, <1>2, <1>4, <2>1, Zenon
  <2>4. \A j \in DOMAIN v.query : j # i => v.query[i].value.id # v.query[j].value.id
    BY <1>1, <1>2, <1>4, <2>1, Zenon
  <2> QED
    BY <2>2, <2>3, <2>4
<1> QED
  BY <1>5, <1>6, <1>7, Zenon DEF Real, v

(* The pieces of a value, place by place.                                    *)
LEMMA InPieces ==
  ASSUME NEW v, NEW x
  PROVE  x \in PiecesOfValue(v) <=>
           \/ x = v.text.id
           \/ \E i \in DOMAIN v.info : x = v.info[i].id
           \/ \E i \in DOMAIN v.query : x = v.query[i].key.id \/ x = v.query[i].value.id
BY DEF PiecesOfValue, Range

(* redact_url: which pieces of a URL are gone, place by place.               *)
LEMMA UrlRedacted ==
  ASSUME NEW v \in Values
  PROVE  LET w == redact_url(v)
         IN /\ w.text = v.text /\ DOMAIN w.info = DOMAIN v.info /\ DOMAIN w.query = DOMAIN v.query
            /\ \A i \in DOMAIN v.info :
                 w.info[i].id = IF \/ Len(v.info) = 2 /\ i = 2 /\ v.info[i].id # ""
                                   \/ Len(v.info) = 1 /\ looks_secret_value(v.info[i])
                                THEN "<redacted>" ELSE v.info[i].id
            /\ \A i \in DOMAIN v.query :
                 /\ w.query[i].key = v.query[i].key
                 /\ w.query[i].value.id = IF v.query[i].key.secret /\ v.query[i].value.id # ""
                                          THEN "<redacted>" ELSE v.query[i].value.id
<1> DEFINE w == redact_url(v)
<1>1. v.info \in Seq(Texts) /\ Len(v.info) <= 2 /\ v.query \in Seq(Params)
  BY DEF Values
<1>2. w.text = v.text /\ w.info = redact_userinfo(v.info) /\ w.query = redact_query(v.query)
  BY DEF redact_url, Values
<1>3. REDACTED.id = "<redacted>"
  BY DEF REDACTED, Text
<1>4. DOMAIN w.query = DOMAIN v.query /\ \A i \in DOMAIN v.query :
                 /\ w.query[i].key = v.query[i].key
                 /\ w.query[i].value.id = IF v.query[i].key.secret /\ v.query[i].value.id # ""
                                          THEN "<redacted>" ELSE v.query[i].value.id
  <2> HIDE DEF w
  <2>1. DOMAIN w.query = DOMAIN v.query
    BY <1>2, Zenon DEF redact_query
  <2>2. ASSUME NEW i \in DOMAIN v.query
        PROVE  /\ w.query[i].key = v.query[i].key
               /\ w.query[i].value.id = IF v.query[i].key.secret /\ v.query[i].value.id # ""
                                        THEN "<redacted>" ELSE v.query[i].value.id
    <3>1. v.query[i] \in Params
      BY <1>1
    <3>2. w.query[i] = IF v.query[i].key.secret /\ v.query[i].value.id # ""
                       THEN [v.query[i] EXCEPT !.value = REDACTED] ELSE v.query[i]
      BY <1>2, Zenon DEF redact_query
    <3> QED
      BY <1>3, <3>1, <3>2, Zenon DEF Params
  <2> QED
    BY <2>1, <2>2, Zenon
<1>5. DOMAIN w.info = DOMAIN v.info /\ \A i \in DOMAIN v.info :
                 w.info[i].id = IF \/ Len(v.info) = 2 /\ i = 2 /\ v.info[i].id # ""
                                   \/ Len(v.info) = 1 /\ looks_secret_value(v.info[i])
                                THEN "<redacted>" ELSE v.info[i].id
  <2> HIDE DEF w
  <2>0. PICK info \in Seq(Texts) : info = v.info /\ Len(info) <= 2
    BY <1>1
  <2>1. CASE Len(info) = 2 /\ info[2].id # ""
    <3>0. Len(info) = 2
      BY <2>1, Zenon
    <3>1. redact_userinfo(info) = <<info[1], REDACTED>>
      <4>1. info[Len(info)] = info[2] /\ Len(info) # 1
        BY <3>0
      <4> QED
        BY <2>1, <4>1, Zenon DEF redact_userinfo
    <3>2. DOMAIN info = {1, 2}
      <4>1. DOMAIN info = 1..2
        BY <2>0, <3>0
      <4>2. 1..2 = {1, 2}
        OBVIOUS
      <4> QED
        BY <4>1, <4>2
    <3>3. /\ DOMAIN redact_userinfo(info) = {1, 2}
          /\ redact_userinfo(info)[1] = info[1] /\ redact_userinfo(info)[2] = REDACTED
      BY <3>1
    <3> QED
      BY <1>2, <1>3, <2>0, <2>1, <3>2, <3>3, Zenon
  <2>2. CASE Len(info) = 1 /\ looks_secret_value(info[1])
    <3>1. redact_userinfo(info) = <<REDACTED>>
      BY <2>2 DEF redact_userinfo
    <3>2. DOMAIN info = {1}
      BY <2>0, <2>2
    <3>3. DOMAIN redact_userinfo(info) = {1} /\ redact_userinfo(info)[1] = REDACTED
      BY <3>1
    <3> QED
      BY <1>2, <1>3, <2>0, <2>2, <3>2, <3>3
  <2>3. CASE ~(Len(info) = 2 /\ info[2].id # "") /\ ~(Len(info) = 1 /\ looks_secret_value(info[1]))
    <3>1. redact_userinfo(info) = info
      BY <2>3, Zenon DEF redact_userinfo
    <3>2. Len(info) = 1 => DOMAIN info = {1}
      BY <2>0
    <3> QED
      BY <1>2, <2>0, <2>3, <3>1, <3>2, Zenon
  <2> QED
    BY <2>1, <2>2, <2>3, Zenon
<1> QED
  BY <1>2, <1>4, <1>5, Zenon

(* redact_entry: what is left to see of an entry is what is not secret of it, for
   every entry whose shaped texts the heuristics recognise.                   *)
LEMMA EntryRedacted ==
  ASSUME NEW e \in Entries, ToldApart(e), Recognised(e)
  PROVE  Shown(redact_entry(e)) = Shown(e) \ SecretPieces(e)
<1> DEFINE v == e.value
           w == redact_url(v)
           Real(id) == id \notin {"", "<redacted>"}
<1>0. /\ v \in Values /\ v.url \in BOOLEAN /\ e.key \in Keys /\ e.eq \in BOOLEAN /\ e.utf8 \in BOOLEAN
      /\ v.info \in Seq(Texts) /\ Len(v.info) <= 2
      /\ ~v.url => v.info = <<>> /\ v.query = <<>>
  BY DEF Entries, Values
<1>a. /\ Real(e.key.id) =>
           /\ e.key.id # v.text.id
           /\ \A i \in DOMAIN v.info : e.key.id # v.info[i].id
           /\ \A i \in DOMAIN v.query : e.key.id # v.query[i].key.id /\ e.key.id # v.query[i].value.id
      /\ \A i \in DOMAIN v.info : Real(v.info[i].id) =>
           /\ v.info[i].id # v.text.id
           /\ \A j \in DOMAIN v.info : j # i => v.info[i].id # v.info[j].id
           /\ \A j \in DOMAIN v.query : v.info[i].id # v.query[j].key.id /\ v.info[i].id # v.query[j].value.id
      /\ \A i \in DOMAIN v.query : Real(v.query[i].value.id) =>
           /\ v.query[i].value.id # v.text.id
           /\ \A j \in DOMAIN v.query : /\ v.query[i].value.id # v.query[j].key.id
                                        /\ j # i => v.query[i].value.id # v.query[j].value.id
  BY Apart, Zenon
<1>1. CASE ~e.utf8 \/ ~e.eq
  <2>1. redact_entry(e) = e /\ SecretPieces(e) = {}
    BY <1>1 DEF redact_entry, SecretPieces
  <2> QED
    BY <2>1
<1>2. CASE e.utf8 /\ e.eq /\ drops_value(e)
  <2>1. redact_entry(e) = [e EXCEPT !.value = Plain(REDACTED)]
    BY <1>2 DEF redact_entry
  <2>2. /\ redact_entry(e).key = e.key /\ redact_entry(e).eq = e.eq
        /\ redact_entry(e).value = Plain(REDACTED)
    BY <2>1 DEF Entries
  <2>3. PiecesOfValue(Plain(REDACTED)) = {"<redacted>"}
    <3>1. Plain(REDACTED).text.id = "<redacted>" /\ Plain(REDACTED).info = <<>> /\ Plain(REDACTED).query = <<>>
      BY DEF Plain, REDACTED, Text
    <3>2. \A x : x \in PiecesOfValue(Plain(REDACTED)) <=> x = "<redacted>"
      BY <3>1, InPieces
    <3> QED
      BY <3>2
  <2>4. Shown(redact_entry(e)) = {e.key.id} \ {"", "<redacted>"}
    BY <1>2, <2>2, <2>3, Zenon DEF Shown, Pieces
  <2>5. Real(e.key.id) => e.key.id \notin PiecesOfValue(v)
    <3>1. e.key.id \in PiecesOfValue(v) <=>
            \/ e.key.id = v.text.id
            \/ \E i \in DOMAIN v.info : e.key.id = v.info[i].id
            \/ \E i \in DOMAIN v.query : e.key.id = v.query[i].key.id \/ e.key.id = v.query[i].value.id
      BY InPieces
    <3> QED
      BY <1>a, <3>1, Zenon
  <2>6. SecretPieces(e) = PiecesOfValue(v)
    <3>1. CASE e.key.secret
      BY <1>2, <3>1 DEF SecretPieces
    <3>2. CASE ~e.key.secret
      <4>1. ~v.url /\ v.text.shaped /\ v.info = <<>> /\ v.query = <<>>
        BY <1>0, <1>2, <3>2 DEF drops_value, Recognised
      <4>2. SecretPieces(e) = {v.text.id}
        BY <1>2, <3>2, <4>1 DEF SecretPieces, Range
      <4>3. \A x : x \in PiecesOfValue(v) <=> x = v.text.id
        BY <4>1, InPieces
      <4> QED
        BY <4>2, <4>3
    <3> QED
      BY <3>1, <3>2
  <2>7. Shown(e) = ({e.key.id} \cup PiecesOfValue(v)) \ {"", "<redacted>"}
    BY <1>2 DEF Shown, Pieces
  <2> QED
    BY <2>4, <2>5, <2>6, <2>7, Zenon
<1>3. CASE e.utf8 /\ e.eq /\ ~drops_value(e) /\ ~v.url
  <2>1. redact_entry(e) = e
    BY <1>3 DEF redact_entry
  <2>2. ~v.text.shaped /\ ~e.key.secret /\ v.info = <<>> /\ v.query = <<>>
    BY <1>0, <1>3 DEF drops_value, Recognised
  <2>3. SecretPieces(e) = {}
    BY <1>3, <2>2 DEF SecretPieces, Range
  <2> QED
    BY <2>1, <2>3
<1>4. CASE e.utf8 /\ e.eq /\ ~drops_value(e) /\ v.url
  <2> DEFINE InfoGone(i) == \/ Len(v.info) = 2 /\ i = 2 /\ v.info[i].id # ""
                            \/ Len(v.info) = 1 /\ looks_secret_value(v.info[i])
             ParamGone(i) == v.query[i].key.secret /\ v.query[i].value.id # ""
  <2>1. redact_entry(e) = [e EXCEPT !.value = w]
    BY <1>4 DEF redact_entry
  <2>2. redact_entry(e).key = e.key /\ redact_entry(e).eq = e.eq /\ redact_entry(e).value = w
    BY <2>1 DEF Entries
  <2>3. /\ w.text = v.text /\ DOMAIN w.info = DOMAIN v.info /\ DOMAIN w.query = DOMAIN v.query
        /\ \A i \in DOMAIN v.info : w.info[i].id = IF InfoGone(i) THEN "<redacted>" ELSE v.info[i].id
        /\ \A i \in DOMAIN v.query : /\ w.query[i].key = v.query[i].key
                                     /\ w.query[i].value.id = IF ParamGone(i) THEN "<redacted>" ELSE v.query[i].value.id
    BY <1>0, UrlRedacted, Zenon
  <2>4. ~e.key.secret /\ ~v.text.shaped /\ (Len(v.info) = 1 => (v.info[1].shaped <=> looks_secret_value(v.info[1])))
    BY <1>4 DEF drops_value, Recognised
  <2>5. ASSUME NEW x, Real(x)
        PROVE  x \in SecretPieces(e) <=> \/ \E i \in DOMAIN v.info : InfoGone(i) /\ x = v.info[i].id
                                         \/ \E i \in DOMAIN v.query : ParamGone(i) /\ x = v.query[i].value.id
    <3>1. SecretPieces(e) =
            {t.id : t \in {t \in {v.text} \cup (IF Len(v.info) = 1 THEN Range(v.info) ELSE {}) : t.shaped}}
            \cup (IF Len(v.info) = 2 THEN {v.info[2].id} ELSE {})
            \cup {q.value.id : q \in {q \in Range(v.query) : q.key.secret}}
      BY <1>4, <2>4, Zenon DEF SecretPieces
    <3>2. x \in {q.value.id : q \in {q \in Range(v.query) : q.key.secret}}
          <=> \E i \in DOMAIN v.query : ParamGone(i) /\ x = v.query[i].value.id
      BY <2>5, Zenon DEF Range
    <3>3. x \in {t.id : t \in {t \in {v.text} \cup (IF Len(v.info) = 1 THEN Range(v.info) ELSE {}) : t.shaped}}
          <=> Len(v.info) = 1 /\ looks_secret_value(v.info[1]) /\ x = v.info[1].id
      <4>1. Len(v.info) = 1 => DOMAIN v.info = {1} /\ Range(v.info) = {v.info[1]}
        BY <1>0 DEF Range
      <4> QED
        BY <2>4, <4>1, Zenon
    <3>4. x \in (IF Len(v.info) = 2 THEN {v.info[2].id} ELSE {}) <=> Len(v.info) = 2 /\ x = v.info[2].id
      OBVIOUS
    <3>5. (\E i \in DOMAIN v.info : InfoGone(i) /\ x = v.info[i].id)
          <=> \/ Len(v.info) = 2 /\ x = v.info[2].id
              \/ Len(v.info) = 1 /\ looks_secret_value(v.info[1]) /\ x = v.info[1].id
      <4>1. /\ Len(v.info) = 1 => DOMAIN v.info = {1}
            /\ Len(v.info) = 2 => 2 \in DOMAIN v.info
            /\ ~(Len(v.info) = 1 /\ Len(v.info) = 2)
        BY <1>0
      <4> QED
        BY <2>5, <4>1, Zenon
    <3> HIDE DEF InfoGone, ParamGone, Real
    <3> QED
      BY <3>1, <3>2, <3>3, <3>4, <3>5
  <2>6. ASSUME NEW x, Real(x)
        PROVE  x \in Pieces(redact_entry(e)) <=> x \in Pieces(e) /\ x \notin SecretPieces(e)
    <3> HIDE DEF InfoGone, ParamGone, w
    <3>1. x \in Pieces(redact_entry(e)) <=>
            \/ x = e.key.id \/ x = v.text.id
            \/ \E i \in DOMAIN v.info : ~InfoGone(i) /\ x = v.info[i].id
            \/ \E i \in DOMAIN v.query : x = v.query[i].key.id \/ (~ParamGone(i) /\ x = v.query[i].value.id)
      <4>1. x \in Pieces(redact_entry(e)) <=> x = e.key.id \/ x \in PiecesOfValue(w)
        BY <1>4, <2>2 DEF Pieces
      <4>2. x \in PiecesOfValue(w) <=>
              \/ x = w.text.id
              \/ \E i \in DOMAIN w.info : x = w.info[i].id
              \/ \E i \in DOMAIN w.query : x = w.query[i].key.id \/ x = w.query[i].value.id
        BY InPieces
      <4> QED
        BY <2>3, <2>6, <4>1, <4>2, Zenon
    <3>2. x \in Pieces(e) <=>
            \/ x = e.key.id \/ x = v.text.id
            \/ \E i \in DOMAIN v.info : x = v.info[i].id
            \/ \E i \in DOMAIN v.query : x = v.query[i].key.id \/ x = v.query[i].value.id
      BY <1>4, InPieces DEF Pieces
    <3>3. /\ x = e.key.id =>
               /\ \A i \in DOMAIN v.info : x # v.info[i].id
               /\ \A i \in DOMAIN v.query : x # v.query[i].value.id
          /\ \A i \in DOMAIN v.info : x = v.info[i].id =>
               /\ x # v.text.id
               /\ \A j \in DOMAIN v.info : j # i => x # v.info[j].id
               /\ \A j \in DOMAIN v.query : x # v.query[j].key.id /\ x # v.query[j].value.id
          /\ \A i \in DOMAIN v.query : x = v.query[i].value.id =>
               /\ x # v.text.id
               /\ \A j \in DOMAIN v.query : x # v.query[j].key.id /\ (j # i => x # v.query[j].value.id)
      BY <1>a, <2>6, Zenon
    <3> DEFINE Secret == \/ \E i \in DOMAIN v.info : InfoGone(i) /\ x = v.info[i].id
                         \/ \E i \in DOMAIN v.query : ParamGone(i) /\ x = v.query[i].value.id
    <3>4. x \in SecretPieces(e) <=> Secret
      BY <2>5, <2>6, Zenon
    <3> HIDE DEF v, Real
    <3>5. Secret => x \notin Pieces(redact_entry(e))
      BY <3>1, <3>3, Zenon
    <3>6. ~Secret => (x \in Pieces(redact_entry(e)) <=> x \in Pieces(e))
      BY <3>1, <3>2, Zenon
    <3> HIDE DEF Secret
    <3> QED
      BY <3>4, <3>5, <3>6, Zenon
  <2>7. \A x : x \in Shown(redact_entry(e)) <=> x \in Shown(e) /\ x \notin SecretPieces(e)
    BY <2>6, Zenon DEF Shown
  <2> QED
    BY <2>7
<1> QED
  BY <1>1, <1>2, <1>3, <1>4

(* A greatest member is Max.                                                 *)
LEMMA MaxIs ==
  ASSUME NEW S \in SUBSET Int, NEW m \in S, \A x \in S : x <= m
  PROVE  Max(S) = m
<1>1. \A y \in S : m >= y
  OBVIOUS
<1>2. Max(S) \in S /\ \A y \in S : Max(S) >= y
  BY <1>1, Zenon DEF Max
<1>3. PICK a \in Int : a = Max(S)
  BY <1>2, Zenon
<1> QED
  BY <1>2, <1>3

(* IsFlagValue counts the run of secret flags that ends before an argument; the
   loop of redact_cmdline only remembers one bit.                            *)
LEMMA FlagValueStep ==
  ASSUME NEW args, NEW i \in Nat
  PROVE  /\ ~IsFlagValue(args, 1)
         /\ i >= 1 => (IsFlagValue(args, i + 1) <=> ~IsFlagValue(args, i) /\ is_secret_flag(args[i]))
<1> DEFINE Runs(k) == {n \in 1..k - 1 : \A j \in k - n..k - 1 : is_secret_flag(args[j])}
<1>1. ASSUME NEW k PROVE IsFlagValue(args, k) <=> Runs(k) # {} /\ Max(Runs(k)) % 2 = 1
  BY DEF IsFlagValue
<1>2. Runs(1) = {}
  OBVIOUS
<1>3. ASSUME i >= 1, ~is_secret_flag(args[i]) PROVE Runs(i + 1) = {}
  <2>1. SUFFICES ASSUME NEW n \in Runs(i + 1) PROVE FALSE
    OBVIOUS
  <2>2. i \in (i + 1) - n..(i + 1) - 1
    BY <1>3, <2>1
  <2> QED
    BY <1>3, <2>1, <2>2
<1>4. ASSUME i >= 1, is_secret_flag(args[i])
      PROVE  IsFlagValue(args, i + 1) <=> ~IsFlagValue(args, i)
  <2>1. 1 \in Runs(i + 1)
    BY <1>4
  <2>2. \A n \in Runs(i) : n \in 1..i - 1 /\ n + 1 \in Runs(i + 1)
    <3>1. SUFFICES ASSUME NEW n \in Runs(i) PROVE n + 1 \in Runs(i + 1)
      OBVIOUS
    <3>2. n + 1 \in 1..(i + 1) - 1
      BY <1>4
    <3>3. ASSUME NEW j \in (i + 1) - (n + 1)..(i + 1) - 1 PROVE is_secret_flag(args[j])
      <4>1. j = i \/ j \in i - n..i - 1
        OBVIOUS
      <4> QED
        BY <1>4, <4>1
    <3> QED
      BY <3>2, <3>3
  <2>3. \A n \in Runs(i + 1) : n \in 1..i /\ (n = 1 \/ n - 1 \in Runs(i))
    <3>1. SUFFICES ASSUME NEW n \in Runs(i + 1), n # 1 PROVE n - 1 \in Runs(i)
      OBVIOUS
    <3>2. n \in 1..i /\ n - 1 \in 1..i - 1
      BY <3>1
    <3>3. ASSUME NEW j \in i - (n - 1)..i - 1 PROVE is_secret_flag(args[j])
      <4>1. j \in (i + 1) - n..(i + 1) - 1
        BY <3>2
      <4> QED
        BY <4>1
    <3> QED
      BY <3>2, <3>3
  <2>4. CASE Runs(i) = {}
    <3> HIDE DEF Runs
    <3>1. Max(Runs(i + 1)) = 1
      BY <2>1, <2>3, <2>4, MaxIs
    <3> QED
      BY <1>1, <2>1, <2>4, <3>1
  <2>5. CASE Runs(i) # {}
    <3> DEFINE Left == {i - n : n \in Runs(i)}
    <3>1. \A n \in Runs(i) : n \in 1..i - 1
      OBVIOUS
    <3> HIDE DEF Runs
    <3>2. Left \in SUBSET Nat /\ Left # {}
      BY <2>5, <3>1
    <3>3. PICK l \in Left : \A x \in Left : l <= x
      BY <3>2, LeastNat, Zenon
    <3>4. PICK m \in Runs(i) : l = i - m
      OBVIOUS
    <3>5. \A n \in Runs(i) : n <= m
      <4>1. SUFFICES ASSUME NEW n \in Runs(i) PROVE n <= m
        OBVIOUS
      <4>2. l <= i - n
        BY <3>3
      <4> QED
        BY <3>1, <3>4, <4>2
    <3>6. Max(Runs(i)) = m
      BY <3>1, <3>5, MaxIs
    <3>7. Max(Runs(i + 1)) = m + 1
      <4>1. m + 1 \in Runs(i + 1) /\ Runs(i + 1) \in SUBSET Int
        BY <2>2, <2>3
      <4>2. \A n \in Runs(i + 1) : n <= m + 1
        BY <2>3, <3>1, <3>5
      <4> QED
        BY <4>1, <4>2, MaxIs
    <3>8. m % 2 = 1 <=> (m + 1) % 2 # 1
      BY <3>1
    <3> QED
      BY <1>1, <2>1, <2>5, <3>6, <3>7, <3>8
  <2> QED
    BY <2>4, <2>5
<1> HIDE DEF Runs
<1>5. ~IsFlagValue(args, 1)
  BY <1>1, <1>2
<1>6. ASSUME i >= 1, ~is_secret_flag(args[i]) PROVE ~IsFlagValue(args, i + 1)
  BY <1>1, <1>3, <1>6
<1> QED
  BY <1>4, <1>5, <1>6, Zenon

(* redact_cmdline: the loop variable is set after an argument exactly if the next
   one is the value of a secret flag.                                        *)
LEMMA RedactNextIs ==
  ASSUME NEW S, NEW args \in Seq(S), NEW i \in 1..Len(args)
  PROVE  redact_next(args)[i - 1] <=> IsFlagValue(args, i)
<1> DEFINE W == [k \in 0..Len(args) |-> IsFlagValue(args, k + 1)]
           N == redact_next(args)
           Looping(f) == f = [k \in 0..Len(args) |-> k # 0 /\ ~f[k - 1] /\ is_secret_flag(args[k])]
<1>1. Looping(W)
  <2>1. ASSUME NEW k \in 0..Len(args)
        PROVE  IsFlagValue(args, k + 1) = (k # 0 /\ ~W[k - 1] /\ is_secret_flag(args[k]))
    <3>1. CASE k = 0
      BY <3>1, FlagValueStep DEF IsFlagValue
    <3>2. CASE k # 0
      <4>1. k \in Nat /\ k >= 1 /\ W[k - 1] = IsFlagValue(args, k)
        BY <3>2
      <4>2. IsFlagValue(args, k + 1) <=> ~IsFlagValue(args, k) /\ is_secret_flag(args[k])
        BY <4>1, FlagValueStep, Zenon
      <4>3. IsFlagValue(args, k + 1) \in BOOLEAN
        BY DEF IsFlagValue
      <4> QED
        BY <3>2, <4>1, <4>2, <4>3
    <3> QED
      BY <3>1, <3>2
  <2> QED
    BY <2>1
<1>2. Looping(N)
  BY <1>1, Zenon DEF redact_next
<1>3. \A k \in 0..Len(args) : N[k] <=> W[k]
  <2> DEFINE Bad == {k \in 0..Len(args) : ~(N[k] <=> W[k])}
  <2>1. SUFFICES ASSUME Bad # {} PROVE FALSE
    OBVIOUS
  <2>2. PICK b \in Bad : \A x \in Bad : b <= x
    <3>1. Bad \subseteq Nat
      OBVIOUS
    <3> QED
      BY <2>1, <3>1, LeastNat, Zenon
  <2> HIDE DEF N, W
  <2>3. b # 0 => (N[b - 1] <=> W[b - 1])
    BY <2>2
  <2>4. /\ N[b] <=> (b # 0 /\ ~N[b - 1] /\ is_secret_flag(args[b]))
        /\ W[b] <=> (b # 0 /\ ~W[b - 1] /\ is_secret_flag(args[b]))
    BY <1>1, <1>2, <2>2, Zenon
  <2> QED
    BY <2>2, <2>3, <2>4
<1> QED
  BY <1>3

(* Counting what comes before: the members of a finite set of numbers have the
   ranks 0, 1, ... in their order.                                            *)
LEMMA Ranks ==
  ASSUME NEW K \in SUBSET Nat, IsFiniteSet(K)
  PROVE  /\ Cardinality(K) \in Nat
         /\ \A j \in K : Cardinality({k \in K : k < j}) \in 0..Cardinality(K) - 1
         /\ \A i, j \in K : i < j => Cardinality({k \in K : k < i}) < Cardinality({k \in K : k < j})
         /\ \A r \in 0..Cardinality(K) - 1 : \E j \in K : Cardinality({k \in K : k < j}) = r
<1> DEFINE Below(j) == {k \in K : k < j}
           c == Cardinality(K)
           rank == [j \in K |-> Cardinality(Below(j))]
<1>1. c \in Nat
  BY FS_CardinalityType
<1>2. ASSUME NEW j \in K PROVE IsFiniteSet(Below(j)) /\ Cardinality(Below(j)) \in 0..c - 1
  <2>1. IsFiniteSet(Below(j)) /\ Cardinality(Below(j)) <= Cardinality(K)
        /\ (Cardinality(K) = Cardinality(Below(j)) => K = Below(j))
    BY FS_Subset
  <2>2. Cardinality(Below(j)) \in Nat
    BY <2>1, FS_CardinalityType
  <2>3. j \notin Below(j)
    OBVIOUS
  <2> HIDE DEF Below
  <2> QED
    BY <1>1, <2>1, <2>2, <2>3
<1>3. ASSUME NEW i \in K, NEW j \in K, i < j PROVE Cardinality(Below(i)) < Cardinality(Below(j))
  <2>1. Below(i) \in SUBSET Below(j) /\ i \in Below(j) /\ i \notin Below(i)
    <3>1. i \in Nat /\ j \in Nat /\ \A k \in K : k \in Nat
      OBVIOUS
    <3>2. \A k \in K : k < i => k < j
      BY <1>3, <3>1
    <3>3. ~(i < i)
      BY <3>1
    <3> QED
      BY <1>3, <3>2, <3>3, Zenon
  <2>2. IsFiniteSet(Below(j)) /\ Cardinality(Below(j)) \in Nat /\ Cardinality(Below(i)) \in Nat
    BY <1>1, <1>2
  <2> HIDE DEF Below
  <2>3. /\ Cardinality(Below(i)) <= Cardinality(Below(j))
        /\ Cardinality(Below(j)) = Cardinality(Below(i)) => Below(j) = Below(i)
    BY <2>1, <2>2, FS_Subset
  <2> QED
    BY <2>1, <2>2, <2>3
<1>4. \A r \in 0..c - 1 : \E j \in K : Cardinality(Below(j)) = r
  <2>1. rank \in [K -> 0..c - 1]
    BY <1>2
  <2>2. ASSUME NEW i \in K, NEW j \in K, rank[i] = rank[j] PROVE i = j
    <3>1. rank[i] = Cardinality(Below(i)) /\ rank[j] = Cardinality(Below(j)) /\ i \in Nat /\ j \in Nat
      OBVIOUS
    <3> HIDE DEF rank, Below
    <3>2. Cardinality(Below(i)) \in Nat
      BY <1>1, <1>2
    <3> QED
      <4>1. ~(i < j) /\ ~(j < i)
        <5>1. \A a, b \in K : a < b => Cardinality(Below(a)) < Cardinality(Below(b))
          BY <1>3, Zenon
        <5>2. Cardinality(Below(i)) = Cardinality(Below(j))
          BY <2>2, <3>1, Zenon
        <5>3. ~(Cardinality(Below(i)) < Cardinality(Below(j))) /\ ~(Cardinality(Below(j)) < Cardinality(Below(i)))
          BY <3>2, <5>2
        <5> QED
          BY <5>1, <5>3, Zenon
      <4> QED
        BY <3>1, <4>1
  <2> HIDE DEF rank
  <2>3. rank \in Injection(K, 0..c - 1)
    BY <2>1, <2>2, Zenon DEF Injection, IsInjective
  <2>4. IsFiniteSet(0..c - 1) /\ Cardinality(0..c - 1) = c
    <3> HIDE DEF c
    <3> QED
      BY <1>1, FS_Interval
  <2>5. rank \in Surjection(K, 0..c - 1)
    BY <2>3, <2>4, FS_Injection, Zenon
  <2>6. \A r \in 0..c - 1 : \E j \in K : rank[j] = r
    BY <2>5, Zenon DEF Surjection
  <2> QED
    BY <2>6 DEF rank
<1> QED
  BY <1>1, <1>2, <1>3, <1>4

(* NonEmpty: each entry of a blob that is not empty is in it, at its rank.     *)
LEMMA NonEmptyIs ==
  ASSUME NEW S, NEW blob \in Seq(S)
  PROVE  LET kept == {j \in DOMAIN blob : ~IsEmpty(blob[j])}
             Rank(j) == Cardinality({k \in kept : k < j})
         IN /\ Cardinality(kept) \in Nat
            /\ DOMAIN NonEmpty(blob) = 1..Cardinality(kept)
            /\ NonEmpty(blob) \in Seq(S)
            /\ \A i \in 1..Cardinality(kept) : \E j \in kept : Rank(j) = i - 1 /\ NonEmpty(blob)[i] = blob[j]
            /\ \A j \in kept : Rank(j) + 1 \in 1..Cardinality(kept) /\ NonEmpty(blob)[Rank(j) + 1] = blob[j]
<1> DEFINE kept == {j \in DOMAIN blob : ~IsEmpty(blob[j])}
           Rank(j) == Cardinality({k \in kept : k < j})
           Nth(i) == CHOOSE j \in kept : Rank(j) = i - 1
           c == Cardinality(kept)
           N == NonEmpty(blob)
<1>1. N = [i \in 1..c |-> blob[Nth(i)]]
  BY Zenon DEF NonEmpty
<1>2. kept \in SUBSET Nat /\ IsFiniteSet(kept)
  <2>1. kept \in SUBSET (1..Len(blob)) /\ Len(blob) \in Nat
    OBVIOUS
  <2>2. IsFiniteSet(1..Len(blob))
    BY <2>1, FS_Interval
  <2> HIDE DEF kept
  <2>3. IsFiniteSet(kept)
    BY <2>1, <2>2, FS_Subset, Zenon
  <2> QED
    BY <2>1, <2>3
<1>3. \A j \in kept : blob[j] \in S
  OBVIOUS
<1> HIDE DEF kept, N
<1>4. /\ c \in Nat
      /\ \A j \in kept : Rank(j) \in 0..c - 1
      /\ \A i, j \in kept : i < j => Rank(i) < Rank(j)
      /\ \A r \in 0..c - 1 : \E j \in kept : Rank(j) = r
  BY <1>2, Ranks, Zenon
<1> HIDE DEF Rank, c
<1>5. \A i \in 1..c : Nth(i) \in kept /\ Rank(Nth(i)) = i - 1
  <2>1. SUFFICES ASSUME NEW i \in 1..c PROVE \E j \in kept : Rank(j) = i - 1
    BY Zenon
  <2>2. i - 1 \in 0..c - 1
    BY <1>4
  <2> QED
    BY <1>4, <2>2, Zenon
<1>6. \A j \in kept : Rank(j) + 1 \in 1..c /\ Nth(Rank(j) + 1) = j
  <2>1. SUFFICES ASSUME NEW j \in kept PROVE Rank(j) + 1 \in 1..c /\ Nth(Rank(j) + 1) = j
    BY Zenon
  <2>2. Rank(j) + 1 \in 1..c
    BY <1>4
  <2>3. PICK k \in kept : k = Nth(Rank(j) + 1) /\ Rank(k) = (Rank(j) + 1) - 1
    BY <1>5, <2>2, Zenon
  <2> HIDE DEF Nth
  <2>4. Rank(k) = Rank(j)
    BY <1>4, <2>3
  <2>5. k \in Nat /\ j \in Nat
    BY <1>2
  <2>6. k = j
    BY <1>4, <2>4, <2>5
  <2> QED
    BY <2>2, <2>3, <2>6
<1> HIDE DEF Nth
<1>7. DOMAIN N = 1..c /\ \A i \in 1..c : N[i] = blob[Nth(i)]
  BY <1>1, Zenon
<1>8. N \in Seq(S)
  <2>1. \A i \in 1..c : blob[Nth(i)] \in S
    BY <1>3, <1>5, Zenon
  <2> QED
    BY <1>1, <1>4, <2>1
<1> QED
  BY <1>4, <1>5, <1>6, <1>7, <1>8, Zenon DEF Rank, c, N, kept

(* redact_environ and redact_cmdline, entry by entry.                         *)
RedactedBlob(name, blob) ==
  IF name = "environ" THEN redact_environ(TRUE, blob) ELSE redact_cmdline(TRUE, blob)

(* redact_environ and redact_cmdline: exactly the secrets of each entry go.  *)
LEMMA BlobRedacted ==
  ASSUME NEW name, NEW blob \in Seq(Entries), name \in {"environ", "cmdline"},
         \A j \in DOMAIN blob : ToldApart(blob[j]) /\ Recognised(blob[j])
  PROVE  LET raw == NonEmpty(blob)
             out == RedactedBlob(name, blob)
         IN /\ raw \in Seq(Entries) /\ out \in Seq(Range(out)) /\ Len(out) = Len(raw)
            /\ \A i \in DOMAIN raw : Shown(out[i]) = Shown(raw[i]) \ SecretsAt(name, raw, i)
<1> DEFINE raw == NonEmpty(blob)
           out == RedactedBlob(name, blob)
           kept == {j \in DOMAIN blob : ~IsEmpty(blob[j])}
<1>1. /\ raw \in Seq(Entries)
      /\ DOMAIN raw = 1..Len(raw) /\ Len(raw) \in Nat
      /\ \A i \in DOMAIN raw : raw[i] \in Entries /\ ToldApart(raw[i]) /\ Recognised(raw[i])
  <2>1. /\ raw \in Seq(Entries) /\ DOMAIN raw = 1..Cardinality(kept)
        /\ \A i \in 1..Cardinality(kept) : \E j \in kept : raw[i] = blob[j]
    BY NonEmptyIs, Zenon
  <2>2. \A j \in kept : blob[j] \in Entries /\ ToldApart(blob[j]) /\ Recognised(blob[j])
    OBVIOUS
  <2> HIDE DEF raw, kept
  <2>3. DOMAIN raw = 1..Len(raw) /\ Len(raw) \in Nat
    BY <2>1
  <2>4. \A i \in DOMAIN raw : raw[i] \in Entries /\ ToldApart(raw[i]) /\ Recognised(raw[i])
    BY <2>1, <2>2, Zenon
  <2> QED
    BY <2>1, <2>3, <2>4
<1>2. \A i \in DOMAIN raw : Shown(redact_entry(raw[i])) = Shown(raw[i]) \ SecretPieces(raw[i])
  BY <1>1, EntryRedacted, Zenon
<1>3. CASE name = "environ"
  <2>1. out = [i \in DOMAIN raw |-> redact_entry(raw[i])]
    BY <1>3, Zenon DEF RedactedBlob, redact_environ
  <2>2. \A i \in DOMAIN raw : SecretsAt(name, raw, i) = SecretPieces(raw[i])
    BY <1>3 DEF SecretsAt
  <2> HIDE DEF raw, out
  <2>3. out \in Seq(Range(out)) /\ Len(out) = Len(raw)
    BY <1>1, <2>1 DEF Range
  <2>4. \A i \in DOMAIN raw : Shown(out[i]) = Shown(raw[i]) \ SecretsAt(name, raw, i)
    BY <1>2, <2>1, <2>2, Zenon
  <2> QED
    BY <1>1, <2>3, <2>4 DEF raw, out
<1>4. CASE name = "cmdline"
  <2>1. out = [i \in DOMAIN raw |-> IF redact_next(raw)[i - 1] THEN RedactedArg ELSE redact_entry(raw[i])]
    <3>1. name # "environ"
      BY <1>4
    <3> QED
      BY <3>1, Zenon DEF RedactedBlob, redact_cmdline
  <2>2. \A i \in DOMAIN raw : SecretsAt(name, raw, i) =
                                IF IsFlagValue(raw, i) THEN Pieces(raw[i]) ELSE SecretPieces(raw[i])
    BY <1>4 DEF SecretsAt
  <2> HIDE DEF raw, out
  <2>3. out \in Seq(Range(out)) /\ Len(out) = Len(raw)
    BY <1>1, <2>1 DEF Range
  <2>4. \A i \in DOMAIN raw : redact_next(raw)[i - 1] <=> IsFlagValue(raw, i)
    <3>1. \A i \in 1..Len(raw) : redact_next(raw)[i - 1] <=> IsFlagValue(raw, i)
      BY <1>1, RedactNextIs, Zenon
    <3> QED
      BY <1>1, <3>1, Zenon
  <2>5. Shown(RedactedArg) = {}
    <3>1. RedactedArg.eq = FALSE /\ RedactedArg.key.id = "<redacted>"
      BY DEF RedactedArg
    <3> QED
      BY <3>1, Zenon DEF Shown, Pieces
  <2>6. \A i : Shown(raw[i]) \ Pieces(raw[i]) = {}
    BY Zenon DEF Shown
  <2>7. ASSUME NEW i \in DOMAIN raw
        PROVE  Shown(out[i]) = Shown(raw[i]) \ SecretsAt(name, raw, i)
    <3>1. CASE IsFlagValue(raw, i)
      <4>1. out[i] = RedactedArg /\ SecretsAt(name, raw, i) = Pieces(raw[i])
        BY <2>1, <2>2, <2>4, <3>1, Zenon
      <4> QED
        BY <2>5, <2>6, <4>1, Zenon
    <3>2. CASE ~IsFlagValue(raw, i)
      <4>1. out[i] = redact_entry(raw[i]) /\ SecretsAt(name, raw, i) = SecretPieces(raw[i])
        BY <2>1, <2>2, <2>4, <3>2, Zenon
      <4> QED
        BY <1>2, <4>1, Zenon
    <3> QED
      BY <3>1, <3>2
  <2> QED
    BY <1>1, <2>3, <2>7 DEF raw, out
<1> QED
  BY <1>3, <1>4

(* What a blob and a blob cut in its last entry have in common.               *)
LEMMA NonEmptyAgree ==
  ASSUME NEW S, NEW blob \in Seq(S), NEW cut \in Seq(S), Len(cut) <= Len(blob),
         \A j \in 1..Len(cut) - 1 : cut[j] = blob[j],
         NEW i \in 1..Len(NonEmpty(cut)) - 1
  PROVE  i \in DOMAIN NonEmpty(blob) /\ NonEmpty(cut)[i] = NonEmpty(blob)[i]
<1> DEFINE Kept(b) == {j \in DOMAIN b : ~IsEmpty(b[j])}
           Rank(b, j) == Cardinality({k \in Kept(b) : k < j})
           c == Cardinality(Kept(cut))
<1>1. /\ c \in Nat /\ DOMAIN NonEmpty(cut) = 1..c
      /\ NonEmpty(cut) \in Seq(S)
      /\ \A r \in 1..c : \E j \in Kept(cut) : Rank(cut, j) = r - 1 /\ NonEmpty(cut)[r] = cut[j]
  BY NonEmptyIs, Zenon
<1>2. /\ DOMAIN NonEmpty(blob) = 1..Cardinality(Kept(blob))
      /\ \A j \in Kept(blob) : /\ Rank(blob, j) + 1 \in 1..Cardinality(Kept(blob))
                               /\ NonEmpty(blob)[Rank(blob, j) + 1] = blob[j]
  BY NonEmptyIs, Zenon
<1>3. Kept(cut) \in SUBSET (1..Len(cut)) /\ Len(cut) \in Nat
  OBVIOUS
<1>4. \A j \in 1..Len(cut) - 1 : j \in Kept(cut) <=> j \in Kept(blob)
  OBVIOUS
<1>5. Kept(blob) \in SUBSET (1..Len(blob)) /\ Len(blob) \in Nat
  OBVIOUS
<1> HIDE DEF Kept
<1>6. Len(NonEmpty(cut)) = c
  BY <1>1
<1>7. PICK j \in Kept(cut) : Rank(cut, j) = i - 1 /\ NonEmpty(cut)[i] = cut[j]
  <2>1. i \in 1..c
    BY <1>1, <1>6
  <2> QED
    BY <1>1, <2>1, Zenon
<1>8. j < Len(cut)
  <2>1. SUFFICES ASSUME j = Len(cut) PROVE FALSE
    BY <1>3
  <2>2. {k \in Kept(cut) : k < j} = Kept(cut) \ {j}
    BY <1>3, <2>1
  <2>3. IsFiniteSet(Kept(cut))
    <3>1. IsFiniteSet(1..Len(cut))
      BY <1>3, FS_Interval
    <3> QED
      BY <1>3, <3>1, FS_Subset, Zenon
  <2>4. Rank(cut, j) = c - 1
    BY <2>2, <2>3, FS_RemoveElement, Zenon
  <2> QED
    BY <1>1, <1>6, <1>7, <2>4
<1>9. j \in Kept(blob) /\ cut[j] = blob[j]
  BY <1>3, <1>4, <1>8
<1>10. {k \in Kept(cut) : k < j} = {k \in Kept(blob) : k < j}
  BY <1>3, <1>4, <1>5, <1>8
<1>11. Rank(blob, j) = i - 1
  BY <1>7, <1>10, Zenon
<1>12. Rank(blob, j) + 1 = i
  BY <1>11
<1> HIDE DEF Rank
<1> QED
  BY <1>2, <1>7, <1>9, <1>12, Zenon

(* Whether an argument is the value of a flag depends on those before it only. *)
LEMMA FlagValueAgree ==
  ASSUME NEW A, NEW B, NEW i \in Nat, \A j \in 1..i - 1 : A[j] = B[j]
  PROVE  IsFlagValue(A, i) <=> IsFlagValue(B, i)
<1> DEFINE Runs(s) == {n \in 1..i - 1 : \A j \in i - n..i - 1 : is_secret_flag(s[j])}
<1>1. \A n \in 1..i - 1 : \A j \in i - n..i - 1 : j \in 1..i - 1
  OBVIOUS
<1>2. Runs(A) = Runs(B)
  BY <1>1, Zenon
<1> QED
  BY <1>2, Zenon DEF IsFlagValue

----------------------------------------------------------------------------

(* The units before an entry grow with its position, by the size of the entry.  *)
LEMMA BeforeStep ==
  ASSUME NEW blob \in Seq(Entries), NEW i \in 1..Len(blob)
  PROVE  Before(blob, i + 1) = Before(blob, i) + EntrySize(blob[i])
<1> DEFINE With(k) == {j \in 1..k - 1 : blob[j].eq}
<1>1. IsFiniteSet(With(i)) /\ Cardinality(With(i)) \in Nat
  <2>1. IsFiniteSet(1..i - 1) /\ With(i) \in SUBSET (1..i - 1)
    BY FS_Interval
  <2> HIDE DEF With
  <2> QED
    BY <2>1, FS_Subset, FS_CardinalityType
<1>2. With(i + 1) = IF blob[i].eq THEN With(i) \cup {i} ELSE With(i)
  <2>1. \A j : j \in 1..(i + 1) - 1 <=> j \in 1..i - 1 \/ j = i
    OBVIOUS
  <2> QED
    BY <2>1, Zenon
<1>3. i \notin With(i)
  OBVIOUS
<1> HIDE DEF With
<1>4. Cardinality(With(i + 1)) = Cardinality(With(i)) + (IF blob[i].eq THEN 1 ELSE 0)
  <2>1. CASE blob[i].eq
    BY <1>1, <1>2, <1>3, <2>1, FS_AddElement
  <2>2. CASE ~blob[i].eq
    BY <1>1, <1>2, <2>2
  <2> QED
    BY <2>1, <2>2
<1>5. Before(blob, i) = i - 1 + 2 * Cardinality(With(i))
  BY Zenon DEF Before, With
<1>6. Before(blob, i + 1) = (i + 1) - 1 + 2 * Cardinality(With(i + 1))
  BY Zenon DEF Before, With
<1>7. PICK a \in Nat, b \in Nat : a = Cardinality(With(i)) /\ b = Cardinality(With(i + 1))
                                  /\ b = a + (IF blob[i].eq THEN 1 ELSE 0)
  BY <1>1, <1>4
<1>8. Before(blob, i) = i - 1 + 2 * a /\ Before(blob, i + 1) = (i + 1) - 1 + 2 * b /\ i \in Nat
  BY <1>5, <1>6, <1>7
<1>9. CASE blob[i].eq
  BY <1>7, <1>8, <1>9 DEF EntrySize
<1>10. CASE ~blob[i].eq
  BY <1>7, <1>8, <1>10 DEF EntrySize
<1> QED
  BY <1>9, <1>10

(* The units before an entry are a number that grows with its position.      *)
LEMMA BeforeGrows ==
  ASSUME NEW blob \in Seq(Entries), NEW i \in 1..Len(blob) + 1, NEW k \in 1..Len(blob) + 1
  PROVE  /\ Before(blob, i) \in Nat
         /\ i < k => Before(blob, i) < Before(blob, k)
<1> DEFINE With(l) == {j \in 1..l - 1 : blob[j].eq}
<1>0. Len(blob) \in Nat /\ i \in Nat /\ k \in Nat /\ i >= 1 /\ k >= 1
  OBVIOUS
<1>1. ASSUME NEW l \in 1..Len(blob) + 1 PROVE IsFiniteSet(With(l)) /\ Cardinality(With(l)) \in Nat
  <2>0. l - 1 \in Int
    BY <1>0
  <2>1. IsFiniteSet(1..l - 1) /\ With(l) \in SUBSET (1..l - 1)
    <3>1. IsFiniteSet(1..l - 1)
      BY <2>0, FS_Interval
    <3> QED
      BY <3>1, Zenon
  <2> HIDE DEF With
  <2> QED
    BY <2>1, FS_Subset, FS_CardinalityType
<1>2. i < k => With(i) \in SUBSET With(k)
  OBVIOUS
<1>3. ASSUME NEW l PROVE Before(blob, l) = l - 1 + 2 * Cardinality(With(l))
  BY Zenon DEF Before
<1> HIDE DEF With
<1>4. i < k => Cardinality(With(i)) <= Cardinality(With(k))
  BY <1>1, <1>2, FS_Subset
<1>5. PICK a \in Nat, b \in Nat : a = Cardinality(With(i)) /\ b = Cardinality(With(k))
  BY <1>1
<1>6. Before(blob, i) = i - 1 + 2 * a /\ Before(blob, k) = k - 1 + 2 * b
  BY <1>3, <1>5, Zenon
<1>7. i < k => a <= b
  BY <1>4, <1>5
<1> QED
  BY <1>0, <1>6, <1>7

(* A set of positions that holds every position before one of its members.     *)
LEMMA InitialSegment ==
  ASSUME NEW n \in Nat, NEW D \in SUBSET (1..n),
         \A i \in 1..n, j \in D : i < j => i \in D
  PROVE  Cardinality(D) \in 0..n /\ D = 1..Cardinality(D)
<1>1. CASE D = {}
  <2>1. Cardinality(D) = 0
    BY <1>1, FS_EmptySet
  <2> QED
    BY <1>1, <2>1
<1>2. CASE D # {}
  <2> DEFINE Left == {n - d : d \in D}
  <2>1. Left \subseteq Nat /\ Left # {}
    BY <1>2
  <2>2. PICK l \in Left : \A x \in Left : l <= x
    BY <2>1, LeastNat, Zenon
  <2>3. PICK d \in D : l = n - d
    OBVIOUS
  <2>4. ASSUME NEW e \in D PROVE e <= d
    <3>1. l <= n - e
      BY <2>2
    <3> QED
      BY <2>3, <3>1
  <2>5. D = 1..d
    <3>1. \A i \in 1..d : i \in 1..n /\ (i = d \/ i < d)
      BY <2>3
    <3>2. \A i \in 1..d : i \in D
      BY <2>3, <3>1, Zenon
    <3>3. \A i \in D : i \in 1..d
      BY <2>3, <2>4
    <3> QED
      BY <3>2, <3>3, Zenon
  <2>6. Cardinality(D) = d
    BY <2>3, <2>5, FS_Interval
  <2> QED
    BY <2>5, <2>6
<1> QED
  BY <1>1, <1>2

(* CutEntry: what is left of an entry is an entry, without userinfo and query
   and, unless it is a URL, without a shape.                                  *)
LEMMA CutStays ==
  ASSUME NEW e \in Entries, ToldApart(e), NEW n \in 1..2
  PROVE  /\ CutEntry(e, n) \in Entries
         /\ ToldApart(CutEntry(e, n))
         /\ Recognised(e) /\ e.eq => Recognised(CutEntry(e, n))
<1> DEFINE v == e.value
           x == CutEntry(e, n)
           Real(id) == id \notin {"", "<redacted>"}
           Left(t) == Text(t, <<2>>, FALSE, 10)
<1>1. /\ e.key \in Keys /\ v \in Values /\ v.text \in Texts /\ v.text.id \in STRING
      /\ v.info \in Seq(Texts) /\ v.url \in BOOLEAN /\ e.utf8 \in BOOLEAN /\ e.ascii \in BOOLEAN
      /\ \A t \in Texts : t.id \in STRING
  BY DEF Entries, Values, Texts
<1>2. ASSUME NEW id \in STRING
      PROVE  Left(id) \in Texts /\ ~looks_secret_value(Left(id)) /\ ~Left(id).shaped /\ Left(id).id = id
  <2>1. Left(id) \in Texts /\ Left(id).id = id /\ ~Left(id).pem /\ ~Left(id).clean /\ ~Left(id).shaped
    BY DEF Text, Texts
  <2> HIDE DEF Left
  <2> QED
    BY <2>1 DEF looks_secret_value, is_jwt, is_token_shaped
<1>4. ASSUME NEW t \in Texts
      PROVE  /\ Plain(t) \in Values /\ Plain(t).text = t /\ ~Plain(t).url
             /\ Plain(t).info = <<>> /\ Plain(t).query = <<>>
  BY DEF Plain, Values
<1>5. ASSUME NEW y \in Entries, y.value.info = <<>>, y.value.query = <<>>,
             Real(y.key.id) => y.key.id # y.value.text.id
      PROVE  ToldApart(y)
  <2> DEFINE places == ({"key", "text"} \X {1}) \cup ({"info"} \X DOMAIN y.value.info)
                        \cup ({"name", "value"} \X DOMAIN y.value.query)
  <2>1. places = {<<"key", 1>>, <<"text", 1>>}
    <3>1. DOMAIN y.value.info = {} /\ DOMAIN y.value.query = {}
      <4>1. DOMAIN <<>> = {}
        OBVIOUS
      <4> QED
        BY <1>5, <4>1, Zenon
    <3>2. {"key", "text"} \X {1} = {<<"key", 1>>, <<"text", 1>>}
      OBVIOUS
    <3>3. \A A : A \X {} = {}
      OBVIOUS
    <3> QED
      BY <3>1, <3>2, <3>3
  <2>2. PieceAt(y, <<"key", 1>>) = y.key.id /\ PieceAt(y, <<"text", 1>>) = y.value.text.id
    BY DEF PieceAt
  <2> HIDE DEF places
  <2>3. \A p, q \in places : PieceAt(y, p) = PieceAt(y, q) => p = q \/ PieceAt(y, p) \in {"", "<redacted>"}
    BY <1>5, <2>1, <2>2, Zenon
  <2> QED
    BY <2>3, Zenon DEF ToldApart, places
<1>6. Real(e.key.id) => e.key.id # v.text.id /\ \A i \in DOMAIN v.info : e.key.id # v.info[i].id
  BY Apart, Zenon
<1>7. CASE n = 1
  <2>1. x = [e EXCEPT !.eq = FALSE]
    BY <1>7 DEF CutEntry
  <2>2. x \in Entries /\ x.value = v /\ x.key = e.key /\ x.eq = FALSE
    BY <2>1, Zenon DEF Entries
  <2> HIDE DEF x
  <2>3. \A p : PieceAt(x, p) = PieceAt(e, p)
    BY <2>2, Zenon DEF PieceAt
  <2>4. ToldApart(x)
    <3> DEFINE Places(y) == ({"key", "text"} \X {1}) \cup ({"info"} \X DOMAIN y.value.info)
                            \cup ({"name", "value"} \X DOMAIN y.value.query)
    <3>1. \A p, q \in Places(e) : PieceAt(e, p) = PieceAt(e, q) => p = q \/ PieceAt(e, p) \in {"", "<redacted>"}
      BY Zenon DEF ToldApart
    <3>2. Places(x) = Places(e)
      BY <2>2, Zenon
    <3> HIDE DEF Places
    <3>3. \A p, q \in Places(x) : PieceAt(x, p) = PieceAt(x, q) => p = q \/ PieceAt(x, p) \in {"", "<redacted>"}
      BY <2>3, <3>1, <3>2, Zenon
    <3> QED
      BY <3>3, Zenon DEF ToldApart, Places
  <2>5. Recognised(x)
    BY <2>2, Zenon DEF Recognised
  <2> QED
    BY <2>2, <2>4, <2>5 DEF x
<1>8. CASE n = 2
  <2>1. x = [e EXCEPT !.utf8 = @ /\ e.ascii, !.value = CutValue(@)]
    BY <1>8 DEF CutEntry
  <2>2. CASE v.url /\ v.info = <<>>
    <3>1. CutValue(v) = [v EXCEPT !.query = <<>>]
      BY <2>2 DEF CutValue
    <3>2. /\ CutValue(v) \in Values /\ CutValue(v).text = v.text /\ CutValue(v).url
          /\ CutValue(v).info = <<>> /\ CutValue(v).query = <<>>
      <4> DEFINE V == [url : BOOLEAN, text : Texts, info : Seq(Texts), query : Seq(Params)]
      <4>1. v \in V /\ <<>> \in Seq(Params)
        BY <1>1 DEF Values
      <4>2. /\ CutValue(v) \in V /\ CutValue(v).text = v.text /\ CutValue(v).url = v.url
            /\ CutValue(v).info = v.info /\ CutValue(v).query = <<>>
        BY <3>1, <4>1, Zenon
      <4>3. Len(CutValue(v).info) <= 2
        BY <2>2, <4>2
      <4> HIDE DEF V
      <4> QED
        BY <2>2, <4>2, <4>3, Zenon DEF Values, V
    <3>3. x \in Entries /\ x.value = CutValue(v) /\ x.key = e.key /\ x.eq = e.eq
      BY <1>1, <2>1, <3>2, Zenon DEF Entries
    <3> HIDE DEF x
    <3>4. ToldApart(x)
      BY <1>5, <1>6, <3>2, <3>3, Zenon
    <3>5. Recognised(e) /\ e.eq => Recognised(x)
      BY <2>2, <3>2, <3>3 DEF Recognised
    <3> QED
      BY <3>3, <3>4, <3>5 DEF x
  <2>3. CASE ~(v.url /\ v.info = <<>>)
    <3>1. PICK id \in STRING : /\ CutValue(v) = Plain(Left(id))
                               /\ Real(e.key.id) => e.key.id # id
      <4>1. CASE v.url
        <5>1. Len(v.info) \in DOMAIN v.info /\ v.info[Len(v.info)] \in Texts
          BY <1>1, <2>3, <4>1
        <5>2. CutValue(v) = Plain(Left(v.info[Len(v.info)].id))
          BY <2>3, <4>1, Zenon DEF CutValue
        <5> QED
          BY <1>1, <1>6, <5>1, <5>2, Zenon
      <4>2. CASE ~v.url
        <5>1. CutValue(v) = Plain(Left(v.text.id))
          BY <2>3, <4>2, Zenon DEF CutValue
        <5> QED
          BY <1>1, <1>6, <5>1, Zenon
      <4> QED
        BY <4>1, <4>2, Zenon
    <3> DEFINE t == Left(id)
    <3>2. t \in Texts /\ ~looks_secret_value(t) /\ ~t.shaped /\ t.id = id
      BY <1>2, Zenon
    <3> HIDE DEF t
    <3>3. /\ CutValue(v) \in Values /\ CutValue(v).text = t /\ ~CutValue(v).url
          /\ CutValue(v).info = <<>> /\ CutValue(v).query = <<>>
      BY <1>4, <3>1, <3>2, Zenon DEF t
    <3>4. x \in Entries /\ x.value = CutValue(v) /\ x.key = e.key /\ x.eq = e.eq
      BY <1>1, <2>1, <3>3, Zenon DEF Entries
    <3> HIDE DEF x
    <3>5. ToldApart(x)
      BY <1>5, <3>1, <3>2, <3>3, <3>4, Zenon
    <3>6. Recognised(x)
      BY <3>2, <3>3, <3>4 DEF Recognised
    <3> QED
      BY <3>4, <3>5, <3>6 DEF x
  <2> QED
    BY <2>2, <2>3
<1> QED
  BY <1>7, <1>8

(* Prefix: the entries of the first n units of a blob, of which only the last
   may be cut.                                                                *)
LEMMA PrefixIs ==
  ASSUME NEW blob \in Seq(Entries), NEW n \in Nat, \A j \in DOMAIN blob : ToldApart(blob[j])
  PROVE  LET cut == Prefix(blob, n)
         IN /\ cut \in Seq(Entries) /\ Len(cut) <= Len(blob)
            /\ \A j \in 1..Len(cut) - 1 : cut[j] = blob[j]
            /\ \A j \in DOMAIN cut : ToldApart(cut[j]) /\ (Recognised(blob[j]) => Recognised(cut[j]))
            /\ n >= BlobSize(blob) => cut = blob
<1> DEFINE At(j) == Before(blob, j)
           Size(j) == EntrySize(blob[j])
           D == {j \in DOMAIN blob : At(j) < n}
           m == Cardinality(D)
           cut == Prefix(blob, n)
           L == Len(blob)
<1>1. L \in Nat /\ DOMAIN blob = 1..L /\ \A j \in 1..L : blob[j] \in Entries
  OBVIOUS
<1>2. cut = [i \in 1..m |-> IF At(i) + Size(i) <= n THEN blob[i] ELSE CutEntry(blob[i], n - At(i))]
  BY Zenon DEF Prefix
<1>3. \A i, j \in 1..L + 1 : At(i) \in Nat /\ (i < j => At(i) < At(j))
  BY BeforeGrows, Zenon
<1>4. \A i \in 1..L : At(i + 1) = At(i) + Size(i)
  BY BeforeStep, Zenon
<1>5. \A i \in 1..L : /\ blob[i].eq => Size(i) = 3
                      /\ ~blob[i].eq => Size(i) = 1
  BY Zenon DEF EntrySize
<1>6. BlobSize(blob) = At(L + 1)
  BY Zenon DEF BlobSize
<1> HIDE DEF At, Size, cut
<1>7. m \in 0..L /\ D = 1..m
  <2>1. D \in SUBSET (1..L)
    BY <1>1
  <2>2. ASSUME NEW i \in 1..L, NEW j \in D, i < j PROVE i \in D
    <3>1. i \in 1..L + 1 /\ j \in 1..L + 1 /\ At(j) < n
      BY <1>1
    <3>2. At(i) < At(j) /\ At(i) \in Nat /\ At(j) \in Nat
      BY <1>3, <2>2, <3>1
    <3> QED
      BY <1>1, <3>1, <3>2
  <2> HIDE DEF D, L
  <2> QED
    BY <1>1, <2>1, <2>2, InitialSegment, Zenon
<1>8. \A i \in 1..m : i \in 1..L /\ i \in 1..L + 1 /\ i + 1 \in 1..L + 1 /\ At(i) < n
  BY <1>1, <1>7
<1> HIDE DEF D, m, L
<1>9. \A i \in 1..m : i < m => cut[i] = blob[i]
  <2>1. SUFFICES ASSUME NEW i \in 1..m, i < m PROVE At(i) + Size(i) <= n
    BY <1>2
  <2>2. i + 1 = m \/ i + 1 < m
    BY <1>7, <2>1
  <2>3. m \in 1..m
    BY <1>7, <2>1
  <2>4. i + 1 \in 1..L + 1 /\ m \in 1..L + 1 /\ i \in 1..L
    BY <1>8, <2>3
  <2>5. At(i + 1) <= At(m)
    BY <1>3, <2>2, <2>4
  <2>6. At(m) < n /\ At(m) \in Nat /\ At(i + 1) \in Nat
    BY <1>3, <1>8, <2>3, <2>4
  <2> QED
    BY <1>4, <2>4, <2>5, <2>6
<1>10. ASSUME NEW i \in 1..m
       PROVE  cut[i] \in Entries /\ ToldApart(cut[i]) /\ (Recognised(blob[i]) => Recognised(cut[i]))
  <2>1. i \in 1..L /\ blob[i] \in Entries /\ ToldApart(blob[i]) /\ At(i) < n /\ At(i) \in Nat
    BY <1>1, <1>3, <1>8
  <2>2. CASE At(i) + Size(i) <= n
    BY <1>2, <2>1, <2>2
  <2>3. CASE ~(At(i) + Size(i) <= n)
    <3>1. cut[i] = CutEntry(blob[i], n - At(i))
      BY <1>2, <2>3
    <3>2. blob[i].eq
      BY <1>5, <2>1, <2>3
    <3>3. n - At(i) \in 1..2
      BY <1>5, <2>1, <2>3, <3>2
    <3> QED
      BY <2>1, <3>1, <3>2, <3>3, CutStays, Zenon
  <2> QED
    BY <2>2, <2>3
<1>11. cut \in Seq(Entries) /\ Len(cut) = m /\ DOMAIN cut = 1..m
  BY <1>2, <1>7, <1>10
<1>12. ASSUME n >= BlobSize(blob) PROVE cut = blob
  <2>1. ASSUME NEW i \in 1..L PROVE At(i) + Size(i) <= n /\ i \in D
    <3>1. i + 1 = L + 1 \/ i + 1 < L + 1
      BY <1>1
    <3>2. i + 1 \in 1..L + 1 /\ L + 1 \in 1..L + 1 /\ i \in 1..L + 1 /\ i < i + 1
      BY <1>1
    <3>3. At(i + 1) <= At(L + 1) /\ At(i) < At(i + 1) /\ At(i) \in Nat /\ At(i + 1) \in Nat /\ At(L + 1) \in Nat
      BY <1>3, <3>1, <3>2
    <3>4. At(i + 1) <= n
      BY <1>6, <1>12, <3>3
    <3>5. At(i) < n
      BY <3>3, <3>4
    <3>6. i \in D
      BY <1>1, <3>5, Zenon DEF D
    <3> QED
      BY <1>4, <3>4, <3>6
  <2>2. m = L
    <3>1. L # 0 => L \in 1..m
      BY <1>1, <1>7, <2>1
    <3> QED
      BY <1>1, <1>7, <3>1
  <2>3. \A i \in 1..L : cut[i] = blob[i]
    BY <1>2, <2>1, <2>2
  <2> QED
    BY <1>1, <1>11, <2>2, <2>3
<1>13. Len(cut) <= L
  BY <1>1, <1>7, <1>11
<1>14. \A j \in 1..Len(cut) - 1 : cut[j] = blob[j]
  BY <1>7, <1>9, <1>11
<1> QED
  BY <1>10, <1>11, <1>12, <1>13, <1>14 DEF cut, L

=============================================================================
