------------------------------ MODULE BuildId ------------------------------
(***************************************************************************)
(* The GNU build-id reader (src/src/buildid.rs) over the prefix of an ELF  *)
(* image: program header by program header and, inside a PT_NOTE segment,  *)
(* note by note. Offsets and lengths are bytes. usize has 64 bits on both  *)
(* targets of the release (flake.nix); its range is Usize here, and what   *)
(* the code adds unchecked wraps around.                                   *)
(*                                                                         *)
(* An image is what the reader can decode from it: the fields of the ELF   *)
(* header, the program header at an offset and the note header at an       *)
(* offset of the image; where an image has none, the bytes are zero.       *)
(***************************************************************************)
EXTENDS Integers, Sequences, FiniteSetsExt

CONSTANTS Images,     \* the executables of crashing processes, as decoded
          MaxPrefix,  \* MAX_ELF_PREFIX
          MaxWord,    \* the largest u32
          UsizeMod    \* 2^64

\* What 64 bits give: no sum of a file offset and two u32 comes near the top.
ASSUME WidthAssumption ==
  /\ {MaxPrefix, MaxWord, UsizeMod} \subseteq Nat
  /\ MaxPrefix >= 64
  /\ MaxPrefix + 2 * MaxWord + 64 < UsizeMod

Word  == 0..MaxWord
Usize == 0..(UsizeMod - 1)

IsImage(e) ==
  /\ {e.magic, e.is64} \subseteq BOOLEAN
  /\ e.len \in 0..MaxPrefix
  /\ e.phoff \in Usize /\ e.phentsize \in Nat /\ e.phnum \in Nat
  /\ \A o \in DOMAIN e.phdrs : e.phdrs[o] \in [type : Word, off : Usize, size : Usize]
  /\ \A o \in DOMAIN e.notes :
       e.notes[o] \in [namesz : Word, descsz : Word, type : Word, gnu : BOOLEAN]

ASSUME ImageAssumption == \A e \in Images : IsImage(e)

VARIABLES elf,      \* the image that is read
          stage,    \* "header", "phdr", "note" or "done"
          ph,       \* index of the program header
          notes,    \* the PT_NOTE slice: its offset and length
          pos,      \* position in the slice
          rounds,   \* history: notes read in this slice
          build_id  \* offset and length of the description found, or NoId

scanVars == <<stage, ph, notes, pos, rounds, build_id>>

NT_GNU_BUILD_ID == 3
PT_NOTE == 4
NoSlice == [off |-> 0, len |-> 0]
NoId == [off |-> 0, len |-> -1]

\* The image as it is read: at most MaxPrefix bytes of the file.
PhdrAt(o) == IF o \in DOMAIN elf.phdrs THEN elf.phdrs[o] ELSE [type |-> 0, off |-> 0, size |-> 0]
NoteAt(o) == IF o \in DOMAIN elf.notes THEN elf.notes[o]
             ELSE [namesz |-> 0, descsz |-> 0, type |-> 0, gnu |-> FALSE]

\* The unchecked sum, which wraps around, and the test of the checked one.
Add(a, b) == IF a + b < UsizeMod THEN a + b ELSE a + b - UsizeMod
Overflows(a, b) == a + b >= UsizeMod
Align4(n) == LET m == Add(n, 3) IN m - (m % 4)

\* slice.get(lo..hi), hi = lo + n.
Readable(lo, n, len) == lo <= Add(lo, n) /\ Add(lo, n) <= len

ScanStart ==
  /\ stage = "header" /\ ph = 0 /\ notes = NoSlice /\ pos = 0 /\ rounds = 0
  /\ build_id = NoId

GiveUp == stage' = "done" /\ UNCHANGED <<ph, notes, pos, rounds, build_id>>

NextHeader == stage' = "phdr" /\ ph' = ph + 1 /\ UNCHANGED <<notes, pos, rounds, build_id>>

----------------------------------------------------------------------------
\* The length, magic, class and byte order of the ELF header.
ReadHeader ==
  /\ stage = "header"
  /\ IF elf.len < 64 \/ ~elf.magic THEN GiveUp
     ELSE stage' = "phdr" /\ UNCHANGED <<ph, notes, pos, rounds, build_id>>

\* One turn of the loop of build_id_from_bytes. A header or a slice beyond the
\* bytes at hand ends it; later headers are not tried.
ReadPhdr ==
  /\ stage = "phdr"
  /\ LET off  == elf.phoff + ph * elf.phentsize
         hdr  == PhdrAt(off)
         last == IF elf.is64 THEN 40 ELSE 20    \* end of p_filesz
     IN IF ph >= elf.phnum \/ off >= UsizeMod \/ ~Readable(off, 4, elf.len) THEN GiveUp
        ELSE IF hdr.type # PT_NOTE THEN NextHeader
        ELSE IF \/ ~Readable(off, last, elf.len)
                \/ Overflows(hdr.off, hdr.size)
                \/ ~Readable(hdr.off, hdr.size, elf.len)
             THEN GiveUp
        ELSE /\ notes' = [off |-> hdr.off, len |-> hdr.size]
             /\ stage' = "note" /\ pos' = 0 /\ rounds' = 0
             /\ UNCHANGED <<ph, build_id>>

----------------------------------------------------------------------------
NoteHere   == NoteAt(notes.off + pos)
name_start == Add(pos, 12)
desc_start == Add(name_start, Align4(NoteHere.namesz))
desc_end   == Add(desc_start, NoteHere.descsz)

\* Plausible bug: the note header is not counted in the step to the next note.
NextPosNoHeader == Add(Add(pos, Align4(NoteHere.namesz)), Align4(NoteHere.descsz))

NextPos == Add(desc_start, Align4(NoteHere.descsz))

\* Plausible bug: any GNU note will do, whatever its type.
IsBuildIdAnyType == NoteHere.gnu

IsBuildId == NoteHere.type = NT_GNU_BUILD_ID /\ NoteHere.gnu

Found == stage' = "done" /\ UNCHANGED <<ph, notes, pos>>

\* One turn of the loop of scan_notes: its end, a sum that overflows, a note that
\* leaves the slice, the build-id, or the next note.
ReadNote ==
  /\ stage = "note"
  /\ IF \/ Add(pos, 12) > notes.len
        \/ Overflows(name_start, NoteHere.namesz) \/ Overflows(desc_start, NoteHere.descsz)
        \/ desc_end > notes.len
     THEN NextHeader
     ELSE /\ rounds' = rounds + 1
          /\ IF IsBuildId
             THEN /\ build_id' = [off |-> notes.off + desc_start, len |-> desc_end - desc_start]
                  /\ Found
             ELSE pos' = NextPos /\ UNCHANGED <<stage, ph, notes, build_id>>

ScanStep == (ReadHeader \/ ReadPhdr \/ ReadNote) /\ UNCHANGED elf

ScanInit == elf \in Images /\ ScanStart

ScanSpec == ScanInit /\ [][ScanStep]_<<elf, scanVars>>

----------------------------------------------------------------------------
Slices == [off : Nat, len : Nat]

ScanTypeOK ==
  /\ IsImage(elf)
  /\ stage \in {"header", "phdr", "note", "done"}
  /\ {ph, pos, rounds} \subseteq Nat
  /\ notes \in Slices
  /\ build_id \in Slices \cup {NoId}
  /\ stage # "done" => build_id = NoId

(* buildid.rs, "small, bounds-checked", "fails soft": whatever the image holds, the
   slice lies inside the bytes read; the position never passes its end by more
   than the padding, so that no sum wraps; each note moves it by a header at least,
   so that the scan ends; and the bytes taken for the build-id are in the slice.  *)
ScanBounded ==
  /\ notes.off + notes.len <= elf.len
  /\ pos <= notes.len + 3
  /\ 12 * rounds <= pos + 12 /\ (stage = "note" => 12 * rounds <= pos)
  /\ build_id # NoId =>
       /\ notes.off <= build_id.off /\ 0 <= build_id.len
       /\ build_id.off + build_id.len <= notes.off + notes.len
----------------------------------------------------------------------------
\* The executable as a linker wrote it: elf.linked has, for each program header,
\* the offsets of its notes, none for a header of another type. Notes follow
\* each other, name and description padded to four bytes, the last perhaps not.
Padded(n) == 4 * ((n + 3) \div 4)
DescAt(o) == o + 12 + Padded(NoteAt(o).namesz)
Phdr(s)   == PhdrAt(elf.phoff + (s - 1) * elf.phentsize)

LaidOut(hdr, list) ==
  /\ list \in Seq(Nat) /\ list[1] = hdr.off
  /\ \A k \in 1..Len(list) - 1 : list[k + 1] = DescAt(list[k]) + Padded(NoteAt(list[k]).descsz)
  /\ LET last == list[Len(list)]
     IN hdr.off + hdr.size \in DescAt(last) + NoteAt(last).descsz..DescAt(last) + Padded(NoteAt(last).descsz)

WellLinked ==
  /\ elf.magic /\ elf.len >= 64
  /\ DOMAIN elf.linked = 1..elf.phnum
  /\ \A s \in 1..elf.phnum :
       IF elf.linked[s] = <<>> THEN Phdr(s).type # PT_NOTE
       ELSE Phdr(s).type = PT_NOTE /\ LaidOut(Phdr(s), elf.linked[s])

\* Header s and its notes lie in the bytes read.
Known(s) ==
  LET end == IF elf.linked[s] = <<>> THEN 4 ELSE IF elf.is64 THEN 40 ELSE 20
  IN /\ elf.phoff + (s - 1) * elf.phentsize + end <= elf.len
     /\ elf.linked[s] # <<>> => Phdr(s).off + Phdr(s).size <= elf.len

Hits(s) == {k \in 1..Len(elf.linked[s]) :
              NoteAt(elf.linked[s][k]).type = NT_GNU_BUILD_ID /\ NoteAt(elf.linked[s][k]).gnu}

BuildIdOf ==
  LET segs == {s \in 1..elf.phnum : Hits(s) # {}}
      s    == Min(segs)
      note == elf.linked[s][Min(Hits(s))]
  IN IF segs = {} \/ \E r \in 1..s : ~Known(r) THEN NoId
     ELSE [off |-> DescAt(note), len |-> NoteAt(note).descsz]

(* buildid.rs: the build-id of a well-formed executable is its first GNU build-id
   note, provided that program headers and note segments up to it lie in the
   prefix that is read; otherwise it is None.                                  *)
BuildIdRight == stage = "done" /\ WellLinked => build_id = BuildIdOf
=============================================================================
