--------------------------- MODULE NativeArchive ---------------------------
(***************************************************************************)
(* verify_native_archive.py: an ar archive is read member by member, each  *)
(* must be an object for the target, and the object just compiled must be  *)
(* one of them, if one is given.                                           *)
(*                                                                         *)
(* An archive is a sequence of cells: the magic, then of each member the   *)
(* two halves of its header (name, size), its bytes, and a padding byte if *)
(* their number is odd. The first byte of an object stands for its ELF     *)
(* identity. ar is external: it writes one member after the other, GNU     *)
(* with the long names in a table at the beginning, BSD with a long name   *)
(* before the member's bytes. The file may be cut short anywhere.          *)
(***************************************************************************)
EXTENDS Integers, Sequences, SequencesExt

CONSTANTS
  Short, Long,  \* names that fit into a header, and others
  Byte,         \* what objects consist of
  Objects,      \* contents of members
  machine,      \* the identity of an object for the target
  MaxMembers    \* bound: members of an archive

\* No --object is given.
NoObject == <<"no object">>

\* No object is named like a symbol table, and a name ends before a NUL, a
\* slash or a line break.
ASSUME ArchiveAssumption ==
  /\ Objects \subseteq Seq(Byte) \ {NoObject}
  /\ Short \cap Long = {}
  /\ MaxMembers \in Nat
  /\ (Short \cup Long) \cap {"__.SYMDEF", "zero", "/", "\n"} = {}

VARIABLES
  packed,   \* the members ar put into the archive: [name, object]
  flavor,   \* of ar
  table,    \* the long names GNU ar lists at the beginning
  data,     \* the bytes of the archive
  ends,     \* history: how long the file was before each member and now
  object,   \* the object just compiled, or NoObject
  offset,   \* how far the archive is read
  names,    \* the table of long names read
  found,    \* the members read
  verdict   \* of the verification

archive == <<packed, flavor, table, data, ends, object>>

reading == <<object, offset, names, found>>

archiveVars == <<archive, offset, names, found, verdict>>

Member == [name : Short \cup Long, object : Objects]

ArchiveTypeOK ==
  /\ packed \in Seq(Member)
  /\ flavor \in {"gnu", "bsd"}
  /\ table \in Seq(Long)
  /\ ends \in Seq(Nat) /\ Len(ends) = Len(packed) + 1
  /\ object \in Objects \cup {NoObject}
  /\ offset \in 0..Len(data)
  /\ names \in Seq(Long \cup {"/", "\n"})
  /\ found \in Seq(Member)
  /\ verdict \in {"packing", "reading", "refused", "passed"}

-----------------------------------------------------------------------------
\* What ar writes.

Pad(bytes) == IF Len(bytes) % 2 = 1 THEN <<"pad">> ELSE <<>>

Block(header, bytes) == <<header, Len(bytes)>> \o bytes \o Pad(bytes)

\* The table of long names: of each the name, a slash and a line break.
Lines(longs) ==
  [i \in 1..(3 * Len(longs)) |->
     IF i % 3 = 1 THEN longs[(i + 2) \div 3] ELSE IF i % 3 = 2 THEN "/" ELSE "\n"]

\* Everything before the members.
Preamble(style, longs) ==
  IF style = "gnu"
    THEN <<"magic">> \o Block(<<"symbols", 0>>, <<"index">>) \o Block(<<"table", 0>>, Lines(longs))
    ELSE <<"magic">> \o Block(<<"bsd", 2>>, <<"__.SYMDEF", "zero", "index">>)

\* A member's header says what its name is, or where in the table it begins,
\* or how long it is, its padding included.
WriteMember(m) ==
  /\ verdict = "packing"
  /\ Len(packed) < MaxMembers
  /\ \/ m.name \in Short /\ data' = data \o Block(<<"plain", m.name>>, m.object)
     \/ /\ flavor = "gnu"
        /\ \E k \in DOMAIN table :
             table[k] = m.name /\ data' = data \o Block(<<"gnu", 3 * (k - 1)>>, m.object)
     \/ /\ flavor = "bsd" /\ m.name \in Long
        /\ data' = data \o Block(<<"bsd", 2>>, <<m.name, "zero">> \o m.object)
  /\ packed' = Append(packed, m)
  /\ ends' = Append(ends, Len(data'))
  /\ UNCHANGED <<flavor, table, reading, verdict>>

\* The file is handed over, whole or cut short.
HandOver ==
  /\ verdict = "packing"
  /\ verdict' = "reading"
  /\ \E cut \in 1..Len(data) : data' = SubSeq(data, 1, cut)
  /\ UNCHANGED <<packed, flavor, table, ends, reading>>

-----------------------------------------------------------------------------
\* One turn of the loop of archive_members().

Kind == data[offset + 1][1]

Value == data[offset + 1][2]

Size == data[offset + 2]

Payload == SubSeq(data, offset + 3, offset + 2 + Size)

HeaderWhole == offset + 2 <= Len(data)

Following == offset + 2 + Size + (Size % 2)

\* Mutant: the padding byte may be missing.
PadUnchecked == offset + 2 + Size > Len(data)

Truncated == offset + 2 + Size > Len(data) \/ Following > Len(data)

\* str.rstrip()
RightStrip(cells, c) ==
  SubSeq(cells, 1, CHOOSE n \in 0..Len(cells) :
                     /\ n > 0 => cells[n] # c
                     /\ \A i \in (n + 1)..Len(cells) : cells[i] = c)

\* str.split("\n", 1)[0]
FirstLine(cells) ==
  SubSeq(cells, 1, CHOOSE n \in 0..Len(cells) :
                     /\ n < Len(cells) => cells[n + 1] = "\n"
                     /\ \A i \in 1..n : cells[i] # "\n")

\* Mutant: the first name of the table is taken, whatever the index.
FirstName(index) == <<names[1]>>

\* The table from an index to the end of the line, without the slash.
LongName(index) == RightStrip(FirstLine(SubSeq(names, index + 1, Len(names))), "/")

\* The length of a name in the payload counts its padding.
MemberName ==
  IF Kind = "bsd" THEN RightStrip(SubSeq(Payload, 1, Value), "zero")
  ELSE IF Kind = "gnu" THEN LongName(Value)
  ELSE <<Value>>

Contents == IF Kind = "bsd" THEN SubSeq(Payload, Value + 1, Size) ELSE Payload

NameValid ==
  /\ Kind = "gnu" => Value < Len(names)
  /\ Kind = "bsd" => Value > 0 /\ Value <= Size

Refuse == verdict' = "refused" /\ UNCHANGED <<archive, offset, names, found>>

Advance(longs, read) ==
  /\ offset' = Following
  /\ names' = longs
  /\ found' = read
  /\ UNCHANGED <<archive, verdict>>

\* elf_identity(): the first bytes say what the object is for.
IsForTarget(bytes) == Len(bytes) > 0 /\ bytes[1] = machine

ReadMember ==
  /\ verdict = "reading"
  /\ offset < Len(data)
  /\ IF ~HeaderWhole \/ Truncated THEN Refuse
     ELSE IF Kind = "table" THEN Advance(Payload, found)
     ELSE IF Kind = "symbols" THEN Advance(names, found)
     ELSE IF ~NameValid THEN Refuse
     ELSE IF MemberName = <<"__.SYMDEF">> THEN Advance(names, found)
     ELSE IF ~IsForTarget(Contents) THEN Refuse
     ELSE Advance(names, Append(found, [name |-> MemberName[1], object |-> Contents]))

\* Mutant: an archive is as good as its members.
AnyObject == found # <<>>

ObjectPresent == object # NoObject => \E i \in DOMAIN found : found[i].object = object

Conclude ==
  /\ verdict = "reading"
  /\ offset = Len(data)
  /\ verdict' = IF found # <<>> /\ ObjectPresent THEN "passed" ELSE "refused"
  /\ UNCHANGED <<archive, offset, names, found>>

-----------------------------------------------------------------------------

ArchiveInit ==
  /\ packed = <<>>
  /\ flavor \in {"gnu", "bsd"}
  /\ IF flavor = "gnu" THEN \E n \in 0..MaxMembers : table \in [1..n -> Long] ELSE table = <<>>
  /\ data = Preamble(flavor, table)
  /\ ends = <<Len(data)>>
  /\ object \in Objects \cup {NoObject}
  /\ offset = 1
  /\ names = <<>>
  /\ found = <<>>
  /\ verdict = "packing"

ArchiveNext == (\E m \in Member : WriteMember(m)) \/ HandOver \/ ReadMember \/ Conclude

ArchiveSpec == ArchiveInit /\ [][ArchiveNext]_archiveVars

-----------------------------------------------------------------------------
\* Properties.

\* The numbers of members left if the file ends where one of them does.
Kept == {k \in 0..Len(packed) : Len(data) = ends[k + 1]}

\* A verified archive is one with members that, exactly as ar packed them
\* under their names, are objects for the target and include the one compiled,
\* if it is given; any other, cut within a member or left over from another
\* target, is refused (verify_native_archive.py:21-73).
VerdictExact ==
  verdict \in {"passed", "refused"} =>
    (verdict = "passed") =
      \E k \in Kept :
        /\ k > 0
        /\ \A i \in 1..k : IsForTarget(packed[i].object)
        /\ object # NoObject => \E i \in 1..k : packed[i].object = object

\* Members come out of the loop as they went in, in their order, long names
\* and odd sizes included (verify_native_archive.py:26-58).
FoundAsPacked == IsPrefix(found, packed)
=============================================================================
