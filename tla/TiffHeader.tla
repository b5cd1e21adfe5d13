------------------------------ MODULE TiffHeader ------------------------------
(***************************************************************************)
(* tiff.py's parse_ifds: the walk of a COG's chain of IFDs through the     *)
(* first bytes of the file.                                                *)
(*                                                                         *)
(* A file is its byte order, version and IFDs in chain order, each at its  *)
(* offset with its entries; a header is the file cut off at a length.  The *)
(* chain of a TIFF visits no IFD twice.                                    *)
(***************************************************************************)
EXTENDS Naturals, Sequences, SequencesExt, FiniteSets, FiniteSetsExt, Subsequences

CONSTANTS
    Files,    \* [order, version, ifds : Seq([at, entries : Seq([tag, kind, value])])]
    Lengths   \* the header lengths

IMAGE_WIDTH  == 256
IMAGE_LENGTH == 257
TYPE_SHORT   == 3

\* The IFDs lie behind the header's eight bytes, at different offsets, and the
\* values of their entries fit the two or four bytes their kind has.
ASSUME FileAssumption ==
    \A f \in Files :
        /\ f.ifds \in Seq([at : Nat, entries : Seq([tag : Nat, kind : Nat, value : Nat])])
        /\ \A i \in DOMAIN f.ifds :
              /\ f.ifds[i].at >= 8
              /\ \A j \in DOMAIN f.ifds : f.ifds[i].at = f.ifds[j].at => i = j
              /\ \A k \in DOMAIN f.ifds[i].entries :
                    LET e == f.ifds[i].entries[k]
                    IN  e.value \div 65536 < (IF e.kind = TYPE_SHORT THEN 1 ELSE 65536)
ASSUME LengthAssumption == Lengths \subseteq Nat

VARIABLES
    file, length,  \* the header
    offset,        \* the walk: offset of the next IFD,
    sizes,         \* the sizes found,
    reach,         \* the end of the furthest bytes read
    walk           \* and where it is

walkVars == <<file, length, offset, sizes, reach, walk>>

\* The IFD at an offset, and the offset it carries of the next one.
IfdAt(o)  == CHOOSE i \in DOMAIN file.ifds : file.ifds[i].at = o
Count(o)  == Len(file.ifds[IfdAt(o)].entries)
NextOf(i) == IF i < Len(file.ifds) THEN file.ifds[i + 1].at ELSE 0

\* Of n bytes in the file's order, the i-th by weight.
Place(i, n) == IF file.order = "II" THEN i ELSE n + 1 - i

Weight == <<1, 256, 65536, 16777216>>

\* The four bytes of an entry's value: left justified, in the file's order.
ValueBytes(e) ==
    LET n == IF e.kind = TYPE_SHORT THEN 2 ELSE 4
    IN  [i \in 1..4 |-> IF i <= n THEN (e.value \div Weight[Place(i, n)]) % 256 ELSE 0]

\* struct.unpack_from of n of those bytes.
Unpacked(bytes, n) ==
    LET part(i) == IF i <= n THEN Weight[i] * bytes[Place(i, n)] ELSE 0
    IN  part(1) + part(2) + part(3) + part(4)

\* A fault for the checks to catch: every value is read as four bytes.
AlwaysLong(e) == Unpacked(ValueBytes(e), 4)

\* The value parse_ifds takes from an entry.
EntryValue(e) == Unpacked(ValueBytes(e), IF e.kind = TYPE_SHORT THEN 2 ELSE 4)

\* The dimensions dict of an IFD: the last entry with the tag counts.
Tagged(o, tag)    == {i \in 1..Count(o) : file.ifds[IfdAt(o)].entries[i].tag = tag}
Dimension(o, tag) == EntryValue(file.ifds[IfdAt(o)].entries[Max(Tagged(o, tag))])

\* Too short, or no byte-order marker, or another version: ValueError.
NotATiff ==
    /\ walk = "start"
    /\ length < 8 \/ file.order \notin {"II", "MM"} \/ file.version # 42
    /\ walk' = "raised"
    /\ UNCHANGED <<file, length, offset, sizes, reach>>

ReadStart ==
    /\ walk = "start"
    /\ length >= 8 /\ file.order \in {"II", "MM"} /\ file.version = 42
    /\ offset' = IF file.ifds = << >> THEN 0 ELSE file.ifds[1].at
    /\ reach' = 8
    /\ walk' = "turn"
    /\ UNCHANGED <<file, length, sizes>>

InHeader == offset # 0 /\ offset + 2 <= length
End      == offset + 2 + Count(offset) * 12

\* A fault for the checks to catch: the four bytes after the entries are forgotten.
EntriesCut == End > length

\* The IFD, with the offset of the next one, is not wholly in the header.
CutOff == End + 4 > length

\* One turn of the loop on an IFD wholly in the header.
ReadIfd ==
    /\ walk = "turn" /\ InHeader /\ ~CutOff
    /\ sizes' = IF Tagged(offset, IMAGE_WIDTH) # {} /\ Tagged(offset, IMAGE_LENGTH) # {}
                THEN Append(sizes, <<Dimension(offset, IMAGE_WIDTH),
                                     Dimension(offset, IMAGE_LENGTH)>>)
                ELSE sizes
    /\ reach' = Max({reach, End + 4})
    /\ offset' = NextOf(IfdAt(offset))
    /\ UNCHANGED <<file, length, walk>>

\* A fault for the checks to catch: a truncated IFD does not end the loop.
BreakForgotten ==
    /\ walk = "turn" /\ InHeader /\ CutOff
    /\ reach' = Max({reach, offset + 2})
    /\ UNCHANGED <<file, length, offset, sizes, walk>>

\* The count of a truncated IFD is read, and the loop is left.
Break ==
    /\ walk = "turn" /\ InHeader /\ CutOff
    /\ reach' = Max({reach, offset + 2})
    /\ walk' = "returned"
    /\ UNCHANGED <<file, length, offset, sizes>>

LeaveLoop ==
    /\ walk = "turn" /\ ~InHeader
    /\ walk' = "returned"
    /\ UNCHANGED <<file, length, offset, sizes, reach>>

WalkInit ==
    /\ file \in Files /\ length \in Lengths
    /\ offset = 0 /\ sizes = << >> /\ reach = 0
    /\ walk = "start"

ParseIfds == NotATiff \/ ReadStart \/ ReadIfd \/ Break \/ LeaveLoop

(***************************************************************************)
(* Properties.                                                             *)
(***************************************************************************)

\* The IFDs of the file that are wholly in the header, up to the first in chain
\* order that is not.
Whole(i) == file.ifds[i].at + 2 + 12 * Len(file.ifds[i].entries) + 4 <= length
Covered ==
    LET n == CHOOSE n \in 0..Len(file.ifds) :
                /\ \A i \in 1..n : Whole(i)
                /\ n < Len(file.ifds) => ~Whole(n + 1)
    IN  SubSeq(file.ifds, 1, n)

\* The value of an IFD's tag as the file's writer meant it.
Meant(ifd, tag) == {ifd.entries[i].value : i \in {i \in DOMAIN ifd.entries : ifd.entries[i].tag = tag}}

\* The IFDs that are images.
Images == {d \in ToSet(file.ifds) : Meant(d, IMAGE_WIDTH) # {} /\ Meant(d, IMAGE_LENGTH) # {}}

\* A truncated header yields the levels it covers, with their sizes as written
\* in either byte order and either width, wherever the IFDs lie in the file
\* (parse_ifds).
LevelsAreCovered ==
    walk = "returned" =>
        LET images == Among(Covered, Images)
        IN  /\ Len(sizes) = Len(images)
            /\ \A i \in DOMAIN sizes : /\ sizes[i][1] \in Meant(images[i], IMAGE_WIDTH)
                                       /\ sizes[i][2] \in Meant(images[i], IMAGE_LENGTH)

\* No byte past the header is read, wherever it is cut.
ReadsInHeader == walk # "start" => reach <= length

\* The walk ends, for every chain that visits no IFD twice.
WalkEnds == walk = "start" ~> walk \in {"returned", "raised"}
=============================================================================
