------------------------------ MODULE CardCommon -------------------------------
(***************************************************************************)
(* cards/js/common.js: the helpers the card codecs are made of.  Text is   *)
(* taken as the bytes TextEncoder makes of it.  A reader that throws       *)
(* returns Thrown.                                                         *)
(***************************************************************************)
EXTENDS Bytes, SequencesExt

\* The outcome of a call that ended in an exception
Thrown == [thrown |-> TRUE]

\* JavaScript's null
Null == [null |-> TRUE]

\* normalizeId takes these; it throws for any other length.
IsId(raw) == Len(raw) = 16

concatBytes(parts) == FlattenSeq(parts)

buildOpcodeMessage(opcode, parts) == concatBytes(<<u32Bytes(opcode)>> \o parts)

buildResultMessage(id, parts) == concatBytes(<<id>> \o parts)

--------------------------------------------------------------------------------
(***************************************************************************)
(* The cursor of makeCursor.  `read' maps the names read so far to their   *)
(* values; `short' is set where the code throws, and nothing is read after *)
(* that.  A message is read in steps, each of which moves the cursor.      *)
(***************************************************************************)
makeCursor(bytes) ==
    [bytes |-> bytes, offset |-> 0, short |-> FALSE, read |-> << >>]

\* {...object, name: value}
With(object, name, value) ==
    [f \in DOMAIN object \cup {name} |-> IF f = name THEN value ELSE object[f]]

\* Moves past length bytes, whose value is kept under name.
Advance(cursor, name, length, value) ==
    LET end == cursor.offset + length
    IN  IF cursor.short \/ end > Len(cursor.bytes)
        THEN [cursor EXCEPT !.short = TRUE]
        ELSE [cursor EXCEPT !.offset = end, !.read = With(@, name, value)]

\* cursor.u32
readNumber(cursor, name) ==
    Advance(cursor, name, 4, U32At(cursor.bytes, cursor.offset))

\* Wrong: takes what there is when there is not enough
bytesSliceUnchecked(cursor, name, length) ==
    LET rest == Len(cursor.bytes) - cursor.offset
    IN  Advance(cursor, name, IF length <= rest THEN length ELSE rest,
                Slice(cursor.bytes, cursor.offset, cursor.offset + length))

\* cursor.bytesSlice
bytesSlice(cursor, name, length) ==
    Advance(cursor, name, length, Slice(cursor.bytes, cursor.offset, cursor.offset + length))

\* The steps: a number, sixteen bytes, or as many bytes as a number read before
Number(name) == [name |-> name, size |-> "u32"]
Sixteen(name) == [name |-> name, size |-> "16"]
Sized(name, lengthName) == [name |-> name, size |-> lengthName]

Step(cursor, step) ==
    IF cursor.short THEN cursor
    ELSE CASE step.size = "u32" -> readNumber(cursor, step.name)
           [] step.size = "16"  -> bytesSlice(cursor, step.name, 16)
           [] OTHER -> bytesSlice(cursor, step.name, cursor.read[step.size])

\* The lengths are read, but are no part of the object a reader returns.
Lengths(steps) == {steps[i].size : i \in DOMAIN steps}

\* A request reader: a first check of the length, then it skips the opcode, and reads
\* the rest in steps.
readRequest(message, minLength, steps) ==
    LET cursor[i \in 0..Len(steps)] ==
            IF i = 0 THEN [makeCursor(message) EXCEPT !.offset = 4]
            ELSE Step(cursor[i - 1], steps[i])
        end == cursor[Len(steps)]
    IN  IF Len(message) < minLength \/ end.short THEN Thrown
        ELSE Restrict(end.read, DOMAIN end.read \ Lengths(steps))

\* A result reader: a check of the length, after which the fields are in reach.
readResultMessage(message, minLength, result) ==
    IF Len(message) < minLength THEN Thrown ELSE result

--------------------------------------------------------------------------------
(***************************************************************************)
(* Cells and genomes.                                                      *)
(***************************************************************************)
cellBytes(cell) ==
    concatBytes(<<u32Bytes(cell.genome), u32Bytes(cell.x), u32Bytes(cell.y), u32Bytes(cell.z)>>)

cellFromBytes(bytes) ==
    readResultMessage(bytes, 16,
        [genome |-> U32At(bytes, 0), x |-> U32At(bytes, 4),
         y |-> U32At(bytes, 8), z |-> U32At(bytes, 12)])

GENOME_FLAGS ==
    <<"readSelf", "readNeighbors", "writeSelf", "writeNeighbors", "deleteSelf",
      "deleteNeighbors", "diferirSelf", "cruzarSelf", "dominanceSelf",
      "freeRead", "isMigrated">>

\* 1 << bit, for each flag
FlagBits == <<1, 2, 4, 8, 16, 32, 64, 128, 256, 512, 1024>>

\* The flags that are set
genomeDetailFromUint32(genome) ==
    {GENOME_FLAGS[i] : i \in {j \in DOMAIN GENOME_FLAGS : (genome \div FlagBits[j]) % 2 = 1}}

genomeUint32FromDetail(detail) ==
    LET sum[i \in 0..Len(GENOME_FLAGS)] ==
            IF i = 0 THEN 0
            ELSE sum[i - 1] + (IF GENOME_FLAGS[i] \in detail THEN FlagBits[i] ELSE 0)
    IN  sum[Len(GENOME_FLAGS)]
================================================================================
