--------------------------------- MODULE Bytes ---------------------------------
(***************************************************************************)
(* Byte strings and big-endian numbers, as cards/js/common.js, the script  *)
(* of cards/index.html and encoding/binary make and read them.  A byte     *)
(* string is a sequence of bytes; Radix is how many values a byte has (256 *)
(* in the code), so that a small Radix brings the places where 16-bit and  *)
(* 32-bit numbers wrap within reach.                                       *)
(***************************************************************************)
EXTENDS Integers, Sequences

CONSTANTS
    Radix,  \* values of a byte
    NaN     \* what Number(text) makes of a text that is no number

\* All the opcodes and separators of the program fit in a byte.
ASSUME RadixAssumption == Radix \in Nat /\ Radix > 124
ASSUME NaNAssumption == NaN \notin Int

Byte == 0..(Radix - 1)
Word == Radix * Radix * Radix * Radix

\* ToUint32(Number(value)), which is what `>>> 0' does
ToUint32(value) == IF value \in Int THEN value % Word ELSE 0

u16Bytes(value) ==
    LET n == ToUint32(value)
    IN  <<(n \div Radix) % Radix, n % Radix>>

u32Bytes(value) ==
    LET n == ToUint32(value)
    IN  <<n \div (Radix * Radix * Radix), (n \div (Radix * Radix)) % Radix,
          (n \div Radix) % Radix, n % Radix>>

\* The length of a field, as a field
LengthOf(bytes) == u32Bytes(Len(bytes))

\* The number in the bytes from offset on, counted from 0
U16At(bytes, offset) == bytes[offset + 1] * Radix + bytes[offset + 2]

U32At(bytes, offset) ==
    U16At(bytes, offset) * Radix * Radix + U16At(bytes, offset + 2)

\* bytes.slice(from, to) of JavaScript, which stops where the bytes stop
Slice(bytes, from, to) ==
    SubSeq(bytes, from + 1, IF to <= Len(bytes) THEN to ELSE Len(bytes))

SliceFrom(bytes, from) == SubSeq(bytes, from + 1, Len(bytes))

\* new Uint8Array(length)
Zeros(length) == [i \in 1..length |-> 0]
================================================================================
