-------------------------------- MODULE Dispatch --------------------------------
(***************************************************************************)
(* dispatch.go and errors.go on the bytes of a frame: where a frame goes,  *)
(* whose answer a frame of the node is, and the envelope that reports an   *)
(* error.  A request is opcode (4 bytes), id (16), payload; an envelope is *)
(* id (16), code (4), text.                                                *)
(***************************************************************************)
EXTENDS Bytes

CONSTANTS
    OpcodeNamespaceMin, OpcodeNamespaceMax,   \* the opcodes of Samsara
    OpcodeRequestMin, OpcodeRequestMax,       \* the requests of Synap2P
    OpcodeEventMin, OpcodeEventMax            \* the events of Synap2P

ASSUME OpcodeAssumption ==
    /\ OpcodeRequestMin \in Byte /\ OpcodeRequestMax \in Byte
    /\ OpcodeEventMin \in Byte /\ OpcodeEventMax \in Byte
    /\ OpcodeNamespaceMin \in Byte /\ OpcodeNamespaceMax \in Byte
    /\ OpcodeRequestMin <= OpcodeRequestMax /\ OpcodeRequestMax < OpcodeEventMin
    /\ OpcodeEventMin <= OpcodeEventMax /\ OpcodeEventMax < OpcodeNamespaceMin

ErrorCodeFrameTooShort     == 50000
ErrorCodeUnknownOpcode     == 50001
ErrorCodeRequestTimeout    == 50002
ErrorCodeDuplicateRequest  == 50003
ErrorCodeNodeProcessFailed == 50004

\* The texts of the envelopes start with the "d" of "dispatcher".
Info == <<100>>

\* Copies into an array of sixteen bytes, which has zeros at first.
normalizeID(id) == [i \in 1..16 |-> IF i <= Len(id) THEN id[i] ELSE 0]

errorResult(id, code, info) == normalizeID(id) \o u32Bytes(code) \o info

--------------------------------------------------------------------------------
requestIDFromFrame(frame) ==
    [i \in 1..16 |-> IF i + 4 <= Len(frame) THEN frame[i + 4] ELSE 0]

Unknown(opcode, id, code) ==
    [target |-> "unknown", opcode |-> opcode, id |-> id,
     rejection |-> errorResult(id, code, Info)]

\* classifyFrame, with the opcode in this place
Classified(frame, place) ==
    LET id == requestIDFromFrame(frame)
        To(target) == [target |-> target, opcode |-> frame[place], id |-> id,
                       rejection |-> << >>]
    IN  IF Len(frame) < 20 THEN Unknown(0, id, ErrorCodeFrameTooShort)
        ELSE CASE frame[place] \in OpcodeRequestMin..OpcodeRequestMax -> To("synap2p")
               [] frame[place] \in OpcodeNamespaceMin..OpcodeNamespaceMax -> To("samsara")
               [] OTHER -> Unknown(frame[place], id, ErrorCodeUnknownOpcode)

\* Wrong: takes the first byte of the opcode, as if it were sent from its low end
classifyFrameFirst(frame) == Classified(frame, 1)

classifyFrame(frame) == Classified(frame, 4)

--------------------------------------------------------------------------------
\* Wrong: looks at the low byte alone
synapOpcodeFromLowByte(frame) ==
    /\ Len(frame) >= 4
    /\ frame[4] \in OpcodeRequestMin..OpcodeEventMax

\* Whether the bytes begin as a frame of the node that carries its opcode
synapOpcodeFromFrame(frame) ==
    /\ Len(frame) >= 4
    /\ frame[1] = 0 /\ frame[2] = 0 /\ frame[3] = 0
    /\ frame[4] \in OpcodeRequestMin..OpcodeEventMax

isSynapEvent(opcode) == opcode \in OpcodeEventMin..OpcodeEventMax

\* The id of the request a frame of the node answers; empty if it has none
synapResponseID(frame) ==
    CASE Len(frame) < 20 -> << >>
      [] Len(frame) >= 20 /\ synapOpcodeFromFrame(frame) -> SubSeq(frame, 5, 20)
      [] OTHER -> SubSeq(frame, 1, 16)
================================================================================
