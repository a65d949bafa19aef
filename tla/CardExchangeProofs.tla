-------------------------- MODULE CardExchangeProofs ---------------------------
(***************************************************************************)
(* What CardExchange promises, for every request, answer and error that    *)
(* its constants allow and not only those of the run.                      *)
(*                                                                         *)
(* From the bottom: frames of any length at the dispatcher; numbers and    *)
(* what is left of them after bytes and back; the parts of a request,      *)
(* which are the same whoever builds it (OneFormat); the invariant of an   *)
(* exchange, ExchangeInv, which keeps every value of an exchange tied to   *)
(* the request that was composed, and EventInv, which ties an event to     *)
(* what the node told; and what follows from them.                         *)
(***************************************************************************)
EXTENDS CardExchange, SequenceInduction

Id == {id \in Seq(Byte) : Len(id) = 16}

\* A frame that begins with its opcode, as requests do and the answers of the node
OpcodeFrame(opcode, id, payload) == <<0, 0, 0, opcode>> \o (id \o payload)

--------------------------------------------------------------------------------
(***************************************************************************)
(* Bytes.                                                                  *)
(***************************************************************************)
LEMMA ByteTyped == Byte \subseteq Int /\ 0 \in Byte
BY RadixAssumption DEF Byte

LEMMA WordTyped == Word \in Nat /\ Word > 0
<1> DEFINE Square == Radix * Radix
<1>1. Radix \in Nat /\ Radix > 0
    BY RadixAssumption
<1>2. Square \in Nat /\ Square > 0
    BY <1>1
<1>3. Square * Square \in Nat /\ Square * Square > 0
  <2> HIDE DEF Square
  <2> QED  BY <1>2
<1>4. Word = Square * Square
    BY <1>1 DEF Word
<1> QED  BY <1>3, <1>4

LEMMA NumberTyped == ASSUME NEW code \in Nat PROVE u32Bytes(code) \in Seq(Int) /\ Len(u32Bytes(code)) = 4
<1>1. ToUint32(code) \in Int
    BY WordTyped DEF ToUint32
<1>2. ASSUME NEW d \in Nat, d > 0 PROVE ToUint32(code) \div d \in Int
    BY <1>1, <1>2
<1>3. Radix \in Nat /\ Radix > 0 /\ Radix * Radix \in Nat /\ Radix * Radix > 0
    BY RadixAssumption
<1>4. Radix * Radix * Radix \in Nat /\ Radix * Radix * Radix > 0
  <2> DEFINE Square == Radix * Radix
  <2> HIDE DEF Square
  <2>1. Square * Radix \in Nat /\ Square * Radix > 0
      BY <1>3 DEF Square
  <2> QED  BY <2>1 DEF Square
<1>5. \A n \in Int : n % Radix \in Int
    BY <1>3
<1> DEFINE n == ToUint32(code)
           a == n \div (Radix * Radix * Radix)
           b == (n \div (Radix * Radix)) % Radix
           c == (n \div Radix) % Radix
           d == n % Radix
<1>6. a \in Int /\ b \in Int /\ c \in Int /\ d \in Int
    BY <1>1, <1>2, <1>3, <1>4, <1>5
<1>7. u32Bytes(code) = <<a, b, c, d>>
    BY DEF u32Bytes
<1> HIDE DEF a, b, c, d
<1> QED  BY <1>6, <1>7

(***************************************************************************)
(* Sequences.                                                              *)
(***************************************************************************)
LEMMA SeqOfFunction ==
    ASSUME NEW S, NEW n \in Nat, NEW f \in [1..n -> S] PROVE f \in Seq(S) /\ Len(f) = n
OBVIOUS

LEMMA Concat ==
    ASSUME NEW S, NEW left \in Seq(S), NEW right \in Seq(S)
    PROVE  /\ left \o right \in Seq(S)
           /\ Len(left \o right) = Len(left) + Len(right) /\ Len(right) \in Nat
           /\ \A i \in 1..Len(left) : (left \o right)[i] = left[i]
           /\ \A i \in 1..Len(right) : (left \o right)[Len(left) + i] = right[i]
OBVIOUS

(***************************************************************************)
(* normalizeID makes sixteen bytes of anything, and keeps an id.           *)
(***************************************************************************)
LEMMA Normalized ==
    ASSUME NEW id \in Seq(Byte)
    PROVE  normalizeID(id) \in Id /\ (Len(id) = 16 => normalizeID(id) = id)
<1>1. Len(id) \in Nat /\ id \in [1..Len(id) -> Byte]
    BY LenProperties
<1>2. normalizeID(id) \in [1..16 -> Byte]
    BY <1>1, ByteTyped DEF normalizeID
<1>3. normalizeID(id) \in Seq(Byte) /\ Len(normalizeID(id)) = 16
  <2>1. 16 \in Nat
      OBVIOUS
  <2> QED  BY ONLY <1>2, <2>1, SeqOfFunction, ZenonT(60)
<1>4. ASSUME Len(id) = 16 PROVE normalizeID(id) = id
  <2>1. id \in [1..16 -> Byte]
      BY <1>1, <1>4
  <2>2. \A i \in 1..16 : normalizeID(id)[i] = id[i]
      BY <1>4 DEF normalizeID
  <2> QED  BY ONLY <1>2, <2>1, <2>2, SMTT(30)
<1> QED  BY <1>3, <1>4 DEF Id

LEMMA RequestIdTyped ==
    ASSUME NEW bytes \in Seq(Byte) PROVE requestIDFromFrame(bytes) \in Id
<1>1. Len(bytes) \in Nat /\ bytes \in [1..Len(bytes) -> Byte]
    BY LenProperties
<1>2. requestIDFromFrame(bytes) \in [1..16 -> Byte]
    BY <1>1, ByteTyped DEF requestIDFromFrame
<1>3. requestIDFromFrame(bytes) \in Seq(Byte) /\ Len(requestIDFromFrame(bytes)) = 16
  <2>1. 16 \in Nat
      OBVIOUS
  <2> QED  BY <1>2, <2>1, SeqOfFunction, ZenonT(60)
<1> QED  BY <1>3 DEF Id

--------------------------------------------------------------------------------
(***************************************************************************)
(* What lies where in a frame.                                             *)
(***************************************************************************)
LEMMA FrameParts ==
    ASSUME NEW opcode \in Byte, NEW id \in Id, NEW payload \in Seq(Byte),
           NEW bytes, bytes = OpcodeFrame(opcode, id, payload)
    PROVE  /\ bytes \in Seq(Byte) /\ Len(bytes) \in Nat /\ Len(bytes) >= 20
           /\ bytes[1] = 0 /\ bytes[2] = 0 /\ bytes[3] = 0 /\ bytes[4] = opcode
           /\ \A i \in 1..16 : bytes[i + 4] = id[i]
<1> DEFINE head == <<0, 0, 0, opcode>>
           rest == id \o payload
<1>1. /\ head \in Seq(Byte) /\ Len(head) = 4
      /\ head[1] = 0 /\ head[2] = 0 /\ head[3] = 0 /\ head[4] = opcode
    BY ByteTyped
<1>2. /\ rest \in Seq(Byte) /\ Len(rest) = 16 + Len(payload) /\ Len(payload) \in Nat
      /\ \A i \in 1..16 : rest[i] = id[i]
  <2>1. id \in Seq(Byte)
      BY DEF Id
  <2>2. /\ rest \in Seq(Byte) /\ Len(rest) = Len(id) + Len(payload) /\ Len(payload) \in Nat
        /\ \A i \in 1..Len(id) : rest[i] = id[i]
      BY <2>1, Concat, Zenon
  <2>3. Len(id) = 16
      BY DEF Id
  <2> QED  BY <2>2, <2>3, Zenon
<1>3. bytes = head \o rest
    BY DEF OpcodeFrame
<1> HIDE DEF head, rest
<1>4. /\ head \o rest \in Seq(Byte) /\ Len(head \o rest) = 4 + Len(rest)
      /\ \A i \in 1..4 : (head \o rest)[i] = head[i]
      /\ \A i \in 1..Len(rest) : (head \o rest)[4 + i] = rest[i]
  <2>1. head \in Seq(Byte) /\ rest \in Seq(Byte)
      BY <1>1, <1>2
  <2>2. /\ head \o rest \in Seq(Byte) /\ Len(head \o rest) = Len(head) + Len(rest)
      BY <2>1, Concat, Zenon
  <2>3. \A i \in 1..Len(head) : (head \o rest)[i] = head[i]
      BY <2>1, Concat, Zenon
  <2>4. \A i \in 1..Len(rest) : (head \o rest)[Len(head) + i] = rest[i]
      BY ONLY <2>1, Concat
  <2> QED  BY <1>1, <2>2, <2>3, <2>4, Zenon
<1>5. /\ bytes \in Seq(Byte) /\ Len(bytes) = 4 + Len(rest)
      /\ \A i \in 1..4 : bytes[i] = head[i]
      /\ \A i \in 1..Len(rest) : bytes[4 + i] = rest[i]
    BY <1>3, <1>4
<1>6. ASSUME NEW i \in 1..16 PROVE bytes[i + 4] = id[i]
  <2>1. i \in 1..Len(rest) /\ 4 + i = i + 4
      BY <1>2
  <2> QED  BY <1>2, <1>5, <2>1
<1>7. 1 \in 1..4 /\ 2 \in 1..4 /\ 3 \in 1..4 /\ 4 \in 1..4
    OBVIOUS
<1>8. bytes[1] = 0 /\ bytes[2] = 0 /\ bytes[3] = 0 /\ bytes[4] = opcode
    BY ONLY <1>1, <1>5, <1>7
<1>9. Len(bytes) \in Nat /\ Len(bytes) >= 20
    BY ONLY <1>2, <1>5
<1> QED  BY <1>5, <1>6, <1>8, <1>9

\* Sixteen bytes of a frame, from a place on, are the id that lies there.
LEMMA IdAt ==
    ASSUME NEW bytes \in Seq(Int), NEW id \in Seq(Int), Len(id) = 16, NEW place \in Nat,
           Len(bytes) >= place + 16, \A i \in 1..16 : bytes[i + place] = id[i]
    PROVE  SubSeq(bytes, place + 1, place + 16) = id
<1> DEFINE part == SubSeq(bytes, place + 1, place + 16)
<1>1. Len(bytes) \in Nat
    BY LenProperties
<1>2. ASSUME NEW i \in (place + 1)..(place + 16) PROVE bytes[i] \in Int
  <2>1. i \in 1..Len(bytes)
      BY <1>1
  <2> QED  BY <2>1, ElementOfSeq
<1>3. place + 1 \in Int /\ place + 16 \in Int
    OBVIOUS
<1>4. /\ part \in Seq(Int)
      /\ Len(part) = IF place + 1 <= place + 16 THEN (place + 16) - (place + 1) + 1 ELSE 0
      /\ \A i \in 1..((place + 16) - (place + 1) + 1) : part[i] = bytes[(place + 1) + i - 1]
    BY <1>2, <1>3, SubSeqProperties
<1> HIDE DEF part
<1>5. Len(part) = 16
    BY <1>4
<1>6. ASSUME NEW i \in 1..16 PROVE part[i] = id[i]
  <2>1. i \in 1..((place + 16) - (place + 1) + 1) /\ (place + 1) + i - 1 = i + place
      OBVIOUS
  <2> QED  BY <1>4, <2>1
<1>7. part = id
    BY <1>4, <1>5, <1>6, SeqEqual
<1> QED  BY <1>7 DEF part

LEMMA FrameId ==
    ASSUME NEW opcode \in Byte, NEW id \in Id, NEW payload \in Seq(Byte)
    PROVE  /\ requestIDFromFrame(OpcodeFrame(opcode, id, payload)) = id
           /\ SubSeq(OpcodeFrame(opcode, id, payload), 5, 20) = id
<1> DEFINE bytes == OpcodeFrame(opcode, id, payload)
<1>1. /\ bytes \in Seq(Byte) /\ Len(bytes) \in Nat /\ Len(bytes) >= 20
      /\ \A i \in 1..16 : bytes[i + 4] = id[i]
    BY FrameParts
<1> HIDE DEF bytes
<1>2. id \in Seq(Int) /\ Len(id) = 16 /\ id \in [1..16 -> Byte]
    BY ByteTyped, SeqMonotonic, LenProperties DEF Id
<1>3. requestIDFromFrame(bytes) = id
  <2>1. \A i \in 1..16 : i + 4 <= Len(bytes)
    <3>1. PICK n \in Nat : n = Len(bytes) /\ n >= 20
        BY <1>1
    <3>2. \A i \in 1..16 : i + 4 <= n
        BY ONLY <3>1, n \in Nat
    <3> QED  BY <3>1, <3>2
  <2>2. requestIDFromFrame(bytes) = [i \in 1..16 |-> id[i]]
      BY <1>1, <2>1 DEF requestIDFromFrame
  <2> QED  BY <1>2, <2>2
<1>4. SubSeq(bytes, 5, 20) = id
  <2>1. bytes \in Seq(Int)
      BY <1>1, ByteTyped, SeqMonotonic
  <2>2. 4 \in Nat /\ Len(bytes) >= 4 + 16
      BY <1>1
  <2>3. SubSeq(bytes, 4 + 1, 4 + 16) = id
      BY ONLY <1>1, <1>2, <2>1, <2>2, IdAt
  <2> QED  BY ONLY <2>3
<1> QED  BY <1>3, <1>4 DEF bytes

\* The ranges of the two engines are apart.
LEMMA RequestClassified ==
    ASSUME NEW bytes, ~(Len(bytes) < 20), bytes[4] \in OpcodeRequestMin..OpcodeRequestMax
    PROVE  classifyFrame(bytes) =
             [target |-> "synap2p", opcode |-> bytes[4], id |-> requestIDFromFrame(bytes),
              rejection |-> << >>]
<1> DEFINE To(target) == [target |-> target, opcode |-> bytes[4],
                          id |-> requestIDFromFrame(bytes), rejection |-> << >>]
<1>1. classifyFrame(bytes) =
        CASE bytes[4] \in OpcodeRequestMin..OpcodeRequestMax -> To("synap2p")
          [] bytes[4] \in OpcodeNamespaceMin..OpcodeNamespaceMax -> To("samsara")
          [] OTHER -> Unknown(bytes[4], requestIDFromFrame(bytes), ErrorCodeUnknownOpcode)
    BY DEF classifyFrame, Classified
<1>2. bytes[4] \notin OpcodeNamespaceMin..OpcodeNamespaceMax
    BY OpcodeAssumption, RadixAssumption DEF Byte
<1> QED  BY <1>1, <1>2

\* An answer that starts with the id, as envelopes do, is the id's unless it begins as
\* a frame of the node; then it is read four bytes too far.
LEMMA EnvelopeId ==
    ASSUME NEW id \in Id, NEW rest \in Seq(Int), Len(rest) >= 4,
           NEW bytes, bytes = id \o rest
    PROVE  /\ synapResponseID(bytes) = IF OpcodeLike(id) THEN SubSeq(bytes, 5, 20) ELSE id
           /\ synapOpcodeFromFrame(bytes) <=> OpcodeLike(id)
<1>1. id \in Seq(Int) /\ Len(id) = 16
    BY ByteTyped, SeqMonotonic DEF Id
<1>2. /\ id \o rest \in Seq(Int) /\ Len(id \o rest) = 16 + Len(rest) /\ Len(rest) \in Nat
      /\ \A i \in 1..16 : (id \o rest)[i] = id[i]
  <2>1. id \in Seq(Int)
      BY <1>1
  <2>2. /\ id \o rest \in Seq(Int) /\ Len(id \o rest) = Len(id) + Len(rest)
        /\ Len(rest) \in Nat /\ \A i \in 1..Len(id) : (id \o rest)[i] = id[i]
      BY <2>1, Concat, Zenon
  <2> QED  BY <1>1, <2>2, Zenon
<1>3. /\ bytes \in Seq(Int) /\ Len(bytes) = 16 + Len(rest) /\ Len(rest) \in Nat
      /\ \A i \in 1..16 : bytes[i] = id[i]
    BY <1>2
<1>4. Len(bytes) \in Nat /\ Len(bytes) >= 20 /\ ~(Len(bytes) < 20) /\ Len(bytes) >= 4
  <2>1. Len(rest) \in Nat /\ Len(rest) >= 4 /\ Len(bytes) = 16 + Len(rest)
      BY <1>3, Zenon
  <2> QED  BY ONLY <2>1
<1>5. synapOpcodeFromFrame(bytes) <=> OpcodeLike(id)
  <2>1. 1 \in 1..16 /\ 2 \in 1..16 /\ 3 \in 1..16 /\ 4 \in 1..16
      OBVIOUS
  <2>2. bytes[1] = id[1] /\ bytes[2] = id[2] /\ bytes[3] = id[3] /\ bytes[4] = id[4]
      BY ONLY <1>3, <2>1
  <2> QED  BY ONLY <1>4, <2>2 DEF synapOpcodeFromFrame, OpcodeLike
<1>6. SubSeq(bytes, 1, 16) = id
  <2>1. \A i \in 1..16 : bytes[i + 0] = id[i]
    <3>1. \A i \in 1..16 : i + 0 = i
        OBVIOUS
    <3> QED  BY <1>3, <3>1, Zenon
  <2>2. 0 \in Nat /\ Len(bytes) >= 0 + 16
      BY ONLY <1>4
  <2>3. SubSeq(bytes, 0 + 1, 0 + 16) = id
      BY ONLY <1>1, <1>3, <2>1, <2>2, IdAt
  <2> QED  BY ONLY <2>3
<1>7. synapResponseID(bytes) = IF OpcodeLike(id) THEN SubSeq(bytes, 5, 20) ELSE id
    BY ONLY <1>4, <1>5, <1>6 DEF synapResponseID
<1> QED  BY <1>5, <1>7

--------------------------------------------------------------------------------
(***************************************************************************)
(* The theorems.                                                           *)
(***************************************************************************)
\* A request for the node is classified as one, with the id it carries, and an answer
\* of the node under any opcode of its own and with that id is routed by that id
\* (classifyFrame and synapResponseID agree on where an id is).
THEOREM AnswerHasIdOfRequest ==
    ASSUME NEW id \in Id, NEW payload \in Seq(Byte), NEW data \in Seq(Byte),
           NEW opcode \in OpcodeRequestMin..OpcodeRequestMax,
           NEW answering \in OpcodeRequestMin..OpcodeEventMax
    PROVE  /\ classifyFrame(OpcodeFrame(opcode, id, payload)).target = "synap2p"
           /\ classifyFrame(OpcodeFrame(opcode, id, payload)).id = id
           /\ synapResponseID(OpcodeFrame(answering, id, data)) = id
<1> DEFINE bytes == OpcodeFrame(opcode, id, payload)
           response == OpcodeFrame(answering, id, data)
<1>1. opcode \in Byte /\ answering \in Byte
    BY OpcodeAssumption, RadixAssumption DEF Byte
<1>3. /\ bytes \in Seq(Byte) /\ Len(bytes) \in Nat /\ Len(bytes) >= 20 /\ bytes[4] = opcode
    BY <1>1, FrameParts
<1>4. /\ response \in Seq(Byte) /\ Len(response) \in Nat /\ Len(response) >= 20
      /\ response[1] = 0 /\ response[2] = 0 /\ response[3] = 0 /\ response[4] = answering
    BY <1>1, FrameParts
<1> HIDE DEF bytes, response
<1>5. requestIDFromFrame(bytes) = id /\ SubSeq(response, 5, 20) = id
    BY <1>1, FrameId DEF bytes, response
<1>6. ~(Len(bytes) < 20) /\ ~(Len(response) < 20) /\ Len(response) >= 4
  <2>1. Len(bytes) \in Nat /\ Len(bytes) >= 20 /\ Len(response) \in Nat /\ Len(response) >= 20
      BY <1>3, <1>4
  <2> QED  BY ONLY <2>1
<1>7. classifyFrame(bytes) = [target |-> "synap2p", opcode |-> opcode, id |-> id,
                              rejection |-> << >>]
  <2>1. bytes[4] \in OpcodeRequestMin..OpcodeRequestMax
      BY <1>3, Zenon
  <2>2. classifyFrame(bytes) =
          [target |-> "synap2p", opcode |-> bytes[4], id |-> requestIDFromFrame(bytes),
           rejection |-> << >>]
      BY <1>6, <2>1, RequestClassified, Zenon
  <2> QED  BY <1>3, <1>5, <2>2, Zenon
<1>8. synapOpcodeFromFrame(response)
    BY <1>4, <1>6 DEF synapOpcodeFromFrame
<1>9. synapResponseID(response) = SubSeq(response, 5, 20)
    BY <1>4, <1>6, <1>8 DEF synapResponseID
<1> QED  BY <1>5, <1>7, <1>9 DEF bytes, response

\* An error envelope that comes back from the node is routed to the request it reports
\* on exactly as long as its id does not begin like an opcode frame.
THEOREM EnvelopeFindsItsRequest ==
    ASSUME NEW id \in Id, NEW code \in Nat, NEW info \in Seq(Byte)
    PROVE  /\ synapResponseID(errorResult(id, code, info)) =
               IF OpcodeLike(id)
               THEN SubSeq(errorResult(id, code, info), 5, 20)
               ELSE id
           /\ synapOpcodeFromFrame(errorResult(id, code, info)) <=> OpcodeLike(id)
<1> DEFINE rest == u32Bytes(code) \o info
<1>1. id \in Seq(Byte) /\ Len(id) = 16 /\ normalizeID(id) = id
    BY Normalized DEF Id
<1>2. /\ u32Bytes(code) \in Seq(Int) /\ Len(u32Bytes(code)) = 4
      /\ info \in Seq(Int) /\ id \in Seq(Int)
    BY <1>1, NumberTyped, ByteTyped, SeqMonotonic
<1>3. rest \in Seq(Int) /\ Len(rest) = 4 + Len(info) /\ Len(info) \in Nat
  <2>1. /\ rest \in Seq(Int) /\ Len(rest) = Len(u32Bytes(code)) + Len(info)
        /\ Len(info) \in Nat
      BY <1>2, Concat, Zenon
  <2> QED  BY <1>2, <2>1, Zenon
<1>4. Len(rest) >= 4
    BY <1>3
<1>5. errorResult(id, code, info) = id \o rest
  <2>1. (id \o u32Bytes(code)) \o info = id \o (u32Bytes(code) \o info)
    <3> DEFINE middle == u32Bytes(code)
    <3>1. middle \in Seq(Int)
        BY <1>2
    <3> HIDE DEF middle
    <3>2. id \in Seq(Int) /\ info \in Seq(Int)
        BY <1>2
    <3>3. (id \o middle) \o info = id \o (middle \o info)
        BY ONLY <3>1, <3>2, ConcatAssociative, SMTT(30)
    <3> QED  BY <3>3 DEF middle
  <2> QED  BY <1>1, <2>1, Zenon DEF errorResult
<1> HIDE DEF rest
<1> QED  BY <1>3, <1>4, <1>5, EnvelopeId

\* A frame of less than twenty bytes goes to no engine, and its refusal begins with
\* sixteen bytes whatever there was of an id.
THEOREM ShortFrameRefused ==
    ASSUME NEW bytes \in Seq(Byte), Len(bytes) < 20
    PROVE  /\ classifyFrame(bytes).target = "unknown"
           /\ classifyFrame(bytes).id \in Id
           /\ classifyFrame(bytes).rejection =
                errorResult(classifyFrame(bytes).id, ErrorCodeFrameTooShort, Info)
<1>1. requestIDFromFrame(bytes) \in Id
    BY RequestIdTyped
<1>2. classifyFrame(bytes) = Unknown(0, requestIDFromFrame(bytes), ErrorCodeFrameTooShort)
    BY DEF classifyFrame, Classified
<1> QED  BY <1>1, <1>2 DEF Unknown

\* No request reaches an engine with the opcode of an event: what comes back under
\* such an opcode was asked by nobody.
THEOREM NoEventIsAsked ==
    ASSUME NEW bytes \in Seq(Byte), classifyFrame(bytes).target # "unknown"
    PROVE  ~isSynapEvent(classifyFrame(bytes).opcode)
<1>1. bytes[4] \in Byte
  <2>1. Len(bytes) \in Nat
      BY LenProperties
  <2>2. ~(Len(bytes) < 20)
      BY DEF classifyFrame, Classified, Unknown
  <2>3. 4 \in 1..Len(bytes)
      BY <2>1, <2>2
  <2> QED  BY <2>3, ElementOfSeq
<1>2. classifyFrame(bytes).opcode = bytes[4]
      /\ bytes[4] \in (OpcodeRequestMin..OpcodeRequestMax) \cup (OpcodeNamespaceMin..OpcodeNamespaceMax)
    BY DEF classifyFrame, Classified, Unknown
<1> QED
    BY <1>1, <1>2, OpcodeAssumption, RadixAssumption DEF isSynapEvent, Byte

LEMMA DivMod ==
    ASSUME NEW n \in Nat, NEW d \in Nat, d > 0
    PROVE  /\ n \div d \in Nat /\ n % d \in 0..(d - 1)
           /\ n = d * (n \div d) + (n % d)
OBVIOUS

LEMMA DivUnique ==
    ASSUME NEW d \in Nat, d > 0, NEW q \in Int, NEW r \in 0..(d - 1)
    PROVE  (d * q + r) \div d = q /\ (d * q + r) % d = r
OBVIOUS

LEMMA ModTyped == ASSUME NEW v \in Int, NEW d \in Nat, d > 0 PROVE v % d \in 0..(d - 1)
OBVIOUS

\* Dividing twice
LEMMA DivDiv ==
    ASSUME NEW n \in Nat, NEW d \in Nat, d > 0, NEW e \in Nat, e > 0
    PROVE  n \div (d * e) = (n \div d) \div e
<1> DEFINE q == n \div d
           r == n % d
           p == q \div e
           s == q % e
<1>1. q \in Nat /\ r \in 0..(d - 1) /\ n = d * q + r
    BY DivMod
<1>2. p \in Nat /\ s \in 0..(e - 1) /\ q = e * p + s
    BY <1>1, DivMod
<1> HIDE DEF q, r, p, s
<1>3. n = (d * e) * p + (d * s + r)
  <2>1. d * (e * p + s) = (d * e) * p + d * s
      BY <1>2
  <2> QED  BY <1>1, <1>2, <2>1
<1>4. d * s + r \in 0..(d * e - 1)
  <2>1. d * s \in Nat /\ d * s <= d * (e - 1) /\ d * (e - 1) = d * e - d
      BY <1>2
  <2> QED  BY <1>1, <2>1
<1>5. d * e \in Nat /\ d * e > 0
    OBVIOUS
<1>6. n \div (d * e) = p
  <2> DEFINE de == d * e
             t == d * s + r
  <2>1. de \in Nat /\ de > 0 /\ t \in 0..(de - 1) /\ n = de * p + t
      BY <1>3, <1>4, <1>5
  <2> HIDE DEF de, t
  <2>2. n \div de = p
      BY <1>2, <2>1, DivUnique
  <2> QED  BY <2>2 DEF de
<1> QED  BY <1>6 DEF p, q

LEMMA RadixTyped ==
    /\ Radix \in Nat /\ Radix > 124
    /\ Radix * Radix \in Nat /\ Radix * Radix > 0
    /\ Radix * Radix * Radix \in Nat /\ Radix * Radix * Radix > 0
    /\ Word = Radix * Radix * Radix * Radix
<1>1. Radix \in Nat /\ Radix > 124
    BY RadixAssumption
<1> DEFINE Square == Radix * Radix
<1>2. Square \in Nat /\ Square > 0
    BY <1>1
<1>3. Square * Radix \in Nat /\ Square * Radix > 0
  <2> HIDE DEF Square
  <2> QED  BY <1>1, <1>2
<1> QED  BY <1>1, <1>2, <1>3 DEF Word

LEMMA ToUint32Typed == ASSUME NEW value PROVE ToUint32(value) \in 0..(Word - 1)
BY WordTyped, ModTyped DEF ToUint32

LEMMA WordKept == ASSUME NEW n \in 0..(Word - 1) PROVE ToUint32(n) = n
<1>1. Word \in Nat /\ Word > 0
    BY WordTyped
<1>2. n % Word = n
  <2>1. n \in Nat /\ 0 \in Int /\ n = Word * 0 + n
      BY <1>1
  <2> QED  BY <1>1, <2>1, DivUnique
<1> QED  BY <1>2 DEF ToUint32

\* The digits of a number
LEMMA Digits ==
    ASSUME NEW n \in 0..(Word - 1)
    PROVE  /\ n \div (Radix * Radix * Radix) \in Byte
           /\ (n \div (Radix * Radix)) % Radix \in Byte
           /\ (n \div Radix) % Radix \in Byte /\ n % Radix \in Byte
           /\ n = ((n \div (Radix * Radix * Radix)) * Radix
                    + ((n \div (Radix * Radix)) % Radix)) * Radix * Radix
                  + (((n \div Radix) % Radix) * Radix + (n % Radix))
<1> DEFINE R == Radix
           q == n \div R
           d == n % R
           p == q \div R
           c == q % R
           a == p \div R
           b == p % R
<1>1. R \in Nat /\ R > 124 /\ n \in Nat
    BY RadixTyped, WordTyped
<1>2. q \in Nat /\ d \in 0..(R - 1) /\ n = R * q + d
    BY <1>1, DivMod
<1>3. p \in Nat /\ c \in 0..(R - 1) /\ q = R * p + c
    BY <1>1, <1>2, DivMod
<1>4. a \in Nat /\ b \in 0..(R - 1) /\ p = R * a + b
    BY <1>1, <1>3, DivMod
<1>5. n \div (R * R) = p
    BY <1>1, DivDiv
<1>6. n \div (R * R * R) = a
    BY <1>1, <1>5, RadixTyped, DivDiv
<1>7. n < R * R * R * R
    BY <1>1, RadixTyped
<1> HIDE DEF q, d, p, c, a, b, R
<1>8. n = (a * R + b) * R * R + (c * R + d)
  <2>1. n = R * (R * (R * a + b) + c) + d
      BY <1>2, <1>3, <1>4
  <2>2. R * (R * (R * a + b) + c) + d = (a * R + b) * R * R + (c * R + d)
      BY <1>1, <1>2, <1>3, <1>4
  <2> QED  BY <2>1, <2>2
<1>9. a < R
  <2>1. SUFFICES ASSUME a >= R PROVE FALSE
      BY <1>1, <1>4
  <2>2. PICK k \in Nat : a = R + k
    <3>1. a - R \in Nat /\ a = R + (a - R)
        BY <1>1, <1>4, <2>1
    <3> QED  BY <3>1
  <2>3. n = R * R * R * R + (k * R + b) * R * R + (c * R + d)
      BY <1>1, <1>2, <1>3, <1>4, <1>8, <2>2
  <2>4. (k * R + b) * R * R \in Nat /\ c * R + d \in Nat
    <3>1. k * R + b \in Nat
        BY <1>1, <1>4, <2>2
    <3>2. (k * R + b) * R \in Nat
      <4> DEFINE x == k * R + b
      <4>1. x \in Nat
          BY <3>1
      <4> HIDE DEF x
      <4>2. x * R \in Nat
          BY <1>1, <4>1
      <4> QED  BY <4>2 DEF x
    <3>3. (k * R + b) * R * R \in Nat
      <4> DEFINE x == (k * R + b) * R
      <4>1. x \in Nat
          BY <3>2
      <4> HIDE DEF x
      <4>2. x * R \in Nat
          BY <1>1, <4>1
      <4> QED  BY <4>2 DEF x
    <3>4. c * R + d \in Nat
        BY <1>1, <1>2, <1>3
    <3> QED  BY <3>3, <3>4
  <2> DEFINE x == R * R * R * R
             y == (k * R + b) * R * R
             z == c * R + d
  <2>5. n = x + y + z /\ n < x /\ y \in Nat /\ z \in Nat /\ x \in Int
    <3>1. R * R * R * R \in Int
        BY WordTyped, RadixTyped DEF R
    <3> QED  BY <1>7, <2>3, <2>4, <3>1
  <2> HIDE DEF x, y, z
  <2> QED  BY <2>5, <1>1
<1>10. a \in Byte /\ b \in Byte /\ c \in Byte /\ d \in Byte
    BY <1>1, <1>2, <1>3, <1>4, <1>9 DEF Byte, R
<1> QED  BY <1>5, <1>6, <1>8, <1>10 DEF q, d, p, c, a, b, R

LEMMA U32Written ==
    ASSUME NEW value
    PROVE  /\ u32Bytes(value) \in Seq(Byte) /\ Len(u32Bytes(value)) = 4
           /\ U32At(u32Bytes(value), 0) = ToUint32(value)
<1> DEFINE n == ToUint32(value)
           a == n \div (Radix * Radix * Radix)
           b == (n \div (Radix * Radix)) % Radix
           c == (n \div Radix) % Radix
           d == n % Radix
<1>1. n \in 0..(Word - 1)
    BY ToUint32Typed
<1>2. u32Bytes(value) = <<a, b, c, d>>
    BY DEF u32Bytes
<1>3. /\ a \in Byte /\ b \in Byte /\ c \in Byte /\ d \in Byte
      /\ n = (a * Radix + b) * Radix * Radix + (c * Radix + d)
  <2> HIDE DEF n
  <2> QED  BY <1>1, Digits
<1> HIDE DEF n, a, b, c, d
<1>4. U32At(<<a, b, c, d>>, 0) = (a * Radix + b) * Radix * Radix + (c * Radix + d)
    BY DEF U32At, U16At
<1>5. <<a, b, c, d>> \in Seq(Byte) /\ Len(<<a, b, c, d>>) = 4
    BY <1>3
<1> QED  BY <1>2, <1>3, <1>4, <1>5 DEF n

LEMMA DivSmall ==
    ASSUME NEW d \in Nat, d > 0, NEW n \in 0..(d - 1) PROVE n \div d = 0 /\ n % d = n
<1>1. n = d * 0 + n
    OBVIOUS
<1> QED  BY <1>1, DivUnique

\* An opcode is its last byte.
LEMMA OpcodeWritten ==
    ASSUME NEW opcode \in Byte PROVE u32Bytes(opcode) = <<0, 0, 0, opcode>>
<1>1. Radix \in Nat /\ Radix > 124 /\ opcode \in 0..(Radix - 1)
    BY RadixTyped DEF Byte
<1>2. /\ opcode \div Radix = 0 /\ opcode % Radix = opcode /\ 0 % Radix = 0 /\ 0 \div Radix = 0
  <2>1. 0 \in 0..(Radix - 1)
      BY <1>1
  <2> QED  BY <1>1, <2>1, DivSmall
<1>3. /\ opcode \div (Radix * Radix) = 0 /\ opcode \div (Radix * Radix * Radix) = 0
    BY <1>1, <1>2, DivDiv, RadixTyped
<1>4. ToUint32(opcode) = opcode
  <2>1. Word > Radix
    <3> DEFINE x == Radix * Radix * Radix
    <3>1. x \in Nat /\ x > 0 /\ Word = x * Radix
        BY RadixTyped
    <3>2. x >= 2
      <4> DEFINE y == Radix * Radix
      <4>1. y \in Nat /\ y > 0 /\ x = y * Radix
          BY RadixTyped
      <4> HIDE DEF y, x
      <4> QED  BY <1>1, <4>1
    <3> HIDE DEF x
    <3> QED  BY <1>1, <3>1, <3>2
  <2> QED  BY <1>1, <2>1, WordKept, WordTyped
<1> QED  BY <1>2, <1>3, <1>4 DEF u32Bytes

LEMMA U16Written ==
    ASSUME NEW value
    PROVE  /\ u16Bytes(value) \in Seq(Byte) /\ Len(u16Bytes(value)) = 2
           /\ U16At(u16Bytes(value), 0) = ToUint32(value) % (Radix * Radix)
<1> DEFINE n == ToUint32(value)
           R == Radix
           q == n \div R
           d == n % R
           p == q \div R
           c == q % R
<1>1. n \in Nat /\ R \in Nat /\ R > 124
    BY ToUint32Typed, WordTyped, RadixTyped
<1> HIDE DEF n, R
<1>2. q \in Nat /\ d \in 0..(R - 1) /\ n = R * q + d
    BY <1>1, DivMod
<1>3. p \in Nat /\ c \in 0..(R - 1) /\ q = R * p + c
    BY <1>1, <1>2, DivMod
<1>4. u16Bytes(value) = <<c, d>>
    BY DEF u16Bytes, n, R
<1> HIDE DEF q, d, p, c
<1>5. n = (R * R) * p + (R * c + d)
    BY <1>1, <1>2, <1>3
<1>6. R * c + d \in 0..(R * R - 1)
  <2>1. R * c \in Nat /\ R * c <= R * (R - 1) /\ R * (R - 1) = R * R - R
      BY <1>1, <1>3
  <2> QED  BY <1>1, <1>2, <2>1
<1>7. n % (R * R) = R * c + d
  <2> DEFINE S == R * R
             t == R * c + d
  <2>1. S \in Nat /\ S > 0 /\ t \in 0..(S - 1) /\ n = S * p + t
      BY <1>1, <1>5, <1>6
  <2> HIDE DEF S, t
  <2>2. n % S = t
      BY <1>3, <2>1, DivUnique
  <2> QED  BY <2>2 DEF S, t
<1>8. c \in Byte /\ d \in Byte
    BY <1>2, <1>3 DEF Byte, R
<1>9. U16At(<<c, d>>, 0) = c * R + d /\ c * R + d = R * c + d
    BY <1>1, <1>2, <1>3 DEF U16At, R
<1>10. <<c, d>> \in Seq(Byte) /\ Len(<<c, d>>) = 2
    BY <1>8
<1> QED  BY <1>4, <1>7, <1>9, <1>10 DEF n, R

\* A number lies where its bytes lie.
LEMMA U32Within ==
    ASSUME NEW bytes, NEW part, NEW offset \in Nat,
           \A i \in 1..4 : bytes[offset + i] = part[i]
    PROVE  U32At(bytes, offset) = U32At(part, 0)
<1>1. 1 \in 1..4 /\ 2 \in 1..4 /\ 3 \in 1..4 /\ 4 \in 1..4
    OBVIOUS
<1>2. /\ bytes[offset + 1] = part[1] /\ bytes[offset + 2] = part[2]
      /\ bytes[offset + 3] = part[3] /\ bytes[offset + 4] = part[4]
    BY <1>1
<1>3. offset + 2 + 1 = offset + 3 /\ offset + 2 + 2 = offset + 4
      /\ 0 + 1 = 1 /\ 0 + 2 = 2 /\ 2 + 1 = 3 /\ 2 + 2 = 4
    OBVIOUS
<1> QED  BY ONLY <1>2, <1>3 DEF U32At, U16At

LEMMA Prefixed ==
    ASSUME NEW S, NEW s \in Seq(S), NEW t \in Seq(S), Len(t) = Len(s) + 1,
           \A i \in 1..Len(s) : t[i + 1] = s[i]
    PROVE  t = <<t[1]>> \o s
<1>1. Len(s) \in Nat /\ t[1] \in S
  <2>1. Len(s) \in Nat /\ Len(t) \in Nat
      BY LenProperties
  <2>2. 1 \in 1..Len(t)
      BY <2>1
  <2> QED  BY <2>1, <2>2, ElementOfSeq
<1> DEFINE h == <<t[1]>>
<1>2. h \in Seq(S) /\ Len(h) = 1 /\ h[1] = t[1]
    BY <1>1
<1> HIDE DEF h
<1>3. /\ h \o s \in Seq(S) /\ Len(h \o s) = 1 + Len(s)
      /\ (h \o s)[1] = t[1]
      /\ \A i \in 1..Len(s) : (h \o s)[1 + i] = s[i]
  <2>0. s \in Seq(S) /\ h \in Seq(S)
      BY <1>2
  <2>1. /\ h \o s \in Seq(S) /\ Len(h \o s) = Len(h) + Len(s)
      BY <2>0, Concat, Zenon
  <2>2. \A i \in 1..Len(h) : (h \o s)[i] = h[i]
      BY <2>0, Concat, Zenon
  <2>3. \A i \in 1..Len(s) : (h \o s)[Len(h) + i] = s[i]
      BY ONLY <2>0, Concat
  <2>4. 1 \in 1..Len(h)
      BY <1>2
  <2>5. (h \o s)[1] = t[1]
      BY <1>2, <2>2, <2>4, Zenon
  <2>6. \A i \in 1..Len(s) : (h \o s)[1 + i] = s[i]
      BY <1>2, <2>3, Zenon
  <2> QED  BY <1>2, <2>1, <2>5, <2>6
<1>4. ASSUME NEW i \in 1..Len(t) PROVE t[i] = (h \o s)[i]
  <2>1. CASE i = 1
      BY <2>1, <1>3
  <2>2. CASE i # 1
    <3>1. i - 1 \in 1..Len(s) /\ (i - 1) + 1 = i /\ 1 + (i - 1) = i
        BY <1>1, <2>2
    <3>2. t[i] = s[i - 1]
        BY <3>1
    <3>3. (h \o s)[i] = s[i - 1]
        BY <1>3, <3>1
    <3> QED  BY <3>2, <3>3
  <2> QED  BY <2>1, <2>2
<1>5. t = h \o s
  <2>1. Len(t) = Len(h \o s)
      BY <1>1, <1>3
  <2> QED  BY <1>3, <1>4, <2>1, SeqEqual
<1> QED  BY <1>5 DEF h

\* The parts of a Samsara request after its opcode
Pieces(name, m) ==
    CASE name = "CREATE_DB" ->
            <<m.id, LengthOf(m.dbName), LengthOf(m.secret), u32Bytes(m.dbSize),
              u32Bytes(m.genome), m.dbName, m.secret>>
      [] name \in {"DELETE_DB", "READ_CELL"} ->
            <<m.id, u32Bytes(m.cellIndex), LengthOf(m.dbName), LengthOf(m.secret),
              m.dbName, m.secret>>
      [] name = "WRITE" ->
            <<m.id, u32Bytes(m.cellIndex), LengthOf(m.dbName), LengthOf(m.key),
              LengthOf(m.value), LengthOf(m.secret), m.dbName, m.key, m.value, m.secret>>
      [] name \in {"READ", "DELETE"} ->
            <<m.id, u32Bytes(m.cellIndex), LengthOf(m.dbName), LengthOf(m.key),
              LengthOf(m.secret), m.dbName, m.key, m.secret>>
      [] name = "READ_FREE" ->
            <<m.id, LengthOf(m.dbName), LengthOf(m.key), m.dbName, m.key>>
      [] name = "DIFERIR" ->
            <<m.id, LengthOf(m.dbName), u32Bytes(m.cellIndex), LengthOf(m.secret),
              u32Bytes(m.childGenome), u32Bytes(m.x), u32Bytes(m.y), u32Bytes(m.z),
              m.childSalt, LengthOf(m.childSecret), m.dbName, m.secret, m.childSecret>>
      [] OTHER ->
            <<m.id, LengthOf(m.dbName), u32Bytes(m.cellIndexA), u32Bytes(m.cellIndexB),
              LengthOf(m.secretA), LengthOf(m.secretB), u32Bytes(m.x), u32Bytes(m.y),
              u32Bytes(m.z), LengthOf(m.childSecret),
              m.dbName, m.secretA, m.secretB, m.childSecret>>

LEMMA FieldsTyped ==
    ASSUME NEW name \in Names, NEW m \in Messages[name]
    PROVE  /\ DOMAIN m = {"id"} \cup Fields(name)
           /\ m.id \in Seq(Byte)
           /\ \A f \in Fields(name) \ NumberFields : m[f] \in Seq(Byte) /\ Len(m[f]) < Word
<1>1. "id" \notin NumberFields
    BY DEF NumberFields
<1> QED  BY <1>1, MessagesAssumption

LEMMA WordWritten == ASSUME NEW value PROVE u32Bytes(value) \in Seq(Byte)
BY U32Written

LEMMA LengthWritten == ASSUME NEW value PROVE LengthOf(value) \in Seq(Byte)
BY U32Written DEF LengthOf

LEMMA Operation ==
    Operations = {"CREATE_DB", "DELETE_DB", "WRITE", "READ", "READ_FREE", "DELETE",
                  "READ_CELL", "DIFERIR", "CRUZAR"}
BY DEF Operations, NATIVE_OPCODES

LEMMA CreateDbPieces ==
    ASSUME NEW name \in {"CREATE_DB"}, NEW m \in Messages[name]
    PROVE  /\ Pieces(name, m) \in Seq(Seq(Byte)) /\ samsaraPayload(name, m) \in Seq(Byte)
           /\ m.id \o samsaraPayload(name, m) = FlattenSeq(Pieces(name, m))
<1> DEFINE rest == <<LengthOf(m.dbName), LengthOf(m.secret),
                       u32Bytes(m.dbSize), u32Bytes(m.genome), m.dbName,
                       m.secret>>
           all == Pieces(name, m)
<1>1. m.id \in Seq(Byte) /\ m.dbName \in Seq(Byte) /\ m.secret \in Seq(Byte)
    BY FieldsTyped, Operation DEF Names, Fields, NumberFields
<1>2. /\ rest \in Seq(Seq(Byte)) /\ all \in Seq(Seq(Byte))
      /\ Len(rest) = 6 /\ Len(all) = 7 /\ all[1] = m.id
    BY <1>1, WordWritten, LengthWritten DEF Pieces
<1>3. ASSUME NEW i \in 1..6 PROVE all[i + 1] = rest[i]
    BY DEF Pieces
<1>4. samsaraPayload(name, m) = FlattenSeq(rest)
    BY DEF samsaraPayload, concat
<1> HIDE DEF rest, all
<1>5. all = <<m.id>> \o rest
  <2>1. \A i \in 1..Len(rest) : all[i + 1] = rest[i]
      BY <1>2, <1>3
  <2>2. Len(all) = Len(rest) + 1
      BY <1>2
  <2> QED  BY <1>2, <2>1, <2>2, Prefixed, Zenon
<1> QED  BY <1>1, <1>2, <1>4, <1>5, FlattenFront, FlattenTyped DEF all

LEMMA DeleteDbPieces ==
    ASSUME NEW name \in {"DELETE_DB", "READ_CELL"}, NEW m \in Messages[name]
    PROVE  /\ Pieces(name, m) \in Seq(Seq(Byte)) /\ samsaraPayload(name, m) \in Seq(Byte)
           /\ m.id \o samsaraPayload(name, m) = FlattenSeq(Pieces(name, m))
<1> DEFINE rest == <<u32Bytes(m.cellIndex), LengthOf(m.dbName),
                       LengthOf(m.secret), m.dbName, m.secret>>
           all == Pieces(name, m)
<1>1. m.id \in Seq(Byte) /\ m.dbName \in Seq(Byte) /\ m.secret \in Seq(Byte)
    BY FieldsTyped, Operation DEF Names, Fields, NumberFields
<1>2. /\ rest \in Seq(Seq(Byte)) /\ all \in Seq(Seq(Byte))
      /\ Len(rest) = 5 /\ Len(all) = 6 /\ all[1] = m.id
    BY <1>1, WordWritten, LengthWritten DEF Pieces
<1>3. ASSUME NEW i \in 1..5 PROVE all[i + 1] = rest[i]
    BY DEF Pieces
<1>4. samsaraPayload(name, m) = FlattenSeq(rest)
    BY DEF samsaraPayload, concat
<1> HIDE DEF rest, all
<1>5. all = <<m.id>> \o rest
  <2>1. \A i \in 1..Len(rest) : all[i + 1] = rest[i]
      BY <1>2, <1>3
  <2>2. Len(all) = Len(rest) + 1
      BY <1>2
  <2> QED  BY <1>2, <2>1, <2>2, Prefixed, Zenon
<1> QED  BY <1>1, <1>2, <1>4, <1>5, FlattenFront, FlattenTyped DEF all

LEMMA WritePieces ==
    ASSUME NEW name \in {"WRITE"}, NEW m \in Messages[name]
    PROVE  /\ Pieces(name, m) \in Seq(Seq(Byte)) /\ samsaraPayload(name, m) \in Seq(Byte)
           /\ m.id \o samsaraPayload(name, m) = FlattenSeq(Pieces(name, m))
<1> DEFINE rest == <<u32Bytes(m.cellIndex), LengthOf(m.dbName),
                       LengthOf(m.key), LengthOf(m.value), LengthOf(m.secret),
                       m.dbName, m.key, m.value, m.secret>>
           all == Pieces(name, m)
<1>1. m.id \in Seq(Byte) /\ m.dbName \in Seq(Byte) /\ m.key \in Seq(Byte) /\
      m.value \in Seq(Byte) /\ m.secret \in Seq(Byte)
    BY FieldsTyped, Operation DEF Names, Fields, NumberFields
<1>2. /\ rest \in Seq(Seq(Byte)) /\ all \in Seq(Seq(Byte))
      /\ Len(rest) = 9 /\ Len(all) = 10 /\ all[1] = m.id
    BY <1>1, WordWritten, LengthWritten DEF Pieces
<1>3. ASSUME NEW i \in 1..9 PROVE all[i + 1] = rest[i]
    BY DEF Pieces
<1>4. samsaraPayload(name, m) = FlattenSeq(rest)
    BY DEF samsaraPayload, concat
<1> HIDE DEF rest, all
<1>5. all = <<m.id>> \o rest
  <2>1. \A i \in 1..Len(rest) : all[i + 1] = rest[i]
      BY <1>2, <1>3
  <2>2. Len(all) = Len(rest) + 1
      BY <1>2
  <2> QED  BY <1>2, <2>1, <2>2, Prefixed, Zenon
<1> QED  BY <1>1, <1>2, <1>4, <1>5, FlattenFront, FlattenTyped DEF all

LEMMA ReadPieces ==
    ASSUME NEW name \in {"READ", "DELETE"}, NEW m \in Messages[name]
    PROVE  /\ Pieces(name, m) \in Seq(Seq(Byte)) /\ samsaraPayload(name, m) \in Seq(Byte)
           /\ m.id \o samsaraPayload(name, m) = FlattenSeq(Pieces(name, m))
<1> DEFINE rest == <<u32Bytes(m.cellIndex), LengthOf(m.dbName),
                       LengthOf(m.key), LengthOf(m.secret), m.dbName, m.key,
                       m.secret>>
           all == Pieces(name, m)
<1>1. m.id \in Seq(Byte) /\ m.dbName \in Seq(Byte) /\ m.key \in Seq(Byte) /\
      m.secret \in Seq(Byte)
    BY FieldsTyped, Operation DEF Names, Fields, NumberFields
<1>2. /\ rest \in Seq(Seq(Byte)) /\ all \in Seq(Seq(Byte))
      /\ Len(rest) = 7 /\ Len(all) = 8 /\ all[1] = m.id
    BY <1>1, WordWritten, LengthWritten DEF Pieces
<1>3. ASSUME NEW i \in 1..7 PROVE all[i + 1] = rest[i]
    BY DEF Pieces
<1>4. samsaraPayload(name, m) = FlattenSeq(rest)
    BY DEF samsaraPayload, concat
<1> HIDE DEF rest, all
<1>5. all = <<m.id>> \o rest
  <2>1. \A i \in 1..Len(rest) : all[i + 1] = rest[i]
      BY <1>2, <1>3
  <2>2. Len(all) = Len(rest) + 1
      BY <1>2
  <2> QED  BY <1>2, <2>1, <2>2, Prefixed, Zenon
<1> QED  BY <1>1, <1>2, <1>4, <1>5, FlattenFront, FlattenTyped DEF all

LEMMA ReadFreePieces ==
    ASSUME NEW name \in {"READ_FREE"}, NEW m \in Messages[name]
    PROVE  /\ Pieces(name, m) \in Seq(Seq(Byte)) /\ samsaraPayload(name, m) \in Seq(Byte)
           /\ m.id \o samsaraPayload(name, m) = FlattenSeq(Pieces(name, m))
<1> DEFINE rest == <<LengthOf(m.dbName), LengthOf(m.key), m.dbName, m.key>>
           all == Pieces(name, m)
<1>1. m.id \in Seq(Byte) /\ m.dbName \in Seq(Byte) /\ m.key \in Seq(Byte)
    BY FieldsTyped, Operation DEF Names, Fields, NumberFields
<1>2. /\ rest \in Seq(Seq(Byte)) /\ all \in Seq(Seq(Byte))
      /\ Len(rest) = 4 /\ Len(all) = 5 /\ all[1] = m.id
    BY <1>1, WordWritten, LengthWritten DEF Pieces
<1>3. ASSUME NEW i \in 1..4 PROVE all[i + 1] = rest[i]
    BY DEF Pieces
<1>4. samsaraPayload(name, m) = FlattenSeq(rest)
    BY DEF samsaraPayload, concat
<1> HIDE DEF rest, all
<1>5. all = <<m.id>> \o rest
  <2>1. \A i \in 1..Len(rest) : all[i + 1] = rest[i]
      BY <1>2, <1>3
  <2>2. Len(all) = Len(rest) + 1
      BY <1>2
  <2> QED  BY <1>2, <2>1, <2>2, Prefixed, Zenon
<1> QED  BY <1>1, <1>2, <1>4, <1>5, FlattenFront, FlattenTyped DEF all

LEMMA DiferirPieces ==
    ASSUME NEW name \in {"DIFERIR"}, NEW m \in Messages[name]
    PROVE  /\ Pieces(name, m) \in Seq(Seq(Byte)) /\ samsaraPayload(name, m) \in Seq(Byte)
           /\ m.id \o samsaraPayload(name, m) = FlattenSeq(Pieces(name, m))
<1> DEFINE rest == <<LengthOf(m.dbName), u32Bytes(m.cellIndex),
                       LengthOf(m.secret), u32Bytes(m.childGenome),
                       u32Bytes(m.x), u32Bytes(m.y), u32Bytes(m.z),
                       m.childSalt, LengthOf(m.childSecret), m.dbName,
                       m.secret, m.childSecret>>
           all == Pieces(name, m)
<1>1. m.id \in Seq(Byte) /\ m.childSalt \in Seq(Byte) /\ m.dbName \in Seq(Byte) /\
      m.secret \in Seq(Byte) /\ m.childSecret \in Seq(Byte)
    BY FieldsTyped, Operation DEF Names, Fields, NumberFields
<1>2. /\ rest \in Seq(Seq(Byte)) /\ all \in Seq(Seq(Byte))
      /\ Len(rest) = 12 /\ Len(all) = 13 /\ all[1] = m.id
    BY <1>1, WordWritten, LengthWritten DEF Pieces
<1>3. ASSUME NEW i \in 1..12 PROVE all[i + 1] = rest[i]
    BY DEF Pieces
<1>4. samsaraPayload(name, m) = FlattenSeq(rest)
    BY DEF samsaraPayload, concat
<1> HIDE DEF rest, all
<1>5. all = <<m.id>> \o rest
  <2>1. \A i \in 1..Len(rest) : all[i + 1] = rest[i]
      BY <1>2, <1>3
  <2>2. Len(all) = Len(rest) + 1
      BY <1>2
  <2> QED  BY <1>2, <2>1, <2>2, Prefixed, Zenon
<1> QED  BY <1>1, <1>2, <1>4, <1>5, FlattenFront, FlattenTyped DEF all

LEMMA CruzarPieces ==
    ASSUME NEW name \in {"CRUZAR"}, NEW m \in Messages[name]
    PROVE  /\ Pieces(name, m) \in Seq(Seq(Byte)) /\ samsaraPayload(name, m) \in Seq(Byte)
           /\ m.id \o samsaraPayload(name, m) = FlattenSeq(Pieces(name, m))
<1> DEFINE rest == <<LengthOf(m.dbName), u32Bytes(m.cellIndexA),
                       u32Bytes(m.cellIndexB), LengthOf(m.secretA),
                       LengthOf(m.secretB), u32Bytes(m.x), u32Bytes(m.y),
                       u32Bytes(m.z), LengthOf(m.childSecret), m.dbName,
                       m.secretA, m.secretB, m.childSecret>>
           all == Pieces(name, m)
<1>1. m.id \in Seq(Byte) /\ m.dbName \in Seq(Byte) /\ m.secretA \in Seq(Byte) /\
      m.secretB \in Seq(Byte) /\ m.childSecret \in Seq(Byte)
    BY FieldsTyped, Operation DEF Names, Fields, NumberFields
<1>2. /\ rest \in Seq(Seq(Byte)) /\ all \in Seq(Seq(Byte))
      /\ Len(rest) = 13 /\ Len(all) = 14 /\ all[1] = m.id
    BY <1>1, WordWritten, LengthWritten DEF Pieces
<1>3. ASSUME NEW i \in 1..13 PROVE all[i + 1] = rest[i]
    BY DEF Pieces
<1>4. samsaraPayload(name, m) = FlattenSeq(rest)
    BY DEF samsaraPayload, concat
<1> HIDE DEF rest, all
<1>5. all = <<m.id>> \o rest
  <2>1. \A i \in 1..Len(rest) : all[i + 1] = rest[i]
      BY <1>2, <1>3
  <2>2. Len(all) = Len(rest) + 1
      BY <1>2
  <2> QED  BY <1>2, <2>1, <2>2, Prefixed, Zenon
<1> QED  BY <1>1, <1>2, <1>4, <1>5, FlattenFront, FlattenTyped DEF all

LEMMA OperationPieces ==
    ASSUME NEW name \in Operations, NEW m \in Messages[name]
    PROVE  /\ Pieces(name, m) \in Seq(Seq(Byte)) /\ samsaraPayload(name, m) \in Seq(Byte)
           /\ m.id \o samsaraPayload(name, m) = FlattenSeq(Pieces(name, m))
<1>1. CASE name \in {"CREATE_DB"}
    BY <1>1, CreateDbPieces, Zenon
<1>2. CASE name \in {"DELETE_DB", "READ_CELL"}
    BY <1>2, DeleteDbPieces, Zenon
<1>3. CASE name \in {"WRITE"}
    BY <1>3, WritePieces, Zenon
<1>4. CASE name \in {"READ", "DELETE"}
    BY <1>4, ReadPieces, Zenon
<1>5. CASE name \in {"READ_FREE"}
    BY <1>5, ReadFreePieces, Zenon
<1>6. CASE name \in {"DIFERIR"}
    BY <1>6, DiferirPieces, Zenon
<1>7. CASE name \in {"CRUZAR"}
    BY <1>7, CruzarPieces, Zenon
<1> QED  BY <1>1, <1>2, <1>3, <1>4, <1>5, <1>6, <1>7, Operation

LEMMA FlattenTwo ==
    ASSUME NEW S, NEW a \in Seq(S), NEW b \in Seq(S) PROVE FlattenSeq(<<a, b>>) = a \o b
<1>1. <<b>> \in Seq(Seq(S))
    OBVIOUS
<1>2. <<a, b>> = <<a>> \o <<b>>
  <2> DEFINE s == <<b>>
             t == <<a, b>>
  <2>1. /\ s \in Seq(Seq(S)) /\ t \in Seq(Seq(S)) /\ Len(t) = Len(s) + 1 /\ t[1] = a
        /\ \A i \in 1..Len(s) : t[i + 1] = s[i]
      OBVIOUS
  <2> HIDE DEF s, t
  <2>2. t = <<t[1]>> \o s
      BY <2>1, Prefixed, Zenon
  <2> QED  BY <2>1, <2>2 DEF s, t
<1>3. FlattenSeq(<<a>> \o <<b>>) = a \o FlattenSeq(<<b>>)
    BY <1>1, FlattenFront
<1>4. FlattenSeq(<<b>>) = b
    BY FlattenOne
<1> QED  BY ONLY <1>2, <1>3, <1>4, Zenon

LEMMA FlattenThree ==
    ASSUME NEW S, NEW a \in Seq(S), NEW b \in Seq(S), NEW c \in Seq(S)
    PROVE  FlattenSeq(<<a, b, c>>) = a \o FlattenSeq(<<b, c>>)
<1>1. <<b, c>> \in Seq(Seq(S))
    OBVIOUS
<1>2. <<a, b, c>> = <<a>> \o <<b, c>>
    OBVIOUS
<1>3. FlattenSeq(<<a>> \o <<b, c>>) = a \o FlattenSeq(<<b, c>>)
    BY <1>1, FlattenFront
<1> QED  BY ONLY <1>2, <1>3, Zenon

LEMMA FlattenFour ==
    ASSUME NEW S, NEW a \in Seq(S), NEW b \in Seq(S), NEW c \in Seq(S), NEW d \in Seq(S)
    PROVE  FlattenSeq(<<a, b, c, d>>) = a \o FlattenSeq(<<b, c, d>>)
<1>1. <<b, c, d>> \in Seq(Seq(S))
    OBVIOUS
<1>2. <<a, b, c, d>> = <<a>> \o <<b, c, d>>
    OBVIOUS
<1>3. FlattenSeq(<<a>> \o <<b, c, d>>) = a \o FlattenSeq(<<b, c, d>>)
    BY <1>1, FlattenFront
<1> QED  BY ONLY <1>2, <1>3, Zenon

LEMMA OpcodeTables ==
    /\ \A name \in Operations : /\ NATIVE_OPCODES[name] \in 0..8
                                /\ EXTERNAL_OPCODES[name] = OP[name] /\ OP[name] \in SamsaraOps
    /\ \A name \in CardNames \cup EventNames :
          SYNAP2P_OPCODES[name] = OP[name] /\ OP[name] \in 1..16 /\ OP[name] \notin SamsaraOps
    /\ \A name \in CardNames : CardOf[name].opcode = OP[name]
    /\ \A name \in CardNames : SYNAP2P_EXTERNAL_OPCODES[name] = OP[name] - 1
    /\ OP["RELAY"] = 1
    /\ Operations \cap (CardNames \cup EventNames) = {}
<1>0. SamsaraOps = 32..40
    BY DEF SamsaraOps, OP, SynapOps
<1>1. ASSUME NEW name \in Operations
      PROVE  /\ NATIVE_OPCODES[name] \in 0..8
             /\ EXTERNAL_OPCODES[name] = OP[name] /\ OP[name] \in SamsaraOps
    BY <1>0, Operation DEF NATIVE_OPCODES, EXTERNAL_OPCODES, OP, SynapOps
<1>2. ASSUME NEW name \in CardNames \cup EventNames
      PROVE  SYNAP2P_OPCODES[name] = OP[name] /\ OP[name] \in 1..16 /\ OP[name] \notin SamsaraOps
  <2>1. SYNAP2P_OPCODES[name] = OP[name]
      BY DEF SYNAP2P_OPCODES, CardNames, EventNames, OP, SynapOps
  <2>2. OP[name] \in 1..16
      BY DEF CardNames, EventNames, OP, SynapOps
  <2> QED  BY <1>0, <2>1, <2>2
<1>3. ASSUME NEW name \in CardNames PROVE CardOf[name].opcode = SYNAP2P_OPCODES[name]
    BY DEF CardOf, CardNames, Card, relay, dial, sub, use, unsub, announce, unannounce,
           disconnect, pub, directMsg, peers, findProviders, generateCid
<1>4. Operations \cap (CardNames \cup EventNames) = {}
    BY Operation DEF CardNames, EventNames
<1>5. ASSUME NEW name \in CardNames PROVE SYNAP2P_EXTERNAL_OPCODES[name] = OP[name] - 1
    BY DEF SYNAP2P_EXTERNAL_OPCODES, CardNames, OP, SynapOps
<1>6. OP["RELAY"] = 1
    BY DEF OP, SynapOps
<1> QED  BY <1>1, <1>2, <1>3, <1>4, <1>5, <1>6

\* What follows the id in a request, whoever sends it
Payload(name, m) ==
    IF name \in Operations THEN samsaraPayload(name, m) ELSE synapPayload(name, m)

\* The opcode in front
Opcode(foreign, name) ==
    CASE foreign /\ name \in Operations -> NATIVE_OPCODES[name]
      [] foreign /\ name \notin Operations -> SYNAP2P_EXTERNAL_OPCODES[name]
      [] OTHER -> OP[name]

LEMMA SynapPayloadTyped ==
    ASSUME NEW name \in CardNames, NEW m \in Messages[name]
    PROVE  synapPayload(name, m) \in Seq(Byte)
<1>1. /\ DOMAIN m = {"id"} \cup Fields(name)
      /\ \A f \in Fields(name) \ NumberFields : m[f] \in Seq(Byte)
    BY FieldsTyped DEF Names
<1>2. CASE name \in {"RELAY", "DIAL"}
    BY <1>1, <1>2 DEF Fields, NumberFields, synapPayload
<1>3. CASE name \in {"SUB", "USE", "UNSUB"}
    BY <1>1, <1>3 DEF Fields, NumberFields, synapPayload
<1>4. CASE name = "PUB"
  <2>1. m.topic \in Seq(Byte) /\ m.message \in Seq(Byte)
      BY <1>1, <1>4 DEF Fields, NumberFields
  <2>2. <<124>> \in Seq(Byte)
      BY RadixTyped DEF Byte
  <2>3. m.topic \o <<124>> \o m.message \in Seq(Byte)
      BY <2>1, <2>2, ConcatProperties
  <2> QED  BY <1>4, <2>3 DEF synapPayload
<1>5. CASE name = "PEERS"
    BY <1>5 DEF synapPayload
<1>6. CASE name \in {"ANNOUNCE", "UNANNOUNCE", "FIND_PROVIDERS"}
    BY <1>1, <1>6 DEF Fields, NumberFields, synapPayload
<1>7. CASE name = "DIRECT_MSG"
  <2>1. m.peerId \in Seq(Byte) /\ m.data \in Seq(Byte)
      BY <1>1, <1>7 DEF Fields, NumberFields
  <2>2. u16Bytes(Len(m.peerId)) \in Seq(Byte)
      BY U16Written
  <2>3. synapPayload(name, m) = concat(<<u16Bytes(Len(m.peerId)), m.peerId, m.data>>)
      BY <1>7 DEF synapPayload
  <2>4. <<u16Bytes(Len(m.peerId)), m.peerId, m.data>> \in Seq(Seq(Byte))
      BY <2>1, <2>2
  <2> QED  BY <2>3, <2>4, FlattenTyped DEF concat
<1>8. CASE name = "DISCONNECT"
    BY <1>1, <1>8 DEF Fields, NumberFields, synapPayload
<1>9. CASE name = "GENERATE_CID"
    BY <1>1, <1>9 DEF Fields, NumberFields, synapPayload
<1> QED  BY <1>2, <1>3, <1>4, <1>5, <1>6, <1>7, <1>8, <1>9 DEF CardNames

LEMMA PayloadTyped ==
    ASSUME NEW name \in Names, NEW m \in Messages[name] PROVE Payload(name, m) \in Seq(Byte)
BY OperationPieces, SynapPayloadTyped DEF Payload, Names

\* The functions of an operation put its parts behind its opcode.
LEMMA ReqBytesPieces ==
    ASSUME NEW name \in Operations, NEW m
    PROVE  ReqBytes(name, m) = buildOpcodeMessage(NATIVE_OPCODES[name], Pieces(name, m))
<1> USE DEF ReqBytes, Pieces, NATIVE_OPCODES
<1>1. CASE name = "CREATE_DB"
    BY <1>1 DEF createDbReqBytes
<1>2. CASE name = "DELETE_DB"
    BY <1>2 DEF deleteDbReqBytes
<1>3. CASE name = "WRITE"
    BY <1>3 DEF writeReqBytes
<1>4. CASE name = "READ"
    BY <1>4 DEF readReqBytes
<1>5. CASE name = "READ_FREE"
    BY <1>5 DEF readFreeReqBytes
<1>6. CASE name = "DELETE"
    BY <1>6 DEF deleteReqBytes
<1>7. CASE name = "READ_CELL"
    BY <1>7 DEF readCellReqBytes
<1>8. CASE name = "DIFERIR"
    BY <1>8 DEF diferirReqBytes
<1>9. CASE name = "CRUZAR"
    BY <1>9 DEF cruzarReqBytes
<1> QED  BY <1>1, <1>2, <1>3, <1>4, <1>5, <1>6, <1>7, <1>8, <1>9, Operation

\* An opcode, an id and what follows
LEMMA Composed ==
    ASSUME NEW opcode \in Byte, NEW id \in Seq(Byte), NEW payload \in Seq(Byte)
    PROVE  /\ buildRequestFrame(opcode, id, payload) = OpcodeFrame(opcode, id, payload)
           /\ buildSinglePayloadRequest(opcode, payload, id) = OpcodeFrame(opcode, id, payload)
<1>1. u32Bytes(opcode) \in Seq(Byte) /\ u32Bytes(opcode) = <<0, 0, 0, opcode>>
    BY U32Written, OpcodeWritten
<1>2. FlattenSeq(<<u32Bytes(opcode), id, payload>>) = u32Bytes(opcode) \o FlattenSeq(<<id, payload>>)
    BY <1>1, FlattenThree, Zenon
<1>3. FlattenSeq(<<u32Bytes(opcode)>> \o <<id, payload>>) = u32Bytes(opcode) \o FlattenSeq(<<id, payload>>)
  <2>1. <<id, payload>> \in Seq(Seq(Byte))
      OBVIOUS
  <2> QED  BY <1>1, <2>1, FlattenFront, Zenon
<1>4. FlattenSeq(<<id, payload>>) = id \o payload
    BY FlattenTwo, Zenon
<1>5. buildRequestFrame(opcode, id, payload) = OpcodeFrame(opcode, id, payload)
    BY <1>1, <1>2, <1>4, Zenon DEF buildRequestFrame, concat, OpcodeFrame
<1>6. buildSinglePayloadRequest(opcode, payload, id) = OpcodeFrame(opcode, id, payload)
    BY <1>1, <1>3, <1>4, Zenon DEF buildSinglePayloadRequest, buildOpcodeMessage, concatBytes, OpcodeFrame
<1> QED  BY <1>5, <1>6

LEMMA DirectComposed ==
    ASSUME NEW opcode \in Byte, NEW id \in Seq(Byte), NEW peerId \in Seq(Byte), NEW data \in Seq(Byte)
    PROVE  buildDirectMsgRequest(opcode, peerId, data, id)
             = OpcodeFrame(opcode, id, concat(<<u16Bytes(Len(peerId)), peerId, data>>))
<1> DEFINE length == u16Bytes(Len(peerId))
<1>1. length \in Seq(Byte)
    BY U16Written
<1> HIDE DEF length
<1>2. u32Bytes(opcode) \in Seq(Byte) /\ u32Bytes(opcode) = <<0, 0, 0, opcode>>
    BY U32Written, OpcodeWritten
<1>3. FlattenSeq(<<u32Bytes(opcode)>> \o <<id, length, peerId, data>>)
        = u32Bytes(opcode) \o FlattenSeq(<<id, length, peerId, data>>)
  <2>1. <<id, length, peerId, data>> \in Seq(Seq(Byte))
      BY <1>1
  <2> QED  BY <1>2, <2>1, FlattenFront, Zenon
<1>4. FlattenSeq(<<id, length, peerId, data>>) = id \o FlattenSeq(<<length, peerId, data>>)
    BY <1>1, FlattenFour, ZenonT(60)
<1> QED
    BY <1>2, <1>3, <1>4, Zenon
    DEF buildDirectMsgRequest, buildOpcodeMessage, concatBytes, OpcodeFrame, concat, length

\* The page and the library write a request with the same bytes, but for the opcode of
\* a Samsara request (two pieces of code for one format).
THEOREM OneFormat ==
    ASSUME NEW sender \in {"page", "library"}, NEW name \in Names, NEW m \in Messages[name]
    PROVE  ReqFrame(sender, name, m) =
             OpcodeFrame(Opcode(sender = "library" /\ name \in Operations, name), m.id, Payload(name, m))
<1>1. m.id \in Seq(Byte) /\ Payload(name, m) \in Seq(Byte)
    BY FieldsTyped, PayloadTyped
<1>2. OP[name] \in Byte
  <2>1. SamsaraOps = 32..40
      BY DEF SamsaraOps, OP, SynapOps
  <2> QED  BY <2>1, OpcodeTables, RadixTyped DEF Names, Byte
<1>3. CASE sender = "page"
  <2>1. ReqFrame(sender, name, m) = buildRequestFrame(OP[name], m.id, Payload(name, m))
      BY <1>3, OpcodeTables DEF ReqFrame, buildFrame, Payload, Names
  <2> QED  BY <1>1, <1>2, <1>3, <2>1, Composed DEF Opcode
<1>4. CASE sender = "library" /\ name \in Operations
  <2>1. ReqFrame(sender, name, m) = FlattenSeq(<<u32Bytes(NATIVE_OPCODES[name])>> \o Pieces(name, m))
      BY <1>4, ReqBytesPieces DEF ReqFrame, buildOpcodeMessage, concatBytes
  <2>2. NATIVE_OPCODES[name] \in Byte
      BY <1>4, OpcodeTables, RadixTyped DEF Byte
  <2>3. /\ u32Bytes(NATIVE_OPCODES[name]) \in Seq(Byte)
        /\ u32Bytes(NATIVE_OPCODES[name]) = <<0, 0, 0, NATIVE_OPCODES[name]>>
      BY <2>2, U32Written, OpcodeWritten
  <2>4. /\ Pieces(name, m) \in Seq(Seq(Byte))
        /\ m.id \o samsaraPayload(name, m) = FlattenSeq(Pieces(name, m))
      BY <1>4, OperationPieces
  <2>5. FlattenSeq(<<u32Bytes(NATIVE_OPCODES[name])>> \o Pieces(name, m))
          = u32Bytes(NATIVE_OPCODES[name]) \o FlattenSeq(Pieces(name, m))
      BY <2>3, <2>4, FlattenFront, Zenon
  <2> QED  BY <1>4, <2>1, <2>3, <2>4, <2>5, Zenon DEF Opcode, OpcodeFrame, Payload
<1>5. CASE sender = "library" /\ name \notin Operations
  <2>1. name \in CardNames /\ CardOf[name].opcode = OP[name]
      BY <1>5, OpcodeTables DEF Names
  <2>2. ReqFrame(sender, name, m) = synapReqBytes(CardOf[name], m)
      BY <1>5 DEF ReqFrame
  <2>3. Payload(name, m) = synapPayload(name, m)
      BY <1>5 DEF Payload
  <2>4. CASE name = "DIRECT_MSG"
    <3>1. synapReqBytes(CardOf[name], m) = buildDirectMsgRequest(OP[name], m.peerId, m.data, m.id)
        BY <2>1, <2>4 DEF synapReqBytes, CardOf, directMsg, Card
    <3>2. synapPayload(name, m) = concat(<<u16Bytes(Len(m.peerId)), m.peerId, m.data>>)
        BY <2>4 DEF synapPayload
    <3>3. m.peerId \in Seq(Byte) /\ m.data \in Seq(Byte)
        BY <2>4, FieldsTyped DEF Fields, NumberFields
    <3>4. buildDirectMsgRequest(OP[name], m.peerId, m.data, m.id)
            = OpcodeFrame(OP[name], m.id, concat(<<u16Bytes(Len(m.peerId)), m.peerId, m.data>>))
        BY <1>1, <1>2, <3>3, DirectComposed, Zenon
    <3> QED  BY <1>5, <2>2, <2>3, <3>1, <3>2, <3>4, Zenon DEF Opcode
  <2>5. CASE name # "DIRECT_MSG"
    <3>1. synapReqBytes(CardOf[name], m)
            = buildSinglePayloadRequest(OP[name], synapPayload(name, m), m.id)
        BY ZenonT(60), <2>1, <2>5 DEF synapReqBytes, CardOf, CardNames, Card, relay, dial, sub, use,
           unsub, announce, unannounce, disconnect, pub, peers, findProviders, generateCid,
           synapPayload, pubPayloadBytes, Bar
    <3> QED  BY <1>1, <1>2, <1>5, <2>2, <2>3, <3>1, Composed, Zenon DEF Opcode
  <2> QED  BY <2>4, <2>5
<1> QED  BY <1>3, <1>4, <1>5

--------------------------------------------------------------------------------
(***************************************************************************)
(* The exchange.                                                           *)
(***************************************************************************)
AskedOpcode == Opcode(ask.foreign, ask.name)

\* The bytes of the request that was composed, once it has its opcode
Whole == OpcodeFrame(AskedOpcode, ask.fields.id, Payload(ask.name, ask.fields))

\* A request, and what has come of its bytes
Asked ==
    /\ DOMAIN ask = {"sender", "name", "fields", "whole", "foreign"}
    /\ ask.sender \in {"page", "library"} /\ ask.name \in Names
    /\ ask.fields \in Messages[ask.name] /\ IsId(ask.fields.id)
    /\ ask.whole \in BOOLEAN /\ ask.foreign \in BOOLEAN
    /\ ask.foreign => ask.sender = "library"
    /\ ask.whole => frame = Whole
    /\ ~ask.whole => \E length \in 0..(Len(Whole) - 1) : frame = Slice(Whole, 0, length)

Reading ==
    IF verdict.target = "samsara" THEN Req(ServedName, frame)
    ELSE synapReq(CardOf[ServedName], frame)

\* Bytes that say what the answer means
Envelope == \E code \in {50000, 50001, 50004} : reply = errorResult(verdict.id, code, Info)

Failure ==
    IF verdict.target = "samsara" THEN reply = verdict.id \o u32Bytes(0)
    ELSE reply = buildErrorResponse(verdict.opcode, verdict.id)

Success ==
    \E r \in Results[ServedName] :
        /\ answer.result = [r EXCEPT !.id = verdict.id]
        /\ reply = CASE verdict.target = "samsara" -> ResultBytes(ServedName, answer.result)
                     [] verdict.target # "samsara" /\ "data" \in DOMAIN r ->
                           DataBytes(CardOf[ServedName], verdict.id, r.data)
                     [] OTHER -> buildSuccessResponse(verdict.opcode, verdict.id)

Replied ==
    \/ answer.kind = "envelope" /\ Envelope
    \/ answer.kind = "failed" /\ verdict.target # "unknown" /\ Failure
    \/ answer.kind = "done" /\ verdict.target # "unknown" /\ Success

\* Where a reply has come to
Routed ==
    /\ stage = "answered" => verdict.target = "synap2p"
    /\ stage = "broadcast" => verdict.target = "synap2p" /\ IsEvent(reply)
    /\ stage = "lost" => verdict.target = "synap2p" /\ synapResponseID(reply) # verdict.id

Stages == {"idle", "sent", "accepted", "read", "answered", "delivered", "broadcast", "lost", "shown"}

ExchangeInv ==
    /\ stage \in Stages
    /\ stage = "idle" => verdict = None /\ answer = None
    /\ stage = "sent" => verdict = None /\ answer = None /\ Asked
    /\ verdict # None => Asked /\ verdict = classifyFrame(frame)
    /\ stage \in {"accepted", "read"} => verdict # None /\ verdict.target # "unknown" /\ answer = None
    /\ stage = "read" => parsed = Reading
    /\ stage \in {"answered", "delivered", "broadcast", "lost", "shown"} =>
          IF answer.kind = "event" THEN verdict = None
          ELSE verdict # None /\ Replied /\ Routed
    /\ stage = "shown" =>
          shown = IF ask.sender = "page" THEN inspectIncomingFrame(reply, Remembered)
                  ELSE LibraryReads

--------------------------------------------------------------------------------
LEMMA OpcodesTyped ==
    /\ \A name \in Names : OP[name] \in Byte
    /\ \A name \in Operations : NATIVE_OPCODES[name] \in Byte
    /\ \A name \in CardNames : SYNAP2P_EXTERNAL_OPCODES[name] \in Byte
    /\ \A foreign \in BOOLEAN, name \in Names : Opcode(foreign, name) \in Byte
<1>1. SamsaraOps = 32..40
    BY DEF SamsaraOps, OP, SynapOps
<1>2. \A name \in Names : OP[name] \in Byte
    BY <1>1, OpcodeTables, RadixTyped DEF Names, Byte
<1>3. \A name \in Operations : NATIVE_OPCODES[name] \in Byte
    BY OpcodeTables, RadixTyped DEF Byte
<1>4. \A name \in CardNames : SYNAP2P_EXTERNAL_OPCODES[name] \in Byte
    BY OpcodeTables, RadixTyped DEF Byte
<1> QED  BY <1>2, <1>3, <1>4 DEF Opcode, Names

LEMMA CardRange ==
    /\ \A name \in CardNames : OP[name] \in OpcodeRequestMin..OpcodeRequestMax
    /\ \A name \in EventNames : OP[name] \in OpcodeEventMin..OpcodeEventMax
    /\ \A name \in Operations : OP[name] \in OpcodeNamespaceMin..OpcodeNamespaceMax
    /\ OpcodeRequestMin >= 1 /\ OpcodeEventMax = 16 /\ OpcodeRequestMax < 14
    /\ \A opcode \in OpcodeRequestMin..OpcodeRequestMax :
          \E name \in CardNames : OP[name] = opcode
<1>1. /\ \A name \in CardNames : OP[name] \in OpcodeRequestMin..OpcodeRequestMax
      /\ \A name \in EventNames : OP[name] \in OpcodeEventMin..OpcodeEventMax
      /\ \A opcode \in OpcodeRequestMin..OpcodeRequestMax :
            \E name \in CardNames : OP[name] = opcode
      /\ \A opcode \in OpcodeEventMin..OpcodeEventMax :
            \E name \in EventNames : OP[name] = opcode
    BY OpcodeTables, CardOpcodesAssumption
<1>2. \A name \in Operations : OP[name] \in OpcodeNamespaceMin..OpcodeNamespaceMax
    BY OpcodeTables, CardOpcodesAssumption
<1>3. /\ OP["EVENT_PUBSUB"] = 14 /\ OP["EVENT_PEER_FOUND"] = 16
      /\ "EVENT_PUBSUB" \in EventNames /\ "EVENT_PEER_FOUND" \in EventNames
    BY DEF OP, SynapOps, EventNames
<1>4. \A name \in CardNames \cup EventNames : OP[name] \in 1..16
    BY OpcodeTables
<1>5. /\ OpcodeRequestMin \in Int /\ OpcodeRequestMax \in Int /\ OpcodeEventMin \in Int
      /\ OpcodeEventMax \in Int /\ OpcodeRequestMin <= OpcodeRequestMax
      /\ OpcodeRequestMax < OpcodeEventMin /\ OpcodeEventMin <= OpcodeEventMax
    BY OpcodeAssumption, RadixTyped DEF Byte
<1>6. OpcodeRequestMin >= 1
  <2>1. OpcodeRequestMin \in OpcodeRequestMin..OpcodeRequestMax
      BY <1>5
  <2> QED  BY <1>1, <1>4, <1>5, <2>1
<1>7. OpcodeEventMax = 16
  <2>1. OpcodeEventMax \in OpcodeEventMin..OpcodeEventMax
      BY <1>5
  <2>2. OpcodeEventMax <= 16
      BY <1>1, <1>4, <2>1
  <2>3. 16 \in OpcodeEventMin..OpcodeEventMax
      BY <1>1, <1>3
  <2> QED  BY <1>5, <2>2, <2>3
<1>8. OpcodeRequestMax < 14
  <2>1. 14 \in OpcodeEventMin..OpcodeEventMax
      BY <1>1, <1>3
  <2> QED  BY <1>5, <2>1
<1> QED  BY <1>1, <1>2, <1>6, <1>7, <1>8

LEMMA SliceTyped ==
    ASSUME NEW S, NEW bytes \in Seq(S), NEW n \in 0..Len(bytes)
    PROVE  /\ Slice(bytes, 0, n) \in Seq(S) /\ Len(Slice(bytes, 0, n)) = n
           /\ \A i \in 1..n : Slice(bytes, 0, n)[i] = bytes[i]
<1>1. Len(bytes) \in Nat
    BY LenProperties
<1>2. Slice(bytes, 0, n) = SubSeq(bytes, 1, n)
    BY <1>1 DEF Slice
<1>3. ASSUME NEW i \in 1..n PROVE bytes[i] \in S
    BY <1>1, ElementOfSeq
<1>4. /\ SubSeq(bytes, 1, n) \in Seq(S)
      /\ Len(SubSeq(bytes, 1, n)) = IF 1 <= n THEN n - 1 + 1 ELSE 0
      /\ \A i \in 1..(n - 1 + 1) : SubSeq(bytes, 1, n)[i] = bytes[1 + i - 1]
  <2>1. 1 \in Int /\ n \in Int
      BY <1>1
  <2> QED  BY <1>3, <2>1, SubSeqProperties
<1>5. ASSUME NEW i \in 1..n PROVE SubSeq(bytes, 1, n)[i] = bytes[i]
  <2>1. i \in 1..(n - 1 + 1) /\ 1 + i - 1 = i
      BY <1>1
  <2> QED  BY <1>4, <2>1
<1>6. Len(SubSeq(bytes, 1, n)) = n
    BY <1>1, <1>4
<1> QED  BY <1>2, <1>4, <1>5, <1>6, Zenon

LEMMA MessageTyped ==
    ASSUME Asked
    PROVE  /\ ask.fields.id \in Id /\ AskedOpcode \in Byte
           /\ Payload(ask.name, ask.fields) \in Seq(Byte)
<1>1. ask.fields.id \in Seq(Byte) /\ Len(ask.fields.id) = 16
    BY FieldsTyped DEF Asked, IsId
<1> QED  BY <1>1, PayloadTyped, OpcodesTyped DEF Asked, Id, AskedOpcode

\* What there is of a frame is as it was composed.
LEMMA AskedFrame ==
    ASSUME Asked
    PROVE  /\ Whole \in Seq(Byte) /\ frame \in Seq(Byte) /\ Len(frame) \in Nat
           /\ Len(Whole) \in Nat /\ Len(Whole) >= 20
           /\ ask.whole => frame = Whole
           /\ ~ask.whole => Len(frame) < Len(Whole)
           /\ \A i \in 1..Len(frame) : frame[i] = Whole[i]
           /\ Len(frame) >= 20 =>
                /\ frame[1] = 0 /\ frame[2] = 0 /\ frame[3] = 0 /\ frame[4] = AskedOpcode
                /\ requestIDFromFrame(frame) = ask.fields.id
<1>1. /\ Whole \in Seq(Byte) /\ Len(Whole) \in Nat /\ Len(Whole) >= 20
      /\ Whole[1] = 0 /\ Whole[2] = 0 /\ Whole[3] = 0 /\ Whole[4] = AskedOpcode
      /\ requestIDFromFrame(Whole) = ask.fields.id
  <2> DEFINE opcode == AskedOpcode
             id == ask.fields.id
             payload == Payload(ask.name, ask.fields)
             bytes == Whole
  <2>1. /\ opcode \in Byte /\ id \in Id /\ payload \in Seq(Byte)
        /\ bytes = OpcodeFrame(opcode, id, payload)
      BY MessageTyped DEF Whole
  <2> HIDE DEF opcode, id, payload, bytes
  <2>2. /\ bytes \in Seq(Byte) /\ Len(bytes) \in Nat /\ Len(bytes) >= 20
        /\ bytes[1] = 0 /\ bytes[2] = 0 /\ bytes[3] = 0 /\ bytes[4] = opcode
      BY SMTT(30), <2>1, FrameParts
  <2>3. requestIDFromFrame(bytes) = id
      BY <2>1, FrameId, Zenon
  <2> QED  BY <2>2, <2>3 DEF opcode, id, payload, bytes
<1>2. /\ frame \in Seq(Byte) /\ Len(frame) \in Nat
      /\ \A i \in 1..Len(frame) : frame[i] = Whole[i]
      /\ ~ask.whole => Len(frame) < Len(Whole)
  <2>1. CASE ask.whole
      BY <1>1, <2>1 DEF Asked
  <2>2. CASE ~ask.whole
    <3>1. PICK n \in 0..(Len(Whole) - 1) : frame = Slice(Whole, 0, n)
        BY <2>2 DEF Asked
    <3>2. n \in 0..Len(Whole) /\ n \in Nat /\ n < Len(Whole)
      <4>1. n \in 0..(Len(Whole) - 1) /\ Len(Whole) \in Nat
          BY <1>1, <3>1
      <4> QED  BY ONLY <4>1
    <3>3. frame \in Seq(Byte) /\ Len(frame) = n /\ \A i \in 1..n : frame[i] = Whole[i]
        BY <1>1, <3>1, <3>2, SliceTyped
    <3> QED  BY <3>2, <3>3
  <2> QED  BY <2>1, <2>2
<1>3. ASSUME Len(frame) >= 20
      PROVE  /\ frame[1] = 0 /\ frame[2] = 0 /\ frame[3] = 0 /\ frame[4] = AskedOpcode
             /\ requestIDFromFrame(frame) = ask.fields.id
  <2>1. ASSUME NEW i \in 1..20 PROVE frame[i] = Whole[i]
      BY <1>2, <1>3
  <2>2. ASSUME NEW i \in 1..16
        PROVE  i + 4 <= Len(frame) /\ i + 4 <= Len(Whole) /\ frame[i + 4] = Whole[i + 4]
    <3>1. i + 4 \in 1..20
        OBVIOUS
    <3>2. i + 4 <= Len(frame) /\ i + 4 <= Len(Whole)
        BY <1>1, <1>2, <1>3
    <3> QED  BY <2>1, <3>1, <3>2
  <2>3. 1 \in 1..20 /\ 2 \in 1..20 /\ 3 \in 1..20 /\ 4 \in 1..20
      OBVIOUS
  <2>4. requestIDFromFrame(frame) = requestIDFromFrame(Whole)
      BY <2>2 DEF requestIDFromFrame
  <2> QED  BY ONLY <1>1, <2>1, <2>3, <2>4
<1> QED  BY <1>1, <1>2, <1>3 DEF Asked

\* What the dispatcher makes of it
LEMMA AskedClassified ==
    ASSUME Asked, Len(frame) >= 20
    PROVE  /\ classifyFrame(frame).opcode = AskedOpcode
           /\ classifyFrame(frame).id = ask.fields.id
           /\ classifyFrame(frame).target =
                CASE AskedOpcode \in OpcodeRequestMin..OpcodeRequestMax -> "synap2p"
                  [] AskedOpcode \in OpcodeNamespaceMin..OpcodeNamespaceMax -> "samsara"
                  [] OTHER -> "unknown"
<1>1. frame[4] = AskedOpcode /\ Len(frame) \in Nat
    BY AskedFrame
<1>2. requestIDFromFrame(frame) = ask.fields.id
    BY AskedFrame
<1>3. ~(Len(frame) < 20)
    BY <1>1
<1>4. AskedOpcode \in OpcodeRequestMin..OpcodeRequestMax
        => AskedOpcode \notin OpcodeNamespaceMin..OpcodeNamespaceMax
    BY OpcodeAssumption, RadixTyped DEF Byte
<1> QED  BY <1>1, <1>2, <1>3, <1>4 DEF classifyFrame, Classified, Unknown

\* Less than an id and an opcode go nowhere.
LEMMA ShortClassified ==
    ASSUME Asked, ~(Len(frame) >= 20)
    PROVE  classifyFrame(frame).target = "unknown"
<1>1. Len(frame) < 20
    BY AskedFrame
<1> QED  BY <1>1 DEF classifyFrame, Classified, Unknown

LEMMA Verdicts ==
    /\ \A bytes : classifyFrame(bytes) # None
    /\ \A bytes : classifyFrame(bytes).target \in {"unknown", "synap2p", "samsara"}
    /\ \A bytes : classifyFrame(bytes).target = "unknown" =>
          \E code \in {50000, 50001} :
              classifyFrame(bytes).rejection = errorResult(classifyFrame(bytes).id, code, Info)
<1>1. ASSUME NEW bytes
      PROVE  /\ classifyFrame(bytes) # None
             /\ classifyFrame(bytes).target \in {"unknown", "synap2p", "samsara"}
             /\ classifyFrame(bytes).target = "unknown" =>
                  \E code \in {50000, 50001} :
                      classifyFrame(bytes).rejection = errorResult(classifyFrame(bytes).id, code, Info)
  <2>1. classifyFrame(bytes) \in
            {Unknown(0, requestIDFromFrame(bytes), ErrorCodeFrameTooShort),
             Unknown(bytes[4], requestIDFromFrame(bytes), ErrorCodeUnknownOpcode)}
        \/ \E target \in {"synap2p", "samsara"} :
              classifyFrame(bytes) = [target |-> target, opcode |-> bytes[4],
                                      id |-> requestIDFromFrame(bytes), rejection |-> << >>]
      BY DEF classifyFrame, Classified
  <2>2. "target" \in DOMAIN classifyFrame(bytes) /\ "target" \notin DOMAIN None
      BY <2>1 DEF Unknown, None
  <2> QED
      BY <2>1, <2>2 DEF Unknown, ErrorCodeFrameTooShort, ErrorCodeUnknownOpcode
<1> QED  BY <1>1

LEMMA IdTyped == ASSUME Asked, verdict = classifyFrame(frame) PROVE verdict.id \in Id
<1>1. verdict.id = requestIDFromFrame(frame)
    BY DEF classifyFrame, Classified, Unknown
<1> QED  BY <1>1, AskedFrame, RequestIdTyped

LEMMA SliceBehind ==
    ASSUME NEW S, NEW head \in Seq(S), NEW rest \in Seq(S), NEW n, n = Len(head)
    PROVE  SliceFrom(head \o rest, n) = rest
<1> DEFINE all == head \o rest
<1>1. /\ all \in Seq(S) /\ Len(all) = Len(head) + Len(rest) /\ Len(rest) \in Nat /\ Len(head) \in Nat
  <2>1. /\ all \in Seq(S) /\ Len(all) = Len(head) + Len(rest) /\ Len(rest) \in Nat
      BY Concat, Zenon
  <2> QED  BY <2>1, LenProperties
<1>2. \A i \in 1..Len(rest) : all[Len(head) + i] = rest[i]
    BY Concat
<1> HIDE DEF all
<1>3. SliceFrom(all, n) = SubSeq(all, n + 1, Len(all))
    BY DEF SliceFrom
<1> DEFINE part == SubSeq(all, n + 1, Len(all))
<1>4. ASSUME NEW i \in (n + 1)..Len(all) PROVE all[i] \in S
  <2>1. i \in 1..Len(all)
      BY <1>1
  <2> QED  BY <1>1, <2>1, ElementOfSeq
<1>5. /\ part \in Seq(S)
      /\ Len(part) = IF n + 1 <= Len(all) THEN Len(all) - (n + 1) + 1 ELSE 0
      /\ \A i \in 1..(Len(all) - (n + 1) + 1) : part[i] = all[(n + 1) + i - 1]
  <2>1. n + 1 \in Int /\ Len(all) \in Int
      BY <1>1
  <2> QED  BY <1>4, <2>1, SubSeqProperties
<1> HIDE DEF part
<1>6. Len(part) = Len(rest)
    BY <1>1, <1>5
<1>7. ASSUME NEW i \in 1..Len(part) PROVE part[i] = rest[i]
  <2>1. i \in 1..(Len(all) - (n + 1) + 1) /\ (n + 1) + i - 1 = Len(head) + i /\ i \in 1..Len(rest)
      BY <1>1, <1>6
  <2>2. part[i] = all[(n + 1) + i - 1]
      BY <1>5, <2>1
  <2> QED  BY <1>2, <2>1, <2>2
<1>8. part = rest
    BY <1>5, <1>6, <1>7, SeqEqual
<1> QED  BY <1>3, <1>8 DEF part, all

LEMMA Renumbered ==
    ASSUME NEW opcode \in Byte, NEW other \in Byte, NEW id \in Id, NEW payload \in Seq(Byte)
    PROVE  u32Bytes(other) \o SliceFrom(OpcodeFrame(opcode, id, payload), 4)
             = OpcodeFrame(other, id, payload)
<1> DEFINE head == <<0, 0, 0, opcode>>
           rest == id \o payload
<1>1. head \in Seq(Byte) /\ Len(head) = 4
    BY ByteTyped
<1>2. rest \in Seq(Byte)
    BY ConcatProperties DEF Id
<1>3. SliceFrom(head \o rest, 4) = rest
  <2> HIDE DEF head, rest
  <2> QED  BY <1>1, <1>2, SliceBehind
<1>4. u32Bytes(other) = <<0, 0, 0, other>>
    BY OpcodeWritten
<1> QED  BY <1>3, <1>4 DEF OpcodeFrame

THEOREM ExchangeInvariant == Spec => []ExchangeInv
<1>1. Init => ExchangeInv
    BY DEF Init, ExchangeInv, Stages, None
<1>2. ExchangeInv /\ [Next]_vars => ExchangeInv'
  <2> SUFFICES ASSUME ExchangeInv, [Next]_vars PROVE ExchangeInv'
      OBVIOUS
  <2>1. ASSUME NEW sender \in {"page", "library"}, NEW name \in Names, Compose(sender, name)
        PROVE  ExchangeInv'
    <3>1. PICK m \in Messages[name] :
            /\ IsId(m.id)
            /\ ask' = [sender |-> sender, name |-> name, fields |-> m, whole |-> TRUE,
                       foreign |-> sender = "library" /\ name \in Operations]
            /\ frame' = ReqFrame(sender, name, m)
        BY <2>1 DEF Compose
    <3>2. frame' = OpcodeFrame(Opcode(sender = "library" /\ name \in Operations, name), m.id,
                               Payload(name, m))
        BY <3>1, OneFormat
    <3>3. Asked'
        BY <3>1, <3>2 DEF Asked, Whole, AskedOpcode
    <3> QED  BY <2>1, <3>3 DEF Compose, ExchangeInv, Stages
  <2>2. ASSUME NEW reader \in {"page", "library"}, SaysEvent(reader) PROVE ExchangeInv'
    <3>1. verdict = None /\ verdict' = None /\ stage' = "answered" /\ answer' = [kind |-> "event"]
        BY <2>2 DEF SaysEvent, ExchangeInv
    <3> QED  BY <3>1 DEF ExchangeInv, Stages
  <2>3. CASE Renumber
    <3>1. Asked /\ verdict = None /\ answer = None /\ frame = Whole /\ AskedOpcode = NATIVE_OPCODES[ask.name]
        BY <2>3 DEF Renumber, ExchangeInv, Asked, AskedOpcode, Opcode
    <3>2. /\ ask' = [ask EXCEPT !.foreign = FALSE]
          /\ ask'.name = ask.name /\ ask'.fields = ask.fields /\ ask'.sender = ask.sender
          /\ ask'.whole = TRUE /\ ask'.foreign = FALSE /\ DOMAIN ask' = DOMAIN ask
        BY <2>3, <3>1 DEF Renumber, Asked
    <3>3. frame' = u32Bytes(OP[ask.name]) \o SliceFrom(Whole, 4)
        BY <2>3, <3>1, OpcodeTables DEF Renumber, Asked
    <3>4. ask.fields.id \in Id /\ AskedOpcode \in Byte /\ Payload(ask.name, ask.fields) \in Seq(Byte)
        BY <3>1, MessageTyped
    <3>5. OP[ask.name] \in Byte
        BY <3>1, OpcodesTyped DEF Asked
    <3>6. frame' = OpcodeFrame(OP[ask.name], ask.fields.id, Payload(ask.name, ask.fields))
        BY <3>3, <3>4, <3>5, Renumbered, Zenon DEF Whole
    <3>7. Asked'
        BY <3>1, <3>2, <3>6 DEF Asked, Whole, AskedOpcode, Opcode
    <3> QED  BY <2>3, <3>1, <3>7 DEF Renumber, ExchangeInv, Stages
  <2>16. CASE RenumberSynap
    <3>1. /\ Asked /\ verdict = None /\ answer = None /\ frame = Whole
          /\ ask.name \in CardNames /\ ask.name \notin Operations /\ AskedOpcode = OP[ask.name]
        BY <2>16, OpcodeTables DEF RenumberSynap, ExchangeInv, Asked, AskedOpcode, Opcode
    <3>2. /\ ask' = [ask EXCEPT !.foreign = TRUE]
          /\ ask'.name = ask.name /\ ask'.fields = ask.fields /\ ask'.sender = "library"
          /\ ask'.whole = TRUE /\ ask'.foreign = TRUE /\ DOMAIN ask' = DOMAIN ask
        BY <2>16, <3>1 DEF RenumberSynap, Asked
    <3>3. frame' = u32Bytes(SYNAP2P_EXTERNAL_OPCODES[ask.name]) \o SliceFrom(Whole, 4)
        BY <2>16, <3>1 DEF RenumberSynap
    <3>4. ask.fields.id \in Id /\ AskedOpcode \in Byte /\ Payload(ask.name, ask.fields) \in Seq(Byte)
        BY <3>1, MessageTyped
    <3>5. SYNAP2P_EXTERNAL_OPCODES[ask.name] \in Byte
        BY <3>1, OpcodesTyped
    <3>6. frame' = OpcodeFrame(SYNAP2P_EXTERNAL_OPCODES[ask.name], ask.fields.id,
                               Payload(ask.name, ask.fields))
        BY <3>3, <3>4, <3>5, Renumbered, Zenon DEF Whole
    <3>7. Asked'
        BY <3>1, <3>2, <3>6 DEF Asked, Whole, AskedOpcode, Opcode
    <3> QED  BY <2>16, <3>1, <3>7 DEF RenumberSynap, ExchangeInv, Stages
  <2>4. CASE CutShort
    <3>1. Asked /\ verdict = None /\ answer = None /\ frame = Whole
        BY <2>4 DEF CutShort, ExchangeInv, Asked
    <3>2. /\ ask'.name = ask.name /\ ask'.fields = ask.fields /\ ask'.sender = ask.sender
          /\ ask'.whole = FALSE /\ ask'.foreign = ask.foreign /\ DOMAIN ask' = DOMAIN ask
        BY <2>4, <3>1 DEF CutShort, Asked
    <3>3. \E length \in 0..(Len(Whole) - 1) : frame' = Slice(Whole, 0, length)
        BY <2>4, <3>1 DEF CutShort
    <3>4. Whole' = Whole
        BY <3>2 DEF Whole, AskedOpcode
    <3>5. Asked'
      <4>1. \E length \in 0..(Len(Whole') - 1) : frame' = Slice(Whole', 0, length)
          BY <3>3, <3>4
      <4> QED  BY <3>1, <3>2, <4>1 DEF Asked
    <3> QED  BY <2>4, <3>1, <3>5 DEF CutShort, ExchangeInv, Stages
  <2> DEFINE Kept == ask' = ask /\ frame' = frame
  <2>5. ASSUME Kept, Asked PROVE Asked'
      BY <2>5 DEF Asked, Whole, AskedOpcode
  <2>15. ASSUME verdict' = verdict, answer' = answer, reply' = reply, Replied PROVE Replied'
    <3>1. ServedName' = ServedName
        BY <2>15 DEF ServedName
    <3>2. CASE answer.kind = "envelope" /\ Envelope
        BY <2>15, <3>2 DEF Replied, Envelope
    <3>3. CASE answer.kind = "failed" /\ verdict.target # "unknown" /\ Failure
        BY <2>15, <3>3 DEF Replied, Failure
    <3>4. CASE answer.kind = "done" /\ verdict.target # "unknown" /\ Success
      <4>1. Success'
          BY <2>15, <3>1, <3>4, Zenon DEF Success
      <4> QED  BY <2>15, <3>4, <4>1 DEF Replied
    <3> QED  BY <2>15, <3>2, <3>3, <3>4 DEF Replied
  <2>6. CASE Dispatch
    <3>1. Asked /\ Asked' /\ verdict' = classifyFrame(frame) /\ frame' = frame /\ answer = None
        BY <2>5, <2>6 DEF Dispatch, ExchangeInv
    <3>2. verdict' # None
        BY <3>1, Verdicts
    <3>3. CASE verdict'.target = "unknown"
      <4>1. stage' = "delivered" /\ reply' = verdict'.rejection /\ answer' = [kind |-> "envelope"]
          BY <2>6, <3>3 DEF Dispatch
      <4>2. Envelope'
          BY <3>1, <3>3, <4>1, Verdicts DEF Envelope
      <4> QED  BY <3>1, <3>2, <4>1, <4>2 DEF ExchangeInv, Stages, Replied, Routed
    <3>4. CASE verdict'.target # "unknown"
      <4>1. stage' = "accepted" /\ answer' = answer
          BY <2>6, <3>4 DEF Dispatch
      <4> QED  BY <3>1, <3>2, <3>4, <4>1 DEF ExchangeInv, Stages
    <3> QED  BY <3>3, <3>4
  <2>7. CASE EngineReads
    <3>1. Kept /\ verdict' = verdict /\ answer' = answer /\ stage' = "read" /\ stage = "accepted"
        BY <2>7 DEF EngineReads
    <3>2. parsed' = Reading'
        BY <2>7 DEF EngineReads, Reading, ServedName
    <3> QED  BY <2>5, <3>1, <3>2 DEF ExchangeInv, Stages
  <2>8. ASSUME NEW kind, NEW result, NEW bytes, stage = "read", Says(kind, result, bytes),
               kind # "event", Replied'
        PROVE  ExchangeInv'
    <3>1. /\ Kept /\ verdict' = verdict /\ answer'.kind = kind
          /\ stage' = IF verdict.target = "samsara" THEN "delivered" ELSE "answered"
        BY <2>8 DEF Says
    <3>2. verdict.target \in {"synap2p", "samsara"}
        BY <2>8, Verdicts DEF ExchangeInv
    <3>3. Routed'
        BY <3>1, <3>2 DEF Routed
    <3> QED  BY <2>5, <2>8, <3>1, <3>3 DEF ExchangeInv, Stages
  <2>9. CASE SaysDone
    <3>1. PICK r \in Results[ServedName] :
            LET result == [r EXCEPT !.id = verdict.id]
            IN  Says("done", result,
                    CASE verdict.target = "samsara" -> ResultBytes(ServedName, result)
                      [] verdict.target # "samsara" /\ "data" \in DOMAIN r ->
                            DataBytes(CardOf[ServedName], verdict.id, r.data)
                      [] OTHER -> buildSuccessResponse(verdict.opcode, verdict.id))
        BY <2>9 DEF SaysDone
    <3> DEFINE result == [r EXCEPT !.id = verdict.id]
               bytes == CASE verdict.target = "samsara" -> ResultBytes(ServedName, result)
                      [] verdict.target # "samsara" /\ "data" \in DOMAIN r ->
                            DataBytes(CardOf[ServedName], verdict.id, r.data)
                      [] OTHER -> buildSuccessResponse(verdict.opcode, verdict.id)
    <3>2. /\ stage = "read" /\ Says("done", result, bytes) /\ verdict.target # "unknown"
          /\ verdict' = verdict /\ answer' = [kind |-> "done", result |-> result] /\ reply' = bytes
          /\ ServedName' = ServedName
        BY <2>9, <3>1 DEF SaysDone, Says, ExchangeInv, ServedName
    <3>3. Replied'
        BY <3>1, <3>2 DEF Replied, Success
    <3> HIDE DEF result, bytes
    <3> QED  BY <2>8, <3>2, <3>3
  <2>10. CASE SaysFailed
    <3>1. /\ stage = "read" /\ verdict.target # "unknown" /\ verdict' = verdict
          /\ Says("failed", None, IF verdict.target = "samsara" THEN verdict.id \o u32Bytes(0)
                                  ELSE buildErrorResponse(verdict.opcode, verdict.id))
        BY <2>10 DEF SaysFailed, Says, ExchangeInv
    <3>2. Replied'
        BY <3>1 DEF Replied, Failure, Says
    <3> QED  BY <2>8, <3>1, <3>2
  <2>11. CASE SaysEnvelope
    <3>1. /\ stage = "read" /\ verdict' = verdict
          /\ Says("envelope", None, errorResult(verdict.id, ErrorCodeNodeProcessFailed, Info))
        BY <2>11 DEF SaysEnvelope, Says
    <3>2. Replied'
        BY <3>1 DEF Replied, Envelope, Says, ErrorCodeNodeProcessFailed
    <3> QED  BY <2>8, <3>1, <3>2
  <2>12. CASE routeFrame
    <3>1. /\ Kept /\ UNCHANGED <<verdict, answer, reply, shown>> /\ stage = "answered"
          /\ stage' = CASE IsEvent(reply) -> "broadcast"
                  [] ~IsEvent(reply) /\ verdict # None
                        /\ synapResponseID(reply) = verdict.id -> "delivered"
                  [] OTHER -> "lost"
        BY <2>12 DEF routeFrame
    <3>2. CASE answer.kind = "event"
        BY <2>5, <3>1, <3>2 DEF ExchangeInv, Stages
    <3>3. CASE answer.kind # "event"
      <4>1. verdict # None /\ Replied /\ Routed /\ verdict = classifyFrame(frame) /\ Asked
          BY <3>1, <3>3 DEF ExchangeInv
      <4>2. Replied'
          BY <2>15, <3>1, <4>1
      <4>3. Routed'
          BY <3>1, <4>1 DEF Routed
      <4> QED  BY <2>5, <3>1, <3>3, <4>1, <4>2, <4>3 DEF ExchangeInv, Stages
    <3> QED  BY <3>2, <3>3
  <2>13. CASE ClientReads
    <3>1. /\ Kept /\ UNCHANGED <<verdict, answer, reply>> /\ stage \in {"delivered", "broadcast"}
          /\ stage' = "shown"
          /\ shown' = IF ask.sender = "page" THEN inspectIncomingFrame(reply, Remembered)
                      ELSE LibraryReads
        BY <2>13 DEF ClientReads
    <3>2. shown' = (IF ask.sender = "page" THEN inspectIncomingFrame(reply, Remembered)
                    ELSE LibraryReads)'
        BY <3>1 DEF Remembered, LibraryReads
    <3>3. CASE answer.kind = "event"
        BY <2>5, <3>1, <3>2, <3>3 DEF ExchangeInv, Stages
    <3>4. CASE answer.kind # "event"
      <4>1. verdict # None /\ Replied /\ Routed /\ verdict = classifyFrame(frame) /\ Asked
          BY <3>1, <3>4 DEF ExchangeInv
      <4>2. Replied'
          BY <2>15, <3>1, <4>1
      <4>3. Routed'
          BY <3>1, <4>1 DEF Routed
      <4> QED  BY <2>5, <3>1, <3>2, <3>4, <4>1, <4>2, <4>3 DEF ExchangeInv, Stages
    <3> QED  BY <3>3, <3>4
  <2>14. CASE Over \/ UNCHANGED vars
    <3>1. UNCHANGED vars
        BY <2>14 DEF Over
    <3>2. /\ Kept /\ stage' = stage /\ verdict' = verdict /\ parsed' = parsed /\ answer' = answer
          /\ reply' = reply /\ shown' = shown
        BY <3>1 DEF vars
    <3>3. Replied => Replied'
        BY <2>15, <3>2
    <3>4. Routed => Routed'
        BY <3>2 DEF Routed
    <3>5. parsed = Reading => parsed' = Reading'
        BY <3>2 DEF Reading, ServedName
    <3>6. (IF ask.sender = "page" THEN inspectIncomingFrame(reply, Remembered) ELSE LibraryReads)'
            = IF ask.sender = "page" THEN inspectIncomingFrame(reply, Remembered) ELSE LibraryReads
        BY <3>2 DEF Remembered, LibraryReads
    <3>7. classifyFrame(frame)' = classifyFrame(frame)
        BY <3>2
    <3>8. stage = "shown" => shown' = (IF ask.sender = "page" THEN inspectIncomingFrame(reply, Remembered)
                                       ELSE LibraryReads)'
        BY <3>2, <3>6 DEF ExchangeInv
    <3> QED  BY <2>5, <3>2, <3>3, <3>4, <3>5, <3>7, <3>8 DEF ExchangeInv
  <2> QED
      BY <2>1, <2>2, <2>3, <2>4, <2>6, <2>7, <2>9, <2>10, <2>11, <2>12, <2>13, <2>14, <2>16 DEF Next
<1> QED  BY <1>1, <1>2, PTL DEF Spec

\* An opcode is one request's alone.
LEMMA OpcodesDiffer ==
    /\ \A a, b \in Operations : OP[a] = OP[b] => a = b
    /\ \A a, b \in CardNames : OP[a] = OP[b] => a = b
<1>1. ASSUME NEW a \in Operations, NEW b \in Operations, OP[a] = OP[b] PROVE a = b
    BY <1>1, Operation DEF OP, SynapOps
<1>2. ASSUME NEW a \in CardNames, NEW b \in CardNames, OP[a] = OP[b] PROVE a = b
    BY <1>2 DEF OP, SynapOps, CardNames
<1> QED  BY <1>1, <1>2

\* Where the opcodes lead
LEMMA Destinations ==
    ASSUME Asked
    PROVE  /\ ~ask.foreign /\ ask.name \in Operations =>
                /\ AskedOpcode = OP[ask.name]
                /\ AskedOpcode \notin OpcodeRequestMin..OpcodeRequestMax
                /\ AskedOpcode \in OpcodeNamespaceMin..OpcodeNamespaceMax
           /\ ask.name \notin Operations =>
                /\ ask.name \in CardNames
                /\ IF ask.foreign THEN AskedOpcode = OP[ask.name] - 1
                   ELSE /\ AskedOpcode = OP[ask.name]
                        /\ AskedOpcode \in OpcodeRequestMin..OpcodeRequestMax
           /\ ask.foreign => AskedOpcode \notin OpcodeNamespaceMin..OpcodeNamespaceMax
<1>1. CASE ~ask.foreign /\ ask.name \in Operations
  <2>1. AskedOpcode = OP[ask.name] /\ AskedOpcode \in OpcodeNamespaceMin..OpcodeNamespaceMax
      BY <1>1, CardRange DEF AskedOpcode, Opcode
  <2> QED  BY <1>1, <2>1, OpcodeAssumption, RadixTyped DEF Byte
<1>2. ASSUME ask.name \notin Operations
      PROVE  /\ ask.name \in CardNames
             /\ IF ask.foreign THEN AskedOpcode = OP[ask.name] - 1
                ELSE AskedOpcode = OP[ask.name] /\ AskedOpcode \in OpcodeRequestMin..OpcodeRequestMax
  <2>1. ask.name \in CardNames /\ OP[ask.name] \in OpcodeRequestMin..OpcodeRequestMax
      BY <1>2, CardRange DEF Asked, Names
  <2>2. CASE ask.foreign
    <3>1. AskedOpcode = SYNAP2P_EXTERNAL_OPCODES[ask.name]
        BY <1>2, <2>2 DEF AskedOpcode, Opcode
    <3>2. SYNAP2P_EXTERNAL_OPCODES[ask.name] = OP[ask.name] - 1
        BY <2>1, OpcodeTables
    <3> QED  BY <1>2, <2>1, <2>2, <3>1, <3>2
  <2>3. CASE ~ask.foreign
      BY <1>2, <2>1, <2>3 DEF AskedOpcode, Opcode
  <2> QED  BY <1>2, <2>1, <2>2, <2>3
<1>3. CASE ask.foreign
  <2>1. AskedOpcode \in 0..15
    <3>1. CASE ask.name \in Operations
        BY <1>3, <3>1, OpcodeTables DEF AskedOpcode, Opcode
    <3>2. CASE ask.name \notin Operations
      <4>1. ask.name \in CardNames /\ OP[ask.name] \in 1..16
          BY <3>2, OpcodeTables DEF Asked, Names
      <4>2. AskedOpcode = SYNAP2P_EXTERNAL_OPCODES[ask.name]
          BY <1>3, <3>2 DEF AskedOpcode, Opcode
      <4> QED  BY <4>1, <4>2, OpcodeTables
    <3> QED  BY <3>1, <3>2
  <2>2. OpcodeNamespaceMin > 16
      BY CardRange, OpcodeAssumption, RadixTyped DEF Byte
  <2> QED  BY <1>2, <1>3, <2>1, <2>2, OpcodeAssumption, RadixTyped DEF Byte
<1> QED  BY <1>1, <1>2, <1>3 DEF Asked

LEMMA Served ==
    ASSUME Asked, verdict = classifyFrame(frame), verdict.target # "unknown"
    PROVE  /\ Len(frame) >= 20 /\ verdict.opcode = AskedOpcode /\ verdict.id = ask.fields.id
           /\ verdict.target = "synap2p" =>
                /\ ServedName \in CardNames /\ OP[ServedName] = verdict.opcode
                /\ verdict.opcode \in OpcodeRequestMin..OpcodeRequestMax
           /\ verdict.target = "samsara" => ask.name \in Operations /\ ~ask.foreign
           /\ ~ask.foreign =>
                /\ ServedName = ask.name
                /\ verdict.target = IF ask.name \in Operations THEN "samsara" ELSE "synap2p"
<1>1. Len(frame) >= 20
    BY ShortClassified
<1>2. /\ verdict.opcode = AskedOpcode /\ verdict.id = ask.fields.id
      /\ verdict.target =
            CASE AskedOpcode \in OpcodeRequestMin..OpcodeRequestMax -> "synap2p"
              [] AskedOpcode \in OpcodeNamespaceMin..OpcodeNamespaceMax -> "samsara"
              [] OTHER -> "unknown"
    BY <1>1, AskedClassified
<1>0. \A opcode : opcode \in OpcodeRequestMin..OpcodeRequestMax
                     => opcode \notin OpcodeNamespaceMin..OpcodeNamespaceMax
    BY OpcodeAssumption, RadixTyped DEF Byte
<1>3. ASSUME verdict.target = "synap2p"
      PROVE  /\ ServedName \in CardNames /\ OP[ServedName] = verdict.opcode
             /\ verdict.opcode \in OpcodeRequestMin..OpcodeRequestMax
  <2>1. verdict.opcode \in OpcodeRequestMin..OpcodeRequestMax
      BY <1>2, <1>3
  <2>2. PICK name \in CardNames : OP[name] = verdict.opcode
      BY <2>1, CardRange
  <2>3. CardOf[name].opcode = verdict.opcode
      BY <2>2, OpcodeTables
  <2>4. ServedName = CHOOSE n \in CardNames : CardOf[n].opcode = verdict.opcode
      BY <1>3 DEF ServedName
  <2>5. ServedName \in CardNames /\ CardOf[ServedName].opcode = verdict.opcode
      BY <2>2, <2>3, <2>4, Zenon
  <2> QED  BY <2>1, <2>5, OpcodeTables
<1>4. ASSUME verdict.target = "samsara" PROVE ask.name \in Operations /\ ~ask.foreign
    BY <1>0, <1>2, <1>4, Destinations
<1>5. ASSUME ~ask.foreign
      PROVE  /\ ServedName = ask.name
             /\ verdict.target = IF ask.name \in Operations THEN "samsara" ELSE "synap2p"
  <2>1. CASE ask.name \in Operations
    <3>1. verdict.target = "samsara" /\ verdict.opcode = OP[ask.name]
        BY <1>2, <1>5, <2>1, Destinations
    <3>2. ServedName = CHOOSE n \in Operations : EXTERNAL_OPCODES[n] = verdict.opcode
        BY <3>1 DEF ServedName
    <3>3. EXTERNAL_OPCODES[ask.name] = verdict.opcode
        BY <2>1, <3>1, OpcodeTables
    <3>4. ServedName \in Operations /\ EXTERNAL_OPCODES[ServedName] = verdict.opcode
        BY <2>1, <3>2, <3>3, Zenon
    <3>5. ServedName = ask.name
        BY <2>1, <3>1, <3>4, OpcodeTables, OpcodesDiffer
    <3> QED  BY <2>1, <3>1, <3>5
  <2>2. CASE ask.name \notin Operations
    <3>1. verdict.target = "synap2p" /\ verdict.opcode = OP[ask.name] /\ ask.name \in CardNames
        BY <1>0, <1>2, <1>5, <2>2, Destinations
    <3> QED  BY <1>3, <2>2, <3>1, OpcodesDiffer
  <2> QED  BY <2>1, <2>2
<1> QED  BY <1>1, <1>2, <1>3, <1>4, <1>5

\* A request that reaches an engine reaches the one it is for and is taken for what it
\* is, whole or cut; one with the library's own opcode never gets to Samsara, and one
\* with the external opcode of a Synap2P card never to the operation of that card
\* (classifyFrame on what buildFrame and the builders of the cards make).
THEOREM EngineReached == Spec => []ReachesItsEngine
<1>1. ExchangeInv => ReachesItsEngine
  <2> SUFFICES ASSUME ExchangeInv, IsRequest, Len(frame) >= 20
               PROVE  IF ask.foreign
                      THEN /\ verdict.target # "samsara"
                           /\ ask.name \in CardNames =>
                                 IF ask.name = "RELAY" THEN verdict.target = "unknown"
                                 ELSE verdict.target = "synap2p" /\ ServedName # ask.name
                      ELSE /\ verdict.target = (IF ask.name \in Operations THEN "samsara" ELSE "synap2p")
                           /\ ServedName = ask.name
      BY DEF ReachesItsEngine
  <2>1. Asked /\ verdict = classifyFrame(frame)
      BY DEF IsRequest, ExchangeInv
  <2>2. CASE ask.foreign
    <3>1. verdict.target # "samsara"
        BY <2>1, <2>2, AskedClassified, Destinations
    <3>2. ASSUME ask.name \in CardNames
          PROVE  IF ask.name = "RELAY" THEN verdict.target = "unknown"
                 ELSE verdict.target = "synap2p" /\ ServedName # ask.name
      <4>1. AskedOpcode = OP[ask.name] - 1 /\ OP[ask.name] \in OpcodeRequestMin..OpcodeRequestMax
          BY <2>1, <2>2, <3>2, Destinations, OpcodeTables, CardRange
      <4>2. OpcodeRequestMin = 1
        <5>1. \A opcode \in Int : opcode = OP["RELAY"] => opcode \in OpcodeRequestMin..OpcodeRequestMax
            BY CardRange DEF CardNames
        <5> QED  BY <5>1, CardRange, OpcodeTables, OpcodeAssumption, RadixTyped DEF Byte
      <4>3. CASE ask.name = "RELAY"
        <5>1. AskedOpcode = 0
            BY <4>1, <4>3, OpcodeTables
        <5> QED  BY <2>1, <3>1, <4>2, <4>3, <5>1, AskedClassified
      <4>4. CASE ask.name # "RELAY"
        <5>1. OP[ask.name] # 1
            BY <3>2, <4>4, OpcodeTables, OpcodesDiffer DEF CardNames
        <5>2. AskedOpcode \in OpcodeRequestMin..OpcodeRequestMax
            BY <4>1, <4>2, <5>1, OpcodeAssumption, RadixTyped DEF Byte
        <5>3. verdict.target = "synap2p"
          <6>1. AskedOpcode \notin OpcodeNamespaceMin..OpcodeNamespaceMax
              BY <2>1, <2>2, Destinations
          <6> QED  BY <2>1, <5>2, <6>1, AskedClassified
        <5>4. OP[ServedName] = OP[ask.name] - 1
            BY <2>1, <4>1, <5>3, Served
        <5> QED  BY <4>1, <4>4, <5>3, <5>4
      <4> QED  BY <4>3, <4>4
    <3> QED  BY <2>2, <3>1, <3>2
  <2>3. CASE ~ask.foreign
    <3>1. verdict.target # "unknown"
        BY <2>1, <2>3, AskedClassified, Destinations
    <3> QED  BY <2>1, <2>3, <3>1, Served
  <2> QED  BY <2>2, <2>3
<1> QED  BY <1>1, ExchangeInvariant, PTL

LEMMA BytesAssociate == \A a, b, c \in Seq(Byte) : (a \o b) \o c = a \o (b \o c)
BY Associative

LEMMA FourAssociate ==
    \A a, b, c, d \in Seq(Byte) : ((a \o b) \o c) \o d = a \o (b \o (c \o d))
<1> SUFFICES ASSUME NEW a \in Seq(Byte), NEW b \in Seq(Byte), NEW c \in Seq(Byte), NEW d \in Seq(Byte)
             PROVE  ((a \o b) \o c) \o d = a \o (b \o (c \o d))
    OBVIOUS
<1> DEFINE front == a \o b
           back == c \o d
<1>1. front \in Seq(Byte) /\ back \in Seq(Byte)
    BY ConcatProperties
<1>2. (a \o b) \o back = a \o (b \o back)
  <2> HIDE DEF back
  <2> QED  BY SMTT(30), <1>1, BytesAssociate
<1>3. (front \o c) \o d = front \o (c \o d)
  <2> HIDE DEF front
  <2>1. \A y, z \in Seq(Byte) : (front \o y) \o z = front \o (y \o z)
      BY <1>1, BytesAssociate, Zenon
  <2> QED  BY <2>1, Zenon
<1> QED  BY <1>2, <1>3

\* The answers of the node are frames that begin with its opcode.
LEMMA NodeAnswer ==
    ASSUME NEW opcode \in Byte, NEW id \in Id, NEW data \in Seq(Byte)
    PROVE  /\ <<1>> \o data \in Seq(Byte) /\ <<0>> \in Seq(Byte)
           /\ buildSuccessDataResponse(opcode, id, data) = OpcodeFrame(opcode, id, <<1>> \o data)
           /\ buildErrorResponse(opcode, id) = OpcodeFrame(opcode, id, <<0>>)
<1> DEFINE first == <<0, 0, 0, opcode>>
           one == <<1>>
           zero == <<0>>
<1>1. first \in Seq(Byte) /\ one \in Seq(Byte) /\ zero \in Seq(Byte) /\ id \in Seq(Byte)
    BY RadixTyped DEF Byte, Id
<1> HIDE DEF first, one, zero
<1>2. (first \o id) \o zero = first \o (id \o zero)
    BY <1>1, BytesAssociate, ZenonT(60)
<1>3. ((first \o id) \o one) \o data = first \o (id \o (one \o data))
  <2>1. \A b, c, d \in Seq(Byte) : ((first \o b) \o c) \o d = first \o (b \o (c \o d))
      BY <1>1, FourAssociate, Zenon
  <2>2. \A c, d \in Seq(Byte) : ((first \o id) \o c) \o d = first \o (id \o (c \o d))
      BY <1>1, <2>1, Zenon
  <2> QED  BY <1>1, <2>2, Zenon
<1>4. one \o data \in Seq(Byte)
    BY <1>1, ConcatProperties
<1> QED
    BY <1>1, <1>2, <1>3, <1>4
    DEF first, one, zero, buildSuccessDataResponse, buildErrorResponse, OpcodeFrame

LEMMA PeersTyped == ASSUME NEW list \in Seq(Seq(Byte)) PROVE joinPeers(list) \in Seq(Byte)
<1> DEFINE parts == [i \in DOMAIN list |-> IF i = 1 THEN list[i] ELSE <<Comma>> \o list[i]]
<1>1. Len(list) \in Nat /\ DOMAIN list = 1..Len(list)
    BY LenProperties
<1>2. <<Comma>> \in Seq(Byte)
    BY RadixTyped DEF Byte, Comma
<1>3. ASSUME NEW i \in 1..Len(list)
      PROVE  (IF i = 1 THEN list[i] ELSE <<Comma>> \o list[i]) \in Seq(Byte)
  <2>1. list[i] \in Seq(Byte)
      BY <1>3, ElementOfSeq
  <2>2. <<Comma>> \o list[i] \in Seq(Byte)
      BY <1>2, <2>1, ConcatProperties
  <2> QED  BY <2>1, <2>2
<1>4. parts \in [1..Len(list) -> Seq(Byte)]
    BY <1>1, <1>3
<1>5. parts \in Seq(Seq(Byte))
    BY <1>1, <1>4, SeqOfFunction
<1> QED  BY <1>5, FlattenTyped DEF joinPeers

\* What the node says of a request
LEMMA NodeReplies ==
    ASSUME Asked, verdict = classifyFrame(frame), verdict.target = "synap2p",
           Replied, answer.kind # "envelope"
    PROVE  \E payload \in Seq(Byte) :
              /\ reply = OpcodeFrame(verdict.opcode, verdict.id, payload)
              /\ answer.kind = "failed" => payload = <<0>>
              /\ answer.kind = "done" => \E data \in Seq(Byte) : payload = <<1>> \o data
<1>1. /\ verdict.id \in Id /\ verdict.opcode \in Byte /\ ServedName \in CardNames
      /\ OP[ServedName] = verdict.opcode
  <2>1. ServedName \in CardNames /\ OP[ServedName] = verdict.opcode
      BY Served
  <2> QED  BY <2>1, IdTyped, OpcodesTyped DEF Names
<1>2. CASE answer.kind = "failed"
  <2>1. reply = buildErrorResponse(verdict.opcode, verdict.id)
      BY <1>2 DEF Replied, Failure
  <2>2. << >> \in Seq(Byte)
      OBVIOUS
  <2> QED  BY <1>1, <1>2, <2>1, <2>2, NodeAnswer
<1>3. CASE answer.kind = "done"
  <2>1. PICK r \in Results[ServedName] :
            reply = CASE verdict.target = "samsara" -> ResultBytes(ServedName, answer.result)
                      [] verdict.target # "samsara" /\ "data" \in DOMAIN r ->
                           DataBytes(CardOf[ServedName], verdict.id, r.data)
                      [] OTHER -> buildSuccessResponse(verdict.opcode, verdict.id)
      BY <1>3 DEF Replied, Success
  <2>2. PICK data \in Seq(Byte) :
            reply = buildSuccessDataResponse(verdict.opcode, verdict.id, data)
    <3>1. CASE "data" \in DOMAIN r
      <4> DEFINE bytes == IF CardOf[ServedName].returns = "peers" THEN joinPeers(r.data) ELSE r.data
      <4>1. reply = DataBytes(CardOf[ServedName], verdict.id, r.data)
          BY <2>1, <3>1
      <4>2. bytes \in Seq(Byte)
          BY <1>1, <2>1, <3>1, ResultsAssumption, PeersTyped
      <4>3. CardOf[ServedName].opcode = verdict.opcode
          BY <1>1, OpcodeTables
      <4> QED  BY <4>1, <4>2, <4>3 DEF DataBytes
    <3>2. CASE "data" \notin DOMAIN r
      <4>1. reply = buildSuccessResponse(verdict.opcode, verdict.id)
          BY <2>1, <3>2
      <4>2. << >> \in Seq(Byte)
          OBVIOUS
      <4> QED  BY <4>1, <4>2 DEF buildSuccessResponse
    <3> QED  BY <3>1, <3>2
  <2>3. <<1>> \o data \in Seq(Byte) /\ reply = OpcodeFrame(verdict.opcode, verdict.id, <<1>> \o data)
      BY <1>1, <2>2, NodeAnswer
  <2> QED  BY <1>3, <2>3
<1> QED  BY <1>2, <1>3 DEF Replied

LEMMA EnvelopeTyped ==
    ASSUME NEW id \in Id, NEW code \in Nat
    PROVE  /\ errorResult(id, code, Info) = id \o (u32Bytes(code) \o Info)
           /\ Info \in Seq(Byte)
<1> DEFINE middle == u32Bytes(code)
<1>1. id \in Seq(Byte) /\ normalizeID(id) = id
    BY Normalized DEF Id
<1>2. middle \in Seq(Byte) /\ Info \in Seq(Byte)
    BY U32Written, RadixTyped DEF Info, Byte
<1>3. (id \o middle) \o Info = id \o (middle \o Info)
  <2> HIDE DEF middle
  <2> QED  BY <1>1, <1>2, BytesAssociate, Zenon
<1> QED  BY <1>1, <1>2, <1>3 DEF errorResult

\* Every answer of the node finds its request, but an envelope whose id begins as a
\* frame of the node (routeFrame, synapResponseID).
THEOREM AnswersAreFound == Spec => []AnswersFound
<1>1. ExchangeInv => AnswersFound
  <2> SUFFICES ASSUME ExchangeInv, stage \in {"lost", "broadcast"}, answer.kind # "event"
               PROVE  answer.kind = "envelope" /\ OpcodeLike(ask.fields.id)
      BY DEF AnswersFound
  <2>1. /\ Asked /\ verdict = classifyFrame(frame) /\ Replied
        /\ verdict.target = "synap2p"
        /\ IsEvent(reply) \/ synapResponseID(reply) # verdict.id
      BY DEF ExchangeInv, Routed
  <2>2. /\ verdict.id = ask.fields.id /\ verdict.opcode \in OpcodeRequestMin..OpcodeRequestMax
        /\ verdict.id \in Id
      BY <2>1, Served, IdTyped
  <2>3. ASSUME answer.kind # "envelope" PROVE FALSE
    <3>1. PICK payload \in Seq(Byte) : reply = OpcodeFrame(verdict.opcode, verdict.id, payload)
        BY <2>1, <2>3, NodeReplies
    <3>2. verdict.opcode \in OpcodeRequestMin..OpcodeEventMax /\ verdict.opcode \in Byte
          /\ verdict.opcode \notin OpcodeEventMin..OpcodeEventMax
        BY <2>2, OpcodeAssumption, RadixTyped DEF Byte
    <3>3. << >> \in Seq(Byte)
        OBVIOUS
    <3>4. synapResponseID(reply) = verdict.id
        BY <2>2, <3>1, <3>2, <3>3, AnswerHasIdOfRequest
    <3>5. reply[4] = verdict.opcode
        BY SMTT(30), <2>2, <3>1, <3>2, FrameParts
    <3> QED  BY <2>1, <3>2, <3>4, <3>5 DEF IsEvent, isSynapEvent
  <2>4. ASSUME answer.kind = "envelope", ~OpcodeLike(verdict.id) PROVE FALSE
    <3>1. PICK code \in {50000, 50001, 50004} : reply = errorResult(verdict.id, code, Info)
        BY <2>1, <2>4 DEF Replied, Envelope
    <3>2. code \in Nat /\ Info \in Seq(Byte)
        BY <2>2, EnvelopeTyped
    <3>3. synapResponseID(reply) = verdict.id /\ ~synapOpcodeFromFrame(reply)
        BY <2>2, <2>4, <3>1, <3>2, EnvelopeFindsItsRequest
    <3> QED  BY <2>1, <3>3 DEF IsEvent
  <2> QED  BY <2>2, <2>3, <2>4
<1> QED  BY <1>1, ExchangeInvariant, PTL

--------------------------------------------------------------------------------
(***************************************************************************)
(* Parts within byte strings.                                              *)
(***************************************************************************)
\* The bytes have this part from offset on.
Holds(bytes, offset, part) ==
    /\ offset + Len(part) <= Len(bytes)
    /\ \A i \in 1..Len(part) : bytes[offset + i] = part[i]

LEMMA Lengths2 == ASSUME NEW bytes \in Seq(Byte) PROVE Len(bytes) \in Nat
BY LenProperties

LEMMA HoldsParts ==
    ASSUME NEW a \in Seq(Byte), NEW b \in Seq(Byte), NEW all, all = a \o b
    PROVE  /\ all \in Seq(Byte) /\ Len(all) = Len(a) + Len(b)
           /\ Holds(all, 0, a) /\ Holds(all, Len(a), b)
<1>1. /\ all \in Seq(Byte) /\ Len(all) = Len(a) + Len(b) /\ Len(b) \in Nat
      /\ \A i \in 1..Len(a) : all[i] = a[i]
      /\ \A i \in 1..Len(b) : all[Len(a) + i] = b[i]
  <2>1. all \in Seq(Byte) /\ Len(all) = Len(a) + Len(b) /\ Len(b) \in Nat
      BY Concat, Zenon
  <2>2. \A i \in 1..Len(a) : all[i] = a[i]
      BY Concat, Zenon
  <2>3. \A i \in 1..Len(b) : all[Len(a) + i] = b[i]
      BY Concat
  <2> QED  BY <2>1, <2>2, <2>3
<1>2. Len(a) \in Nat
    BY LenProperties
<1>3. Holds(all, 0, a) /\ Holds(all, Len(a), b)
    BY ONLY <1>1, <1>2 DEF Holds
<1> QED  BY <1>1, <1>3

LEMMA HoldsWithin ==
    ASSUME NEW bytes, NEW middle, NEW part, NEW outer \in Nat, NEW inner \in Nat,
           Len(bytes) \in Nat, Len(middle) \in Nat, Len(part) \in Nat,
           Holds(bytes, outer, middle), Holds(middle, inner, part)
    PROVE  Holds(bytes, outer + inner, part)
<1>1. ASSUME NEW i \in 1..Len(part) PROVE bytes[(outer + inner) + i] = part[i]
  <2>1. inner + i \in 1..Len(middle) /\ middle[inner + i] = part[i]
      BY SMTT(30) DEF Holds
  <2>2. bytes[outer + (inner + i)] = middle[inner + i]
      BY <2>1 DEF Holds
  <2>3. outer + (inner + i) = (outer + inner) + i
      OBVIOUS
  <2> QED  BY <2>1, <2>2, <2>3
<1>2. (outer + inner) + Len(part) <= Len(bytes)
    BY DEF Holds
<1> QED  BY <1>1, <1>2 DEF Holds

LEMMA HoldsWord ==
    ASSUME NEW bytes, NEW offset \in Nat, NEW value, Holds(bytes, offset, u32Bytes(value))
    PROVE  U32At(bytes, offset) = ToUint32(value)
<1> DEFINE word == u32Bytes(value)
<1>1. Len(word) = 4 /\ U32At(word, 0) = ToUint32(value)
    BY U32Written
<1>2. Holds(bytes, offset, word)
    OBVIOUS
<1> HIDE DEF word
<1>3. \A i \in 1..4 : bytes[offset + i] = word[i]
    BY <1>1, <1>2 DEF Holds
<1> QED  BY <1>1, <1>3, U32Within

LEMMA HoldsByte ==
    ASSUME NEW bytes, NEW offset \in Nat, NEW byte, Holds(bytes, offset, <<byte>>),
           NEW place, place = offset + 1
    PROVE  bytes[place] = byte
BY DEF Holds

\* A part of an array of bytes is what was put there.
LEMMA HoldsSlice ==
    ASSUME NEW bytes \in Seq(Byte), NEW offset \in Nat, NEW part \in Seq(Byte),
           Holds(bytes, offset, part)
    PROVE  Slice(bytes, offset, offset + Len(part)) = part
<1> DEFINE cut == SubSeq(bytes, offset + 1, offset + Len(part))
<1>1. Len(bytes) \in Nat /\ Len(part) \in Nat /\ offset + Len(part) <= Len(bytes)
    BY LenProperties DEF Holds
<1>2. Slice(bytes, offset, offset + Len(part)) = cut
    BY <1>1 DEF Slice
<1>3. ASSUME NEW i \in (offset + 1)..(offset + Len(part)) PROVE bytes[i] \in Byte
    BY <1>1, <1>3, ElementOfSeq
<1>4. cut \in Seq(Byte) /\ Len(cut) = Len(part)
  <2>1. /\ Len(cut) = IF offset + 1 <= offset + Len(part)
                      THEN (offset + Len(part)) - (offset + 1) + 1 ELSE 0
        /\ cut \in Seq(Byte)
      BY <1>1, <1>3, SubSeqProperties
  <2> QED  BY <1>1, <2>1
<1>5. ASSUME NEW i \in 1..Len(part) PROVE cut[i] = part[i]
  <2>1. cut[i] = bytes[offset + i]
      BY <1>1, <1>3
  <2> QED  BY <2>1 DEF Holds
<1> HIDE DEF cut
<1>6. cut = part
    BY <1>4, <1>5, SeqEqual
<1> QED  BY <1>2, <1>6

LEMMA ByteSmall == ASSUME NEW byte \in Byte PROVE ToUint32(byte) = byte
<1> DEFINE cube == Radix * Radix * Radix
<1>1. cube >= 1 /\ cube \in Nat
    BY RadixTyped
<1>2. cube * Radix >= Radix
  <2> HIDE DEF cube
  <2> QED  BY <1>1, RadixTyped
<1>3. byte \in 0..(Word - 1)
    BY <1>2, RadixTyped DEF Byte
<1> QED  BY <1>3, WordKept

\* The parts of a frame that begins with its opcode
LEMMA OpcodeFrameParts ==
    ASSUME NEW opcode \in Byte, NEW id \in Id, NEW payload \in Seq(Byte),
           NEW bytes, bytes = OpcodeFrame(opcode, id, payload)
    PROVE  /\ bytes \in Seq(Byte) /\ Len(bytes) = 20 + Len(payload) /\ Len(payload) \in Nat
           /\ Holds(bytes, 4, id) /\ Holds(bytes, 20, payload) /\ U32At(bytes, 0) = opcode
<1>1. PICK head : head = u32Bytes(opcode)
    OBVIOUS
<1>2. PICK rest : rest = id \o payload
    OBVIOUS
<1>3. head \in Seq(Byte) /\ Len(head) = 4 /\ id \in Seq(Byte) /\ Len(id) = 16
    BY <1>1, U32Written DEF Id
<1>4. Len(payload) \in Nat
    BY LenProperties
<1>5. bytes = head \o rest
    BY <1>1, <1>2, OpcodeWritten DEF OpcodeFrame
<1>6. /\ rest \in Seq(Byte) /\ Len(rest) = Len(id) + Len(payload)
      /\ Holds(rest, 0, id) /\ Holds(rest, Len(id), payload)
    BY <1>2, <1>3, HoldsParts
<1>7. /\ bytes \in Seq(Byte) /\ Len(bytes) = Len(head) + Len(rest)
      /\ Holds(bytes, 0, head) /\ Holds(bytes, Len(head), rest)
    BY <1>3, <1>5, <1>6, HoldsParts
<1>8. U32At(bytes, 0) = opcode
  <2>1. U32At(bytes, 0) = ToUint32(opcode)
      BY <1>1, <1>7, HoldsWord
  <2> QED  BY <2>1, ByteSmall
<1>9. Len(bytes) = 20 + Len(payload) /\ Len(rest) \in Nat /\ Len(bytes) \in Nat
    BY <1>3, <1>4, <1>6, <1>7
<1>10. Holds(rest, 0, id) /\ Holds(rest, 16, payload) /\ Holds(bytes, 4, rest)
    BY <1>3, <1>6, <1>7
<1>11. Holds(bytes, 4 + 0, id)
    BY <1>3, <1>9, <1>10, HoldsWithin
<1>12. Holds(bytes, 4 + 16, payload)
    BY <1>4, <1>9, <1>10, HoldsWithin
<1> QED  BY <1>4, <1>7, <1>8, <1>9, <1>11, <1>12

--------------------------------------------------------------------------------
(***************************************************************************)
(* Errors.                                                                 *)
(***************************************************************************)
\* The codes fit in their four bytes.
LEMMA CodesWritten ==
    ASSUME NEW code \in {50000, 50001, 50004}
    PROVE  ToUint32(code) = code
<1> DEFINE square == Radix * Radix
<1>1. square >= 125 * 125 /\ square \in Nat
    BY RadixTyped
<1>2. Word = square * square
    BY RadixTyped
<1>3. square * square >= 15625 * 15625
  <2> HIDE DEF square
  <2> QED  BY <1>1
<1>4. code \in 0..(Word - 1)
  <2> HIDE DEF square
  <2> QED  BY <1>2, <1>3, WordTyped
<1> QED  BY <1>4, WordKept

LEMMA EnvelopeBytes ==
    ASSUME NEW id \in Id, NEW code \in Nat, ToUint32(code) = code,
           NEW bytes, bytes = errorResult(id, code, Info)
    PROVE  bytes \in Seq(Byte) /\ Len(bytes) = 21 /\ bytes[21] = 100 /\ U32At(bytes, 16) = code
<1>1. PICK middle : middle = u32Bytes(code)
    OBVIOUS
<1>2. PICK text : text = Info
    OBVIOUS
<1>3. PICK rest : rest = middle \o text
    OBVIOUS
<1>4. /\ middle \in Seq(Byte) /\ Len(middle) = 4 /\ text \in Seq(Byte)
      /\ text = <<100>> /\ Len(text) = 1
    BY <1>1, <1>2, U32Written, RadixTyped DEF Info, Byte
<1>5. id \in Seq(Byte) /\ Len(id) = 16
    BY DEF Id
<1>6. bytes = id \o rest
  <2>1. errorResult(id, code, Info) = id \o (u32Bytes(code) \o Info)
      BY EnvelopeTyped
  <2> QED  BY <1>1, <1>2, <1>3, <2>1, Zenon
<1>7. /\ rest \in Seq(Byte) /\ Len(rest) = Len(middle) + Len(text)
      /\ Holds(rest, 0, middle) /\ Holds(rest, Len(middle), text)
    BY <1>3, <1>4, HoldsParts
<1>8. /\ bytes \in Seq(Byte) /\ Len(bytes) = Len(id) + Len(rest) /\ Holds(bytes, Len(id), rest)
    BY <1>5, <1>6, <1>7, HoldsParts
<1>9. /\ Len(bytes) = 21 /\ Len(rest) = 5
      /\ Holds(bytes, 16, rest) /\ Holds(rest, 4, text)
    BY ONLY <1>4, <1>5, <1>7, <1>8
<1>10. Holds(bytes, 16 + 0, middle)
    BY ONLY <1>4, <1>7, <1>9, HoldsWithin
<1>11. Holds(bytes, 16 + 4, <<100>>)
    BY ONLY <1>4, <1>9, HoldsWithin
<1>12. bytes[21] = 100
    BY <1>11, HoldsByte
<1>13. U32At(bytes, 16) = ToUint32(code)
    BY <1>1, <1>10, HoldsWord
<1> QED  BY <1>8, <1>9, <1>12, <1>13

LEMMA FailureBytes ==
    ASSUME NEW id \in Id, NEW bytes, bytes = id \o u32Bytes(0)
    PROVE  bytes \in Seq(Byte) /\ Len(bytes) = 20 /\ U32At(bytes, 16) = 0
<1>1. PICK status : status = u32Bytes(0)
    OBVIOUS
<1>2. status \in Seq(Byte) /\ Len(status) = 4 /\ id \in Seq(Byte) /\ Len(id) = 16
    BY <1>1, U32Written DEF Id
<1>3. /\ bytes \in Seq(Byte) /\ Len(bytes) = Len(id) + Len(status) /\ Holds(bytes, Len(id), status)
    BY <1>1, <1>2, HoldsParts
<1>4. U32At(bytes, 16) = ToUint32(0)
    BY <1>1, <1>2, <1>3, HoldsWord
<1>5. ToUint32(0) = 0
    BY ByteSmall, ByteTyped
<1> QED  BY ONLY <1>2, <1>3, <1>4, <1>5

LEMMA NodeFailureBytes ==
    ASSUME NEW opcode \in Byte, NEW id \in Id, NEW bytes, bytes = OpcodeFrame(opcode, id, << 0 >>)
    PROVE  /\ bytes \in Seq(Byte) /\ Len(bytes) = 21 /\ bytes[21] = 0
           /\ U32At(bytes, 0) = opcode /\ U32At(bytes, 16) = U32At(id, 12)
<1>1. PICK status : status = <<0>>
    OBVIOUS
<1>2. status \in Seq(Byte) /\ Len(status) = 1
    BY <1>1, ByteTyped
<1>3. /\ bytes \in Seq(Byte) /\ Len(bytes) = 20 + Len(status) /\ U32At(bytes, 0) = opcode
      /\ Holds(bytes, 4, id) /\ Holds(bytes, 20, status)
    BY <1>1, <1>2, OpcodeFrameParts
<1>4. bytes[21] = 0
    BY <1>1, <1>3, HoldsByte
<1>5. U32At(bytes, 16) = U32At(id, 12)
  <2>1. Len(id) = 16
      BY DEF Id
  <2>2. /\ bytes[17] = id[13] /\ bytes[18] = id[14] /\ bytes[19] = id[15] /\ bytes[20] = id[16]
    <3>1. \A i \in 1..16 : bytes[4 + i] = id[i]
        BY <1>3, <2>1 DEF Holds
    <3> QED  BY ONLY <3>1
  <2> QED  BY ONLY <2>2 DEF U32At, U16At
<1> QED  BY <1>2, <1>3, <1>4, <1>5

LEMMA FirstBehind ==
    ASSUME NEW bytes \in Seq(Byte), NEW n \in Nat, n = Len(bytes), n >= 20, n # 20
    PROVE  SliceFrom(bytes, 20)[1] = bytes[21]
<1>1. ASSUME NEW i \in 21..n PROVE bytes[i] \in Byte
  <2>1. i \in 1..Len(bytes)
      OBVIOUS
  <2> QED  BY <2>1, ElementOfSeq
<1>2. \A i \in 1..(n - 21 + 1) : SubSeq(bytes, 21, n)[i] = bytes[21 + i - 1]
    BY <1>1, SubSeqProperties
<1>3. 1 \in 1..(n - 21 + 1) /\ 21 + 1 - 1 = 21
  <2>1. n >= 21
      BY ONLY n \in Nat, n >= 20, n # 20
  <2> QED  BY ONLY <2>1
<1> QED  BY <1>2, <1>3 DEF SliceFrom

\* The page takes a frame for a success by one byte or one number.
LEMMA PageVerdict ==
    ASSUME NEW bytes \in Seq(Byte), Len(bytes) \in Nat, Len(bytes) >= 20, NEW pending,
           isOpcodeFrame(bytes) => Len(bytes) = 20 \/ bytes[21] # 1,
           ~isOpcodeFrame(bytes) => U32At(bytes, 16) # 1
    PROVE  ~inspectIncomingFrame(bytes, pending).ok
<1>0. PICK n \in Nat : n = Len(bytes) /\ n >= 20
    OBVIOUS
<1>1. bytes # << >>
    OBVIOUS
<1>2. CASE isOpcodeFrame(bytes)
  <2> DEFINE payload == SliceFrom(bytes, 20)
  <2>1. inspectIncomingFrame(bytes, pending) = parseSynapOpcodeFrame(bytes, frameOpcode(bytes))
      BY <1>1, <1>2 DEF inspectIncomingFrame
  <2>2. ~(payload # << >> /\ payload[1] = 1)
    <3>1. payload = SubSeq(bytes, 21, Len(bytes))
        BY DEF SliceFrom
    <3>2. CASE Len(bytes) = 20
        BY <3>1, <3>2
    <3>3. CASE Len(bytes) # 20
      <4>1. payload[1] = bytes[21]
          BY <1>0, <3>3, FirstBehind
      <4> QED  BY <1>2, <3>3, <4>1
    <3> QED  BY <3>2, <3>3
  <2> HIDE DEF payload
  <2>3. ASSUME NEW opcode PROVE ~parseSynapOpcodeFrame(bytes, opcode).ok
      BY <2>2 DEF parseSynapOpcodeFrame, Shown, payload
  <2> QED  BY <2>1, <2>3
<1>3. CASE ~isOpcodeFrame(bytes)
  <2> DEFINE id == extractResponseId(bytes)
             hint == IF id \in DOMAIN pending THEN pending[id] ELSE 0
             read == IF hint \in SamsaraOps THEN parseSamsaraResult(bytes, hint)
                     ELSE parseErrorFrame(bytes, hint)
  <2>1. inspectIncomingFrame(bytes, pending) = [read EXCEPT !.consumes = id]
      BY <1>1, <1>3 DEF inspectIncomingFrame
  <2>2. \A opcode : /\ parseErrorFrame(bytes, opcode).ok = FALSE
                    /\ DOMAIN parseErrorFrame(bytes, opcode) = {"title", "consumes", "ok", "data"}
      BY DEF parseErrorFrame, Shown
  <2>3. \A opcode : /\ parseSamsaraResult(bytes, opcode).ok = FALSE
                    /\ DOMAIN parseSamsaraResult(bytes, opcode) = {"title", "consumes", "ok", "data"}
      BY <1>3, <2>2 DEF parseSamsaraResult, Shown
  <2>4. read.ok = FALSE /\ DOMAIN read = {"title", "consumes", "ok", "data"}
      BY <2>2, <2>3
  <2> HIDE DEF read
  <2> QED  BY <2>1, <2>4
<1> QED  BY <1>2, <1>3

\* The library takes the status of an answer of Samsara from its seventeenth byte on,
\* and the outcome of an answer of the node from its last but the data.
LEMMA LibraryStatus ==
    ASSUME NEW name \in Operations, NEW bytes, Result(name, bytes) # Thrown
    PROVE  Result(name, bytes).status = U32At(bytes, 16)
<1> DEFINE value == SliceFrom(bytes, 20)
<1>1. StatusResult(bytes) # Thrown => StatusResult(bytes).status = U32At(bytes, 16)
    BY DEF StatusResult, readResultMessage
<1>2. CellIndexResult(bytes) # Thrown => CellIndexResult(bytes).status = U32At(bytes, 16)
    BY DEF CellIndexResult, readResultMessage
<1>3. readResult(bytes) # Thrown => readResult(bytes).status = U32At(bytes, 16)
    BY DEF readResult, readResultMessage
<1>4. readFreeResult(bytes) # Thrown => readFreeResult(bytes).status = U32At(bytes, 16)
    BY DEF readFreeResult, readResultMessage
<1>5. readCellResult(bytes) # Thrown => readCellResult(bytes).status = U32At(bytes, 16)
    BY DEF readCellResult, readResultMessage
<1>6. \/ Result(name, bytes) = StatusResult(bytes) \/ Result(name, bytes) = CellIndexResult(bytes)
      \/ Result(name, bytes) = readResult(bytes) \/ Result(name, bytes) = readFreeResult(bytes)
      \/ Result(name, bytes) = readCellResult(bytes)
    BY DEF Result, createDbResult, deleteDbResult, writeResult, deleteResult, diferirResult,
           cruzarResult
<1> QED  BY <1>1, <1>2, <1>3, <1>4, <1>5, <1>6

LEMMA LibraryOutcome ==
    ASSUME NEW card, NEW bytes, bytes[21] # 1, synapResult(card, bytes) # Thrown
    PROVE  ~synapResult(card, bytes).ok
<1> DEFINE read == parseStatusResponse(bytes)
<1>1. read # Thrown => ~read.ok /\ DOMAIN read = {"opcode", "id", "status", "ok", "payload"}
    BY DEF parseStatusResponse, readResultMessage
<1>2. \A name, value : name # "ok" /\ read # Thrown => ~With(read, name, value).ok
    BY <1>1 DEF With
<1> HIDE DEF read
<1>3. CASE read = Thrown
    BY <1>3 DEF synapResult, read
<1>4. CASE read # Thrown
    BY <1>1, <1>2, <1>4 DEF synapResult, read
<1> QED  BY <1>3, <1>4

--------------------------------------------------------------------------------
\* An error is read as an error by whoever asked: the page looks for a byte in the frames
\* it takes for the node's and for a number in the others, the library for the byte or the
\* number by the card, and none of them is there, but for an id that ends as a success
\* would in a request that went to the wrong engine (parseSynapOpcodeFrame,
\* parseSamsaraResult, parseStatusResponse, the results of the cards).
THEOREM ErrorsAreErrors == Spec => []ErrorsNeverReadAsDone
<1>1. ExchangeInv => ErrorsNeverReadAsDone
  <2> SUFFICES ASSUME ExchangeInv, stage = "shown", answer.kind \in {"failed", "envelope"}
               PROVE  CASE ask.sender = "page" -> ~shown.ok
                        [] ask.sender = "library" /\ shown # Thrown ->
                              IF ask.name \in Operations THEN shown.status = 1 => StatusInId
                              ELSE ~shown.ok
                        [] OTHER -> TRUE
      BY DEF ErrorsNeverReadAsDone
  <2>1. /\ Asked /\ verdict = classifyFrame(frame) /\ Replied
        /\ shown = IF ask.sender = "page" THEN inspectIncomingFrame(reply, Remembered)
                   ELSE LibraryReads
      BY DEF ExchangeInv
  <2>2. verdict.id \in Id
      BY <2>1, IdTyped
  <2>3. /\ reply \in Seq(Byte) /\ Len(reply) \in Nat /\ Len(reply) >= 20
        /\ Len(reply) = 20 \/ reply[21] # 1
        /\ ask.name \notin Operations => reply[21] # 1
        /\ ~isOpcodeFrame(reply) => U32At(reply, 16) # 1
        /\ ask.name \in Operations /\ U32At(reply, 16) = 1 => StatusInId
    <3>1. CASE answer.kind = "envelope"
      <4>1. PICK code \in {50000, 50001, 50004} : reply = errorResult(verdict.id, code, Info)
          BY <2>1, <3>1 DEF Replied, Envelope
      <4>2. code \in Nat /\ ToUint32(code) = code /\ code # 1
          BY CodesWritten
      <4>3. reply \in Seq(Byte) /\ Len(reply) = 21 /\ reply[21] = 100 /\ U32At(reply, 16) = code
          BY ONLY <2>2, <4>1, <4>2, EnvelopeBytes
      <4> QED  BY ONLY <4>2, <4>3
    <3>2. CASE answer.kind = "failed" /\ verdict.target = "samsara"
      <4>1. reply = verdict.id \o u32Bytes(0)
          BY <2>1, <3>2 DEF Replied, Failure
      <4>2. reply \in Seq(Byte) /\ Len(reply) = 20 /\ U32At(reply, 16) = 0
          BY <2>2, <4>1, FailureBytes
      <4>3. ask.name \in Operations
          BY <2>1, <3>2, Served
      <4> QED  BY <4>2, <4>3
    <3>3. CASE answer.kind = "failed" /\ verdict.target = "synap2p"
      <4>1. reply = buildErrorResponse(verdict.opcode, verdict.id)
          BY <2>1, <3>3 DEF Replied, Failure
      <4>2. /\ ServedName \in CardNames /\ OP[ServedName] = verdict.opcode
            /\ verdict.id = ask.fields.id
            /\ ask.name \in Operations => ask.foreign
          BY <2>1, <3>3, Served
      <4>3. verdict.opcode \in Byte /\ verdict.opcode \in KNOWN_OPCODES
        <5>1. ServedName \in Names /\ ServedName \in DOMAIN OP
          <6>1. DOMAIN OP = SynapOps \cup Operations
              BY Operation DEF OP
          <6> QED  BY <4>2, <6>1 DEF Names, SynapOps, CardNames
        <5> QED  BY <4>2, <5>1, OpcodesTyped DEF KNOWN_OPCODES
      <4>4. reply = OpcodeFrame(verdict.opcode, verdict.id, <<0>>)
        <5>1. << >> \in Seq(Byte)
            OBVIOUS
        <5> QED  BY <2>2, <4>1, <4>3, <5>1, NodeAnswer
      <4>5. /\ reply \in Seq(Byte) /\ Len(reply) = 21 /\ reply[21] = 0 /\ U32At(reply, 0) = verdict.opcode
            /\ U32At(reply, 16) = U32At(ask.fields.id, 12)
          BY <2>2, <4>2, <4>3, <4>4, NodeFailureBytes
      <4>6. isOpcodeFrame(reply)
        <5>1. frameOpcode(reply) = verdict.opcode
          <6>1. Radix \in Nat /\ Radix > 0 /\ verdict.opcode \in 0..(Radix - 1)
              BY <4>3, RadixTyped DEF Byte
          <6>2. verdict.opcode % Radix = verdict.opcode
              BY <6>1, DivSmall
          <6> QED  BY <4>5, <6>2 DEF frameOpcode
        <5> QED  BY <4>3, <4>5, <5>1 DEF isOpcodeFrame
      <4> QED  BY <3>3, <4>2, <4>5, <4>6 DEF StatusInId
    <3>4. \/ answer.kind = "envelope"
          \/ answer.kind = "failed" /\ verdict.target \in {"samsara", "synap2p"}
        BY <2>1, Verdicts DEF Replied
    <3> QED  BY ONLY <3>1, <3>2, <3>3, <3>4
  <2>4. CASE ask.sender = "page"
    <3>1. ~inspectIncomingFrame(reply, Remembered).ok
        BY <2>3, PageVerdict
    <3> QED  BY <2>1, <2>4, <3>1
  <2>5. CASE ask.sender = "library" /\ shown # Thrown /\ ask.name \in Operations
    <3>1. shown = Result(ask.name, reply)
        BY <2>1, <2>5, Operation DEF LibraryReads
    <3>2. shown.status = U32At(reply, 16)
        BY <2>5, <3>1, LibraryStatus
    <3> QED  BY <2>3, <2>5, <3>2
  <2>6. CASE ask.sender = "library" /\ shown # Thrown /\ ask.name \notin Operations
    <3>1. ask.name \in CardNames /\ shown = synapResult(CardOf[ask.name], reply)
        BY <2>1, <2>6 DEF LibraryReads, Asked, Names, CardNames
    <3> QED  BY <2>3, <2>6, <3>1, LibraryOutcome
  <2> QED  BY <2>1, <2>4, <2>5, <2>6 DEF Asked
<1> QED  BY <1>1, ExchangeInvariant, PTL

--------------------------------------------------------------------------------
(***************************************************************************)
(* Where the parts of a request are.                                       *)
(***************************************************************************)
\* The parts follow each other behind the opcode, each where at says.
LaidOut(bytes, pieces, at) ==
    /\ at \in [0..Len(pieces) -> Nat]
    /\ at[0] = 4 /\ at[Len(pieces)] = Len(bytes)
    /\ \A k \in 1..Len(pieces) :
          at[k] = at[k - 1] + Len(pieces[k]) /\ Holds(bytes, at[k - 1], pieces[k])

LEMMA PartsLaidOut ==
    ASSUME NEW head \in Seq(Byte), Len(head) = 4, NEW pieces \in Seq(Seq(Byte)),
           NEW count \in Nat \ {0}, Len(pieces) = count,
           NEW bytes, bytes = head \o FlattenSeq(pieces)
    PROVE  \E at : LaidOut(bytes, pieces, at)
<1>1. PICK f : IsFlatten(f, pieces, count) /\ FlattenSeq(pieces) = f[count]
    BY FlattenUnfolded
<1>2. ASSUME NEW i \in 1..count PROVE pieces[i] \in Seq(Byte) /\ Len(pieces[i]) \in Nat
  <2>1. pieces[i] \in Seq(Byte)
      BY ElementOfSeq
  <2> QED  BY <2>1, LenProperties
<1>3. /\ f[1] = pieces[1]
      /\ \A i \in 1..count : i # 1 => f[i] = f[i - 1] \o pieces[i]
  <2>1. f = [i \in 1..count |-> IF i = 1 THEN pieces[i] ELSE f[i - 1] \o pieces[i]]
      BY <1>1 DEF IsFlatten
  <2>2. ASSUME NEW i \in 1..count
        PROVE  f[i] = IF i = 1 THEN pieces[i] ELSE f[i - 1] \o pieces[i]
      BY ONLY <2>1, <2>2, Zenon
  <2>3. 1 \in 1..count
      OBVIOUS
  <2> QED  BY <2>2, <2>3, Zenon
\* What the beginning up to a part is
<1> DEFINE from == [i \in 1..count |-> IF i = 1 THEN 0 ELSE Len(f[i - 1])]
           Begun(n) == /\ f[n] \in Seq(Byte)
                       /\ Len(f[n]) = from[n] + Len(pieces[n])
                       /\ \A i \in 1..n : from[i] \in Nat /\ Holds(f[n], from[i], pieces[i])
           S == {n \in Nat : n \in 1..count => Begun(n)}
<1>4. from[1] = 0 /\ \A i \in 1..count : i # 1 => from[i] = Len(f[i - 1])
    OBVIOUS
<1> HIDE DEF from
<1>5. 0 \in S
    OBVIOUS
<1>6. ASSUME NEW n \in Nat, n \in S PROVE n + 1 \in S
  <2> SUFFICES ASSUME n + 1 \in 1..count PROVE Begun(n + 1)
      OBVIOUS
  <2>1. PICK part : part = pieces[n + 1]
      OBVIOUS
  <2>2. part \in Seq(Byte) /\ Len(part) \in Nat
      BY <1>2, <2>1
  <2>3. CASE n = 0
    <3>1. f[1] = part /\ from[1] = 0 /\ n + 1 = 1
        BY <1>3, <1>4, <2>1, <2>3
    <3>2. Holds(part, 0, part)
        BY <2>2 DEF Holds
    <3>3. \A i \in 1..1 : i = 1
        OBVIOUS
    <3> QED  BY <2>1, <2>2, <3>1, <3>2, <3>3
  <2>4. CASE n # 0
    <3>1. PICK front : front = f[n]
        OBVIOUS
    <3>2. PICK all : all = front \o part
        OBVIOUS
    <3>3. /\ n \in 1..count /\ Begun(n) /\ front \in Seq(Byte)
        BY <1>6, <2>4, <3>1
    <3>4. f[n + 1] = all /\ from[n + 1] = Len(front)
      <4>1. n + 1 \in 1..count /\ n + 1 # 1 /\ (n + 1) - 1 = n
          BY <2>4
      <4>2. f[n + 1] = f[(n + 1) - 1] \o pieces[n + 1] /\ from[n + 1] = Len(f[(n + 1) - 1])
          BY ONLY <1>3, <1>4, <4>1
      <4> QED  BY ONLY <2>1, <3>1, <3>2, <4>1, <4>2
    <3>5. /\ all \in Seq(Byte) /\ Len(all) = Len(front) + Len(part)
          /\ Holds(all, 0, front) /\ Holds(all, Len(front), part)
        BY <2>2, <3>2, <3>3, HoldsParts
    <3>6. Len(front) \in Nat /\ Len(all) \in Nat
        BY <3>3, <3>5, LenProperties
    <3>7. ASSUME NEW i \in 1..n PROVE from[i] \in Nat /\ Holds(all, from[i], pieces[i])
      <4>1. from[i] \in Nat /\ Holds(front, from[i], pieces[i])
          BY <3>1, <3>3
      <4>2. Len(pieces[i]) \in Nat
          BY <1>2
      <4>3. Holds(all, 0 + from[i], pieces[i])
          BY <3>5, <3>6, <4>1, <4>2, HoldsWithin
      <4> QED  BY <4>1, <4>3
    <3>8. ASSUME NEW i \in 1..(n + 1) PROVE from[i] \in Nat /\ Holds(all, from[i], pieces[i])
      <4>1. CASE i = n + 1
          BY <2>1, <3>4, <3>5, <3>6, <4>1
      <4>2. CASE i # n + 1
        <5>1. i \in 1..n
            BY <4>2
        <5> QED  BY <3>7, <5>1
      <4> QED  BY <4>1, <4>2
    <3> QED  BY <2>1, <3>4, <3>5, <3>8
  <2> QED  BY <2>3, <2>4
<1>7. \A n \in 1..count : Begun(n)
  <2> HIDE DEF S
  <2>1. \A n \in Nat : n \in S
      BY <1>5, <1>6, SetInduction
  <2>2. \A n \in 1..count : n \in Nat
      OBVIOUS
  <2> QED  BY <2>1, <2>2 DEF S
<1> HIDE DEF Begun, S
<1>8. PICK body : body = f[count]
    OBVIOUS
<1>9. /\ bytes = head \o body /\ body \in Seq(Byte) /\ count \in 1..count
      /\ Len(body) = from[count] + Len(pieces[count])
      /\ \A i \in 1..count : from[i] \in Nat /\ Holds(body, from[i], pieces[i])
  <2>1. count \in 1..count
      OBVIOUS
  <2> QED  BY <1>1, <1>7, <1>8, <2>1 DEF Begun
<1>10. /\ bytes \in Seq(Byte) /\ Len(bytes) = 4 + Len(body) /\ Holds(bytes, 4, body)
    BY <1>9, HoldsParts
<1>11. Len(bytes) \in Nat /\ Len(body) \in Nat
    BY <1>9, <1>10, LenProperties
<1>12. ASSUME NEW i \in 1..count PROVE Holds(bytes, 4 + from[i], pieces[i])
    BY <1>2, <1>9, <1>10, <1>11, HoldsWithin
<1>13. ASSUME NEW i \in 1..count, i # 1 PROVE from[i] = from[i - 1] + Len(pieces[i - 1])
  <2>1. i - 1 \in 1..count
      BY <1>13
  <2> QED  BY <1>4, <1>7, <1>13, <2>1 DEF Begun
<1> DEFINE at == [k \in 0..count |-> IF k = count THEN Len(bytes) ELSE 4 + from[k + 1]]
<1>14. \A k \in 1..count : at[k - 1] = 4 + from[k]
    OBVIOUS
<1>15. at[0] = 4 /\ at[count] = Len(bytes) /\ at \in [0..count -> Nat]
  <2>1. \A k \in 0..count : k # count => k + 1 \in 1..count
      OBVIOUS
  <2> QED  BY <1>4, <1>9, <1>11, <2>1
<1>16. ASSUME NEW k \in 1..count
       PROVE  at[k] = at[k - 1] + Len(pieces[k]) /\ Holds(bytes, at[k - 1], pieces[k])
  <2>1. CASE k = count
      BY <1>2, <1>9, <1>10, <1>12, <1>14, <1>15, <2>1
  <2>2. CASE k # count
    <3>1. k + 1 \in 1..count /\ k + 1 # 1 /\ (k + 1) - 1 = k
        BY <2>2
    <3>2. from[k + 1] = from[k] + Len(pieces[k])
        BY <1>13, <3>1
    <3>3. at[k] = 4 + from[k + 1]
        BY <1>14, <3>1
    <3> QED  BY SMTT(30), <1>2, <1>9, <1>12, <1>14, <3>2, <3>3
  <2> QED  BY <2>1, <2>2
<1> HIDE DEF at
<1>17. LaidOut(bytes, pieces, at)
    BY <1>15, <1>16 DEF LaidOut
<1> QED  BY <1>17

--------------------------------------------------------------------------------
(***************************************************************************)
(* The cursor of a reader.                                                 *)
(***************************************************************************)
IsReading(cursor, message, steps, n) ==
    cursor = [i \in 0..n |-> IF i = 0 THEN [makeCursor(message) EXCEPT !.offset = 4]
                             ELSE Step(cursor[i - 1], steps[i])]

LEMMA ReadingExists ==
    ASSUME NEW message, NEW steps PROVE \A n \in Nat : \E c : IsReading(c, message, steps, n)
<1> DEFINE first == [makeCursor(message) EXCEPT !.offset = 4]
           S == {n \in Nat : \E c : IsReading(c, message, steps, n)}
<1>1. 0 \in S
  <2> DEFINE c == [i \in 0..0 |-> first]
  <2>1. c = [i \in 0..0 |-> IF i = 0 THEN first ELSE Step(c[i - 1], steps[i])]
    <3>1. \A i \in 0..0 : i = 0
        OBVIOUS
    <3> HIDE DEF first
    <3> QED  BY <3>1
  <2> HIDE DEF c
  <2>2. IsReading(c, message, steps, 0)
      BY <2>1 DEF IsReading
  <2> QED  BY <2>2
<1>2. ASSUME NEW n \in Nat, n \in S PROVE n + 1 \in S
  <2>1. PICK c : IsReading(c, message, steps, n)
      BY <1>2
  <2> DEFINE d == [i \in 0..(n + 1) |-> IF i = n + 1 THEN Step(c[n], steps[n + 1]) ELSE c[i]]
  <2>2. ASSUME NEW i \in 0..n
        PROVE  c[i] = IF i = 0 THEN first ELSE Step(c[i - 1], steps[i])
    <3>1. c = [j \in 0..n |-> IF j = 0 THEN first ELSE Step(c[j - 1], steps[j])]
        BY <2>1 DEF IsReading
    <3> HIDE DEF first
    <3> QED  BY ONLY <2>2, <3>1, Zenon
  <2>3. ASSUME NEW i \in 0..(n + 1)
        PROVE  d[i] = IF i = 0 THEN first ELSE Step(d[i - 1], steps[i])
    <3> HIDE DEF first
    <3>1. CASE i = n + 1
      <4>1. d[i] = Step(c[n], steps[n + 1]) /\ d[i - 1] = c[n] /\ i # 0
          BY <3>1
      <4> HIDE DEF d
      <4> QED  BY <3>1, <4>1
    <3>2. CASE i # n + 1
      <4>1. i \in 0..n /\ d[i] = c[i] /\ (i # 0 => i - 1 \in 0..n /\ d[i - 1] = c[i - 1])
          BY <3>2
      <4> HIDE DEF d
      <4> QED  BY <2>2, <4>1
    <3> QED  BY <3>1, <3>2
  <2>4. IsReading(d, message, steps, n + 1)
    <3>1. d = [i \in 0..(n + 1) |-> d[i]]
        OBVIOUS
    <3> HIDE DEF d
    <3> QED  BY <2>3, <3>1, Zenon DEF IsReading
  <2> HIDE DEF d
  <2> QED  BY <2>4
<1> HIDE DEF S
<1>3. \A n \in Nat : n \in S
    BY <1>1, <1>2, SetInduction
<1> QED  BY <1>3 DEF S

LEMMA ReadUnfolded ==
    ASSUME NEW message, NEW minLength, NEW steps, Len(steps) \in Nat
    PROVE  \E c : /\ IsReading(c, message, steps, Len(steps))
                  /\ readRequest(message, minLength, steps) =
                        IF Len(message) < minLength \/ c[Len(steps)].short THEN Thrown
                        ELSE Restrict(c[Len(steps)].read,
                                      DOMAIN c[Len(steps)].read \ Lengths(steps))
<1> DEFINE c == CHOOSE c : IsReading(c, message, steps, Len(steps))
<1>1. IsReading(c, message, steps, Len(steps))
    BY ReadingExists
<1>2. readRequest(message, minLength, steps) =
          IF Len(message) < minLength \/ c[Len(steps)].short THEN Thrown
          ELSE Restrict(c[Len(steps)].read, DOMAIN c[Len(steps)].read \ Lengths(steps))
    BY DEF readRequest, IsReading
<1> HIDE DEF c
<1> QED  BY <1>1, <1>2, Zenon

--------------------------------------------------------------------------------
\* What a step makes of the part it is for
ValueOf(step, piece) == IF step.size = "u32" THEN U32At(piece, 0) ELSE piece

\* The steps are for these parts: no name comes twice, and a length goes before what
\* it is the length of.
Fits(steps, pieces, place) ==
    /\ Len(steps) = Len(pieces)
    /\ \A k \in 1..Len(pieces) :
        /\ place[steps[k].name] = k
        /\ \/ steps[k].size = "u32" /\ Len(pieces[k]) = 4
           \/ steps[k].size = "16" /\ Len(pieces[k]) = 16
           \/ /\ steps[k].size \notin {"u32", "16"}
              /\ \E j \in 1..(k - 1) :
                    /\ steps[j].name = steps[k].size /\ steps[j].size = "u32"
                    /\ U32At(pieces[j], 0) = Len(pieces[k])

\* All of a message, or its beginning
Begins(message, whole) ==
    /\ message \in Seq(Byte) /\ Len(message) \in Nat /\ Len(message) <= Len(whole)
    /\ \A i \in 1..Len(message) : message[i] = whole[i]

ReadSoFar(cursor, message, steps, pieces, at, k) ==
    IF at[k] > Len(message) THEN cursor.short
    ELSE /\ cursor = [bytes |-> message, offset |-> at[k], short |-> FALSE, read |-> cursor.read]
         /\ DOMAIN cursor.read = {steps[j].name : j \in 1..k}
         /\ \A j \in 1..k : cursor.read[steps[j].name] = ValueOf(steps[j], pieces[j])

\* Where a step has moved the cursor
Moved(cursor, message, end, object, name, value) ==
    IF end > Len(message) THEN cursor.short
    ELSE cursor = [bytes |-> message, offset |-> end, short |-> FALSE,
                   read |-> With(object, name, value)]

\* The length that a step takes its part to have
Sizes(step, object, length) ==
    \/ step.size = "u32" /\ length = 4
    \/ step.size = "16" /\ length = 16
    \/ step.size \notin {"u32", "16"} /\ object[step.size] = length

At(cursor, message, offset, object) ==
    cursor = [bytes |-> message, offset |-> offset, short |-> FALSE, read |-> object]

LEMMA HeldBeginning ==
    ASSUME NEW message, NEW whole, Begins(message, whole), NEW offset \in Nat, NEW piece,
           Len(piece) \in Nat, Holds(whole, offset, piece), offset + Len(piece) <= Len(message)
    PROVE  Holds(message, offset, piece)
<1>1. ASSUME NEW i \in 1..Len(piece) PROVE message[offset + i] = piece[i]
  <2>1. offset + i \in 1..Len(message)
      BY DEF Begins
  <2> QED  BY <2>1 DEF Begins, Holds
<1> QED  BY <1>1 DEF Holds

LEMMA Advanced ==
    ASSUME NEW message, Len(message) \in Nat, NEW offset \in Nat, NEW length \in Nat, NEW object,
           NEW cursor, At(cursor, message, offset, object), NEW end, end = offset + length,
           NEW name, NEW value, NEW next, next = Advance(cursor, name, length, value)
    PROVE  Moved(next, message, end, object, name, value)
BY DEF Advance, Moved, At

\* A step reads its part if all of it is there, and else throws.
LEMMA PartRead ==
    ASSUME NEW message, NEW whole, Begins(message, whole), NEW piece \in Seq(Byte),
           NEW length \in Nat, length = Len(piece), NEW offset \in Nat,
           NEW end, end = offset + length,
           Holds(whole, offset, piece), NEW step, NEW object, NEW cursor,
           At(cursor, message, offset, object), Sizes(step, object, length),
           NEW next, next = Step(cursor, step)
    PROVE  Moved(next, message, end, object, step.name, ValueOf(step, piece))
<1>1. /\ Len(message) \in Nat /\ message \in Seq(Byte)
      /\ cursor.bytes = message /\ cursor.offset = offset /\ ~cursor.short
      /\ cursor.read = object
    BY DEF Begins, At
<1>2. \E value : /\ next = Advance(cursor, step.name, length, value)
                 /\ end <= Len(message) => value = ValueOf(step, piece)
  <2>1. CASE step.size = "u32"
    <3>1. length = 4
        BY <2>1 DEF Sizes
    <3>2. next = Advance(cursor, step.name, length, U32At(message, offset))
        BY <1>1, <2>1, <3>1 DEF Step, readNumber
    <3>3. ASSUME end <= Len(message) PROVE U32At(message, offset) = ValueOf(step, piece)
      <4>1. Holds(message, offset, piece)
          BY <3>3, HeldBeginning
      <4>2. \A i \in 1..4 : message[offset + i] = piece[i]
          BY <3>1, <4>1 DEF Holds
      <4>3. U32At(message, offset) = U32At(piece, 0)
          BY <4>2, U32Within
      <4> QED  BY <2>1, <4>3 DEF ValueOf
    <3> QED  BY <3>2, <3>3
  <2>2. CASE step.size # "u32"
    <3>1. next = Advance(cursor, step.name, length, Slice(message, offset, offset + length))
        BY <1>1, <2>2 DEF Step, bytesSlice, Sizes
    <3>2. ASSUME end <= Len(message)
          PROVE  Slice(message, offset, offset + length) = ValueOf(step, piece)
      <4>1. Holds(message, offset, piece)
          BY <3>2, HeldBeginning
      <4>2. Slice(message, offset, offset + length) = piece
          BY <1>1, <4>1, HoldsSlice
      <4> QED  BY <2>2, <4>2 DEF ValueOf
    <3> QED  BY <3>1, <3>2
  <2> QED  BY <2>1, <2>2
<1>3. PICK value : /\ next = Advance(cursor, step.name, length, value)
                   /\ end <= Len(message) => value = ValueOf(step, piece)
    BY <1>2
<1>4. Moved(next, message, end, object, step.name, value)
    BY <1>1, <1>3, Advanced
<1>5. CASE end <= Len(message)
    BY ONLY <1>3, <1>4, <1>5
<1>6. CASE end > Len(message)
    BY ONLY <1>4, <1>6 DEF Moved
<1>7. end <= Len(message) \/ end > Len(message)
    BY <1>1
<1> QED  BY ONLY <1>5, <1>6, <1>7

LEMMA StepRead ==
    ASSUME NEW message, NEW whole, Begins(message, whole),
           NEW pieces \in Seq(Seq(Byte)), Len(pieces) \in Nat,
           NEW at, LaidOut(whole, pieces, at),
           NEW steps, NEW place, Fits(steps, pieces, place),
           NEW k \in 1..Len(pieces),
           NEW cursor, ReadSoFar(cursor, message, steps, pieces, at, k - 1),
           NEW next, next = Step(cursor, steps[k])
    PROVE  ReadSoFar(next, message, steps, pieces, at, k)
<1>1. PICK piece : piece = pieces[k]
    OBVIOUS
<1>2. PICK offset : offset = at[k - 1]
    OBVIOUS
<1>3. PICK length : length = Len(piece)
    OBVIOUS
<1>4. PICK step : step = steps[k]
    OBVIOUS
<1>5. PICK object : object = cursor.read
    OBVIOUS
<1>6. /\ piece \in Seq(Byte) /\ length \in Nat /\ offset \in Nat /\ k - 1 \in 0..Len(pieces)
  <2>1. piece \in Seq(Byte) /\ k - 1 \in 0..Len(pieces)
      BY <1>1, ElementOfSeq
  <2>2. length \in Nat
      BY <1>3, <2>1, LenProperties
  <2>3. offset \in Nat
      BY <1>2, <2>1 DEF LaidOut
  <2> QED  BY <2>1, <2>2, <2>3
<1>7. at[k] = offset + length /\ Holds(whole, offset, piece)
    BY <1>1, <1>2, <1>3 DEF LaidOut
<1>8. message \in Seq(Byte) /\ Len(message) \in Nat
    BY DEF Begins
<1>9. CASE offset > Len(message)
  <2>1. cursor.short
      BY <1>2, <1>9 DEF ReadSoFar
  <2>2. next = cursor
      BY <2>1 DEF Step
  <2> QED  BY <1>6, <1>7, <1>8, <1>9, <2>1, <2>2 DEF ReadSoFar
<1>10. CASE ~(offset > Len(message))
  <2>1. /\ cursor = [bytes |-> message, offset |-> offset, short |-> FALSE, read |-> object]
        /\ DOMAIN object = {steps[j].name : j \in 1..(k - 1)}
        /\ \A j \in 1..(k - 1) : object[steps[j].name] = ValueOf(steps[j], pieces[j])
      BY <1>2, <1>5, <1>10 DEF ReadSoFar
  <2>2. Sizes(step, object, length)
    <3>1. \/ step.size = "u32" /\ length = 4
          \/ step.size = "16" /\ length = 16
          \/ /\ step.size \notin {"u32", "16"}
             /\ \E j \in 1..(k - 1) : /\ steps[j].name = step.size /\ steps[j].size = "u32"
                                     /\ U32At(pieces[j], 0) = length
        BY <1>1, <1>3, <1>4 DEF Fits
    <3>2. ASSUME NEW j \in 1..(k - 1), steps[j].name = step.size, steps[j].size = "u32",
                 U32At(pieces[j], 0) = length
          PROVE  object[step.size] = length
        BY <2>1, <3>2 DEF ValueOf
    <3> QED  BY <3>1, <3>2 DEF Sizes
  <2>3. Moved(next, message, at[k], object, step.name, ValueOf(step, piece))
    <3>1. next = Step(cursor, step) /\ At(cursor, message, offset, object)
        BY <1>4, <2>1 DEF At
    <3> QED  BY <1>3, <1>6, <1>7, <2>2, <3>1, PartRead
  <2>4. CASE at[k] > Len(message)
      BY <2>3, <2>4 DEF Moved, ReadSoFar
  <2>5. CASE ~(at[k] > Len(message))
    <3>1. PICK value : value = ValueOf(step, piece)
        OBVIOUS
    <3>2. PICK told : told = With(object, step.name, value)
        OBVIOUS
    <3>3. next = [bytes |-> message, offset |-> at[k], short |-> FALSE, read |-> told]
        BY <2>3, <2>5, <3>1, <3>2 DEF Moved
    <3>4. DOMAIN told = {steps[j].name : j \in 1..k}
      <4>1. 1..k = (1..(k - 1)) \cup {k}
          OBVIOUS
      <4>2. DOMAIN told = DOMAIN object \cup {step.name}
          BY <3>2 DEF With
      <4> QED  BY <1>4, <2>1, <4>1, <4>2, ZenonT(60)
    <3>5. ASSUME NEW j \in 1..k PROVE told[steps[j].name] = ValueOf(steps[j], pieces[j])
      <4>1. CASE j = k
        <5>1. told[step.name] = value
            BY <3>2 DEF With
        <5> QED  BY <1>1, <1>4, <3>1, <4>1, <5>1
      <4>2. CASE j # k
        <5>1. j \in 1..(k - 1) /\ j \in 1..Len(pieces)
            BY <4>2
        <5>2. place[steps[j].name] = j /\ place[step.name] = k
            BY <1>4, <5>1 DEF Fits
        <5>3. steps[j].name # step.name
            BY <4>2, <5>2
        <5>4. steps[j].name \in DOMAIN object
            BY <2>1, <5>1
        <5>5. told[steps[j].name] = object[steps[j].name]
            BY <3>2, <5>3, <5>4 DEF With
        <5> QED  BY <2>1, <5>1, <5>5
      <4> QED  BY <4>1, <4>2
    <3>6. next.read = told
        BY <3>3
    <3> QED  BY <2>5, <3>3, <3>4, <3>5, <3>6 DEF ReadSoFar
  <2> QED  BY <2>4, <2>5
<1> QED  BY <1>9, <1>10

\* A reader throws at a request that is cut, and of a whole one it reads every part.
LEMMA RequestRead ==
    ASSUME NEW message, NEW whole, Begins(message, whole), 4 <= Len(message),
           NEW pieces \in Seq(Seq(Byte)), Len(pieces) \in Nat,
           NEW at, LaidOut(whole, pieces, at),
           NEW steps, NEW place, Fits(steps, pieces, place),
           NEW minLength \in Nat, NEW result, result = readRequest(message, minLength, steps)
    PROVE  /\ Len(message) < Len(whole) => result = Thrown
           /\ Len(message) = Len(whole) /\ minLength <= Len(message) =>
                \A j \in 1..Len(pieces) :
                    steps[j].name \notin Lengths(steps) =>
                        /\ steps[j].name \in DOMAIN result
                        /\ result[steps[j].name] = ValueOf(steps[j], pieces[j])
<1>1. PICK count \in Nat : count = Len(pieces)
    OBVIOUS
<1>2. Len(steps) = count
    BY <1>1 DEF Fits
<1>3. PICK c : /\ IsReading(c, message, steps, count)
               /\ result = IF Len(message) < minLength \/ c[count].short THEN Thrown
                           ELSE Restrict(c[count].read, DOMAIN c[count].read \ Lengths(steps))
  <2>1. \E c : /\ IsReading(c, message, steps, Len(steps))
               /\ readRequest(message, minLength, steps) =
                      IF Len(message) < minLength \/ c[Len(steps)].short THEN Thrown
                      ELSE Restrict(c[Len(steps)].read,
                                    DOMAIN c[Len(steps)].read \ Lengths(steps))
      BY <1>2, ReadUnfolded
  <2> QED  BY <1>2, <2>1
<1>4. Len(message) \in Nat /\ Len(whole) = at[count] /\ at[0] = 4 /\ at[count] \in Nat
  <2>1. 0 \in 0..Len(pieces) /\ count \in 0..Len(pieces)
      BY <1>1
  <2> QED  BY <1>1, <2>1 DEF Begins, LaidOut
<1>5. ASSUME NEW i \in 0..count
      PROVE  c[i] = IF i = 0 THEN [makeCursor(message) EXCEPT !.offset = 4]
                    ELSE Step(c[i - 1], steps[i])
  <2>1. c = [j \in 0..count |-> IF j = 0 THEN [makeCursor(message) EXCEPT !.offset = 4]
                                ELSE Step(c[j - 1], steps[j])]
      BY <1>3 DEF IsReading
  <2> QED  BY ONLY <1>5, <2>1, Zenon
<1> DEFINE S == {n \in Nat : n \in 0..count => ReadSoFar(c[n], message, steps, pieces, at, n)}
<1>6. 0 \in S
  <2>1. c[0] = [makeCursor(message) EXCEPT !.offset = 4]
    <3>1. 0 \in 0..count
        OBVIOUS
    <3> QED  BY ONLY <1>5, <3>1, Zenon
  <2>2. c[0] = [bytes |-> message, offset |-> 4, short |-> FALSE, read |-> << >>]
      BY <2>1 DEF makeCursor
  <2>3. c[0].read = << >> /\ DOMAIN c[0].read = {}
      BY <2>2
  <2>4. {steps[j].name : j \in 1..0} = {}
      OBVIOUS
  <2>5. ReadSoFar(c[0], message, steps, pieces, at, 0)
      BY <1>4, <2>2, <2>3, <2>4 DEF ReadSoFar
  <2> QED  BY <2>5
<1>7. ASSUME NEW n \in Nat, n \in S PROVE n + 1 \in S
  <2> SUFFICES ASSUME n + 1 \in 0..count
               PROVE  ReadSoFar(c[n + 1], message, steps, pieces, at, n + 1)
      OBVIOUS
  <2>1. PICK k : k = n + 1
      OBVIOUS
  <2>2. k \in 1..Len(pieces) /\ k - 1 = n /\ n \in 0..count /\ k \in 0..count /\ k # 0
      BY <1>1, <2>1
  <2>3. ReadSoFar(c[k - 1], message, steps, pieces, at, k - 1)
      BY <1>7, <2>2
  <2>4. c[k] = Step(c[k - 1], steps[k])
      BY <1>5, <2>2
  <2>5. ReadSoFar(c[k], message, steps, pieces, at, k)
      BY <2>2, <2>3, <2>4, StepRead
  <2> QED  BY <2>1, <2>5
<1> HIDE DEF S
<1>8. count \in S
    BY <1>6, <1>7, SetInduction
<1>9. ReadSoFar(c[count], message, steps, pieces, at, count)
    BY <1>8 DEF S
<1>10. CASE Len(message) < Len(whole)
  <2>1. c[count].short
      BY <1>4, <1>9, <1>10 DEF ReadSoFar
  <2> QED  BY <1>3, <1>4, <1>10, <2>1
<1>11. CASE ~(Len(message) < Len(whole))
  <2> SUFFICES ASSUME minLength <= Len(message), NEW j \in 1..Len(pieces),
                      steps[j].name \notin Lengths(steps)
               PROVE  /\ steps[j].name \in DOMAIN result
                      /\ result[steps[j].name] = ValueOf(steps[j], pieces[j])
      BY <1>11
  <2>1. PICK object : object = c[count].read
      OBVIOUS
  <2>2. /\ ~c[count].short /\ DOMAIN object = {steps[i].name : i \in 1..count}
        /\ \A i \in 1..count : object[steps[i].name] = ValueOf(steps[i], pieces[i])
      BY <1>4, <1>9, <1>11, <2>1 DEF ReadSoFar
  <2>3. result = [f \in DOMAIN object \ Lengths(steps) |-> object[f]]
      BY <1>3, <1>4, <2>1, <2>2 DEF Restrict
  <2>4. steps[j].name \in DOMAIN object \ Lengths(steps)
      BY <1>1, <2>2
  <2> QED  BY <1>1, <2>2, <2>3, <2>4
<1> QED  BY <1>10, <1>11

--------------------------------------------------------------------------------
(***************************************************************************)
(* The readers of the requests of Samsara.                                 *)
(***************************************************************************)
Steps(name) ==
    CASE name = "CREATE_DB" ->
            <<Sixteen("id"), Number("dbNameLen"), Number("secretLen"), Number("dbSize"),
              Number("genome"), Sized("dbName", "dbNameLen"), Sized("secret", "secretLen")>>
      [] name \in {"DELETE_DB", "READ_CELL"} ->
            <<Sixteen("id"), Number("cellIndex"), Number("dbNameLen"), Number("secretLen"),
              Sized("dbName", "dbNameLen"), Sized("secret", "secretLen")>>
      [] name = "WRITE" ->
            <<Sixteen("id"), Number("cellIndex"), Number("dbNameLen"), Number("keyLen"),
              Number("valueLen"), Number("secretLen"), Sized("dbName", "dbNameLen"),
              Sized("key", "keyLen"), Sized("value", "valueLen"),
              Sized("secret", "secretLen")>>
      [] name \in {"READ", "DELETE"} ->
            <<Sixteen("id"), Number("cellIndex"), Number("dbNameLen"), Number("keyLen"),
              Number("secretLen"), Sized("dbName", "dbNameLen"), Sized("key", "keyLen"),
              Sized("secret", "secretLen")>>
      [] name = "READ_FREE" ->
            <<Sixteen("id"), Number("dbNameLen"), Number("keyLen"),
              Sized("dbName", "dbNameLen"), Sized("key", "keyLen")>>
      [] name = "DIFERIR" ->
            <<Sixteen("id"), Number("dbNameLen"), Number("cellIndex"), Number("secretLen"),
              Number("childGenome"), Number("x"), Number("y"), Number("z"),
              Sixteen("childSalt"), Number("childSecretLen"), Sized("dbName", "dbNameLen"),
              Sized("secret", "secretLen"), Sized("childSecret", "childSecretLen")>>
      [] OTHER ->
            <<Sixteen("id"), Number("dbNameLen"), Number("cellIndexA"),
              Number("cellIndexB"), Number("secretALen"), Number("secretBLen"), Number("x"),
              Number("y"), Number("z"), Number("childSecretLen"),
              Sized("dbName", "dbNameLen"), Sized("secretA", "secretALen"),
              Sized("secretB", "secretBLen"), Sized("childSecret", "childSecretLen")>>

MinLength(name) ==
    CASE name = "CREATE_DB" -> 36
      [] name \in {"DELETE_DB", "READ_CELL"} -> 32
      [] name = "WRITE" -> 40
      [] name \in {"READ", "DELETE"} -> 36
      [] name = "READ_FREE" -> 28
      [] name = "DIFERIR" -> 68
      [] OTHER -> 56

\* At which step a name is read
Place(name) ==
    CASE name = "CREATE_DB" ->
            [id |-> 1, dbNameLen |-> 2, secretLen |-> 3, dbSize |-> 4, genome |-> 5,
             dbName |-> 6, secret |-> 7]
      [] name \in {"DELETE_DB", "READ_CELL"} ->
            [id |-> 1, cellIndex |-> 2, dbNameLen |-> 3, secretLen |-> 4, dbName |-> 5,
             secret |-> 6]
      [] name = "WRITE" ->
            [id |-> 1, cellIndex |-> 2, dbNameLen |-> 3, keyLen |-> 4, valueLen |-> 5,
             secretLen |-> 6, dbName |-> 7, key |-> 8, value |-> 9, secret |-> 10]
      [] name \in {"READ", "DELETE"} ->
            [id |-> 1, cellIndex |-> 2, dbNameLen |-> 3, keyLen |-> 4, secretLen |-> 5,
             dbName |-> 6, key |-> 7, secret |-> 8]
      [] name = "READ_FREE" ->
            [id |-> 1, dbNameLen |-> 2, keyLen |-> 3, dbName |-> 4, key |-> 5]
      [] name = "DIFERIR" ->
            [id |-> 1, dbNameLen |-> 2, cellIndex |-> 3, secretLen |-> 4, childGenome |-> 5,
             x |-> 6, y |-> 7, z |-> 8, childSalt |-> 9, childSecretLen |-> 10,
             dbName |-> 11, secret |-> 12, childSecret |-> 13]
      [] OTHER ->
            [id |-> 1, dbNameLen |-> 2, cellIndexA |-> 3, cellIndexB |-> 4,
             secretALen |-> 5, secretBLen |-> 6, x |-> 7, y |-> 8, z |-> 9,
             childSecretLen |-> 10, dbName |-> 11, secretA |-> 12, secretB |-> 13,
             childSecret |-> 14]

LEMMA ReadersAre ==
    ASSUME NEW name \in Operations, NEW message
    PROVE  Req(name, message) = readRequest(message, MinLength(name), Steps(name))
<1> USE DEF Req, MinLength, Steps
<1>1. CASE name = "CREATE_DB"
    BY <1>1 DEF createDbReq
<1>2. CASE name = "DELETE_DB"
    BY <1>2 DEF deleteDbReq
<1>3. CASE name = "WRITE"
    BY <1>3 DEF writeReq
<1>4. CASE name = "READ"
    BY <1>4 DEF readReq
<1>5. CASE name = "READ_FREE"
    BY <1>5 DEF readFreeReq
<1>6. CASE name = "DELETE"
    BY <1>6 DEF deleteReq
<1>7. CASE name = "READ_CELL"
    BY <1>7 DEF readCellReq
<1>8. CASE name = "DIFERIR"
    BY <1>8 DEF diferirReq
<1>9. CASE name = "CRUZAR"
    BY <1>9 DEF cruzarReq
<1> QED  BY <1>1, <1>2, <1>3, <1>4, <1>5, <1>6, <1>7, <1>8, <1>9, Operation

LEMMA LengthTold ==
    ASSUME NEW bytes \in Seq(Byte), Len(bytes) < Word
    PROVE  Len(LengthOf(bytes)) = 4 /\ U32At(LengthOf(bytes), 0) = Len(bytes)
<1>1. PICK n \in Nat : n = Len(bytes)
    BY LenProperties
<1>2. n \in 0..(Word - 1)
    BY <1>1, WordTyped
<1>3. ToUint32(Len(bytes)) = Len(bytes)
    BY <1>1, <1>2, WordKept
<1> QED  BY <1>3, U32Written DEF LengthOf

\* A part is a number, sixteen bytes, or bytes whose length went before.
Matches(step, part, steps, pieces, place) ==
    \/ step.size = "u32" /\ \E value : part = u32Bytes(value)
    \/ step.size = "16" /\ Len(part) = 16
    \/ /\ step.size \notin {"u32", "16"}
       /\ place[step.size] < place[step.name]
       /\ steps[place[step.size]] = Number(step.size)
       /\ pieces[place[step.size]] = LengthOf(part)
       /\ part \in Seq(Byte) /\ Len(part) < Word

\* The part of a field, and the step that reads it
Told(m, f, step, part) ==
    /\ step.name = f
    /\ IF f \in NumberFields THEN step.size = "u32" /\ part = u32Bytes(m[f])
       ELSE step.size # "u32" /\ part = m[f]

\* The reader of an operation is for its requests.
IsReader(m, steps, pieces, place, fields) ==
    /\ Len(steps) = Len(pieces) /\ Len(pieces) \in Nat
    /\ \A k \in 1..Len(pieces) :
        /\ place[steps[k].name] = k
        /\ steps[k].size \notin {"u32", "16"} => place[steps[k].size] \in 1..Len(pieces)
        /\ Matches(steps[k], pieces[k], steps, pieces, place)
    /\ \A f \in fields :
        /\ place[f] \in 1..Len(pieces) /\ f \notin Lengths(steps)
        /\ Told(m, f, steps[place[f]], pieces[place[f]])

LEMMA ReaderFits ==
    ASSUME NEW m, NEW steps, NEW pieces, NEW place, NEW fields,
           IsReader(m, steps, pieces, place, fields)
    PROVE  Fits(steps, pieces, place)
<1>1. ASSUME NEW k \in 1..Len(pieces)
      PROVE  \/ steps[k].size = "u32" /\ Len(pieces[k]) = 4
             \/ steps[k].size = "16" /\ Len(pieces[k]) = 16
             \/ /\ steps[k].size \notin {"u32", "16"}
                /\ \E j \in 1..(k - 1) :
                      /\ steps[j].name = steps[k].size /\ steps[j].size = "u32"
                      /\ U32At(pieces[j], 0) = Len(pieces[k])
  <2>1. Matches(steps[k], pieces[k], steps, pieces, place)
      BY DEF IsReader
  <2>2. CASE steps[k].size = "u32"
      BY <2>1, <2>2, U32Written DEF Matches
  <2>3. CASE steps[k].size = "16"
      BY <2>1, <2>3 DEF Matches
  <2>4. CASE steps[k].size \notin {"u32", "16"}
    <3>1. PICK j : j = place[steps[k].size]
        OBVIOUS
    <3>2. /\ j < k /\ steps[j] = Number(steps[k].size) /\ pieces[j] = LengthOf(pieces[k])
          /\ pieces[k] \in Seq(Byte) /\ Len(pieces[k]) < Word
      <4>1. place[steps[k].name] = k
          BY DEF IsReader
      <4> QED  BY <2>1, <2>4, <3>1, <4>1 DEF Matches
    <3>3. j \in 1..(k - 1)
        BY <2>4, <3>1, <3>2 DEF IsReader
    <3>4. steps[j].name = steps[k].size /\ steps[j].size = "u32"
        BY <3>2 DEF Number
    <3>5. U32At(pieces[j], 0) = Len(pieces[k])
        BY <3>2, LengthTold
    <3> QED  BY <2>4, <3>3, <3>4, <3>5
  <2> QED  BY <2>2, <2>3, <2>4
<1>2. /\ Len(steps) = Len(pieces)
      /\ \A k \in 1..Len(pieces) : place[steps[k].name] = k
    BY DEF IsReader
<1> QED  BY <1>1, <1>2 DEF Fits

LEMMA CreateDbReader ==
    ASSUME NEW name \in {"CREATE_DB"}, NEW m \in Messages[name], IsId(m.id)
    PROVE  IsReader(m, Steps(name), Pieces(name, m), Place(name), {"id"} \cup Fields(name))
<1> DEFINE steps == Steps(name)
           pieces == Pieces(name, m)
           place == Place(name)
<1>1. /\ m.id \in Seq(Byte) /\ Len(m.id) = 16
      /\ m.dbName \in Seq(Byte) /\ Len(m.dbName) < Word
      /\ m.secret \in Seq(Byte) /\ Len(m.secret) < Word
    BY FieldsTyped, Operation DEF Names, Fields, NumberFields, IsId
<1>2. pieces =
        <<m.id, LengthOf(m.dbName), LengthOf(m.secret), u32Bytes(m.dbSize),
          u32Bytes(m.genome), m.dbName, m.secret>>
    BY DEF Pieces
<1>3. steps =
        <<Sixteen("id"), Number("dbNameLen"), Number("secretLen"), Number("dbSize"),
          Number("genome"), Sized("dbName", "dbNameLen"), Sized("secret", "secretLen")>>
    BY DEF Steps
<1>4. place =
        [id |-> 1, dbNameLen |-> 2, secretLen |-> 3, dbSize |-> 4, genome |-> 5,
         dbName |-> 6, secret |-> 7]
    BY DEF Place
<1> HIDE DEF steps, pieces, place
<1>5. Len(pieces) = 7 /\ Len(steps) = 7
    BY <1>2, <1>3
<1>6. ASSUME NEW k \in 1..7
      PROVE  /\ place[steps[k].name] = k
             /\ steps[k].size \notin {"u32", "16"} => place[steps[k].size] \in 1..7
    BY <1>3, <1>4 DEF Number, Sixteen, Sized
<1>7. ASSUME NEW k \in 1..7 PROVE Matches(steps[k], pieces[k], steps, pieces, place)
  <2>1. CASE k \in 1..5
      BY <1>1, <1>2, <1>3, <2>1 DEF Matches, Number, Sixteen, LengthOf
  <2>2. CASE k = 6
      BY <1>1, <1>2, <1>3, <1>4, <2>2 DEF Matches, Number, Sized
  <2>3. CASE k = 7
      BY <1>1, <1>2, <1>3, <1>4, <2>3 DEF Matches, Number, Sized
  <2> QED  BY <2>1, <2>2, <2>3
<1>8. Lengths(steps) = {"u32", "16", "dbNameLen", "secretLen"}
    BY <1>3, <1>5 DEF Lengths, Number, Sixteen, Sized
<1>9. ASSUME NEW f \in {"id"} \cup Fields(name)
      PROVE  /\ place[f] \in 1..7 /\ f \notin Lengths(steps)
             /\ Told(m, f, steps[place[f]], pieces[place[f]])
    BY <1>2, <1>3, <1>4, <1>8 DEF Fields, Told, NumberFields, Number, Sixteen, Sized
<1>10. IsReader(m, steps, pieces, place, {"id"} \cup Fields(name))
  <2>1. Len(steps) = Len(pieces) /\ Len(pieces) \in Nat /\ 1..Len(pieces) = 1..7
      BY ONLY <1>5
  <2> QED  BY ONLY <1>6, <1>7, <1>9, <2>1, Zenon DEF IsReader
<1> QED  BY <1>10 DEF steps, pieces, place

LEMMA DeleteDbReader ==
    ASSUME NEW name \in {"DELETE_DB", "READ_CELL"}, NEW m \in Messages[name], IsId(m.id)
    PROVE  IsReader(m, Steps(name), Pieces(name, m), Place(name), {"id"} \cup Fields(name))
<1> DEFINE steps == Steps(name)
           pieces == Pieces(name, m)
           place == Place(name)
<1>1. /\ m.id \in Seq(Byte) /\ Len(m.id) = 16
      /\ m.dbName \in Seq(Byte) /\ Len(m.dbName) < Word
      /\ m.secret \in Seq(Byte) /\ Len(m.secret) < Word
    BY FieldsTyped, Operation DEF Names, Fields, NumberFields, IsId
<1>2. pieces =
        <<m.id, u32Bytes(m.cellIndex), LengthOf(m.dbName), LengthOf(m.secret), m.dbName,
          m.secret>>
    BY DEF Pieces
<1>3. steps =
        <<Sixteen("id"), Number("cellIndex"), Number("dbNameLen"), Number("secretLen"),
          Sized("dbName", "dbNameLen"), Sized("secret", "secretLen")>>
    BY DEF Steps
<1>4. place =
        [id |-> 1, cellIndex |-> 2, dbNameLen |-> 3, secretLen |-> 4, dbName |-> 5,
         secret |-> 6]
    BY DEF Place
<1> HIDE DEF steps, pieces, place
<1>5. Len(pieces) = 6 /\ Len(steps) = 6
    BY <1>2, <1>3
<1>6. ASSUME NEW k \in 1..6
      PROVE  /\ place[steps[k].name] = k
             /\ steps[k].size \notin {"u32", "16"} => place[steps[k].size] \in 1..6
    BY <1>3, <1>4 DEF Number, Sixteen, Sized
<1>7. ASSUME NEW k \in 1..6 PROVE Matches(steps[k], pieces[k], steps, pieces, place)
  <2>1. CASE k \in 1..4
      BY <1>1, <1>2, <1>3, <2>1 DEF Matches, Number, Sixteen, LengthOf
  <2>2. CASE k = 5
      BY <1>1, <1>2, <1>3, <1>4, <2>2 DEF Matches, Number, Sized
  <2>3. CASE k = 6
      BY <1>1, <1>2, <1>3, <1>4, <2>3 DEF Matches, Number, Sized
  <2> QED  BY <2>1, <2>2, <2>3
<1>8. Lengths(steps) = {"u32", "16", "dbNameLen", "secretLen"}
    BY <1>3, <1>5 DEF Lengths, Number, Sixteen, Sized
<1>9. ASSUME NEW f \in {"id"} \cup Fields(name)
      PROVE  /\ place[f] \in 1..6 /\ f \notin Lengths(steps)
             /\ Told(m, f, steps[place[f]], pieces[place[f]])
    BY <1>2, <1>3, <1>4, <1>8 DEF Fields, Told, NumberFields, Number, Sixteen, Sized
<1>10. IsReader(m, steps, pieces, place, {"id"} \cup Fields(name))
  <2>1. Len(steps) = Len(pieces) /\ Len(pieces) \in Nat /\ 1..Len(pieces) = 1..6
      BY ONLY <1>5
  <2> QED  BY ONLY <1>6, <1>7, <1>9, <2>1, Zenon DEF IsReader
<1> QED  BY <1>10 DEF steps, pieces, place

LEMMA WriteReader ==
    ASSUME NEW name \in {"WRITE"}, NEW m \in Messages[name], IsId(m.id)
    PROVE  IsReader(m, Steps(name), Pieces(name, m), Place(name), {"id"} \cup Fields(name))
<1> DEFINE steps == Steps(name)
           pieces == Pieces(name, m)
           place == Place(name)
<1>1. /\ m.id \in Seq(Byte) /\ Len(m.id) = 16
      /\ m.dbName \in Seq(Byte) /\ Len(m.dbName) < Word
      /\ m.key \in Seq(Byte) /\ Len(m.key) < Word
      /\ m.value \in Seq(Byte) /\ Len(m.value) < Word
      /\ m.secret \in Seq(Byte) /\ Len(m.secret) < Word
    BY FieldsTyped, Operation DEF Names, Fields, NumberFields, IsId
<1>2. pieces =
        <<m.id, u32Bytes(m.cellIndex), LengthOf(m.dbName), LengthOf(m.key),
          LengthOf(m.value), LengthOf(m.secret), m.dbName, m.key, m.value, m.secret>>
    BY DEF Pieces
<1>3. steps =
        <<Sixteen("id"), Number("cellIndex"), Number("dbNameLen"), Number("keyLen"),
          Number("valueLen"), Number("secretLen"), Sized("dbName", "dbNameLen"),
          Sized("key", "keyLen"), Sized("value", "valueLen"), Sized("secret", "secretLen")>>
    BY DEF Steps
<1>4. place =
        [id |-> 1, cellIndex |-> 2, dbNameLen |-> 3, keyLen |-> 4, valueLen |-> 5,
         secretLen |-> 6, dbName |-> 7, key |-> 8, value |-> 9, secret |-> 10]
    BY DEF Place
<1> HIDE DEF steps, pieces, place
<1>5. Len(pieces) = 10 /\ Len(steps) = 10
    BY <1>2, <1>3
<1>6. ASSUME NEW k \in 1..10
      PROVE  /\ place[steps[k].name] = k
             /\ steps[k].size \notin {"u32", "16"} => place[steps[k].size] \in 1..10
    BY <1>3, <1>4 DEF Number, Sixteen, Sized
<1>7. ASSUME NEW k \in 1..10 PROVE Matches(steps[k], pieces[k], steps, pieces, place)
  <2>1. CASE k \in 1..6
      BY <1>1, <1>2, <1>3, <2>1 DEF Matches, Number, Sixteen, LengthOf
  <2>2. CASE k = 7
      BY SMTT(30), <1>1, <1>2, <1>3, <1>4, <2>2 DEF Matches, Number, Sized
  <2>3. CASE k = 8
      BY SMTT(30), <1>1, <1>2, <1>3, <1>4, <2>3 DEF Matches, Number, Sized
  <2>4. CASE k = 9
      BY SMTT(30), <1>1, <1>2, <1>3, <1>4, <2>4 DEF Matches, Number, Sized
  <2>5. CASE k = 10
      BY SMTT(30), <1>1, <1>2, <1>3, <1>4, <2>5 DEF Matches, Number, Sized
  <2> QED  BY <2>1, <2>2, <2>3, <2>4, <2>5
<1>8. Lengths(steps) = {"u32", "16", "dbNameLen", "keyLen", "valueLen", "secretLen"}
    BY <1>3, <1>5 DEF Lengths, Number, Sixteen, Sized
<1>9. ASSUME NEW f \in {"id"} \cup Fields(name)
      PROVE  /\ place[f] \in 1..10 /\ f \notin Lengths(steps)
             /\ Told(m, f, steps[place[f]], pieces[place[f]])
    BY <1>2, <1>3, <1>4, <1>8 DEF Fields, Told, NumberFields, Number, Sixteen, Sized
<1>10. IsReader(m, steps, pieces, place, {"id"} \cup Fields(name))
  <2>1. Len(steps) = Len(pieces) /\ Len(pieces) \in Nat /\ 1..Len(pieces) = 1..10
      BY ONLY <1>5
  <2> QED  BY ONLY <1>6, <1>7, <1>9, <2>1, Zenon DEF IsReader
<1> QED  BY <1>10 DEF steps, pieces, place

LEMMA ReadReader ==
    ASSUME NEW name \in {"READ", "DELETE"}, NEW m \in Messages[name], IsId(m.id)
    PROVE  IsReader(m, Steps(name), Pieces(name, m), Place(name), {"id"} \cup Fields(name))
<1> DEFINE steps == Steps(name)
           pieces == Pieces(name, m)
           place == Place(name)
<1>1. /\ m.id \in Seq(Byte) /\ Len(m.id) = 16
      /\ m.dbName \in Seq(Byte) /\ Len(m.dbName) < Word
      /\ m.key \in Seq(Byte) /\ Len(m.key) < Word
      /\ m.secret \in Seq(Byte) /\ Len(m.secret) < Word
    BY FieldsTyped, Operation DEF Names, Fields, NumberFields, IsId
<1>2. pieces =
        <<m.id, u32Bytes(m.cellIndex), LengthOf(m.dbName), LengthOf(m.key),
          LengthOf(m.secret), m.dbName, m.key, m.secret>>
    BY DEF Pieces
<1>3. steps =
        <<Sixteen("id"), Number("cellIndex"), Number("dbNameLen"), Number("keyLen"),
          Number("secretLen"), Sized("dbName", "dbNameLen"), Sized("key", "keyLen"),
          Sized("secret", "secretLen")>>
    BY DEF Steps
<1>4. place =
        [id |-> 1, cellIndex |-> 2, dbNameLen |-> 3, keyLen |-> 4, secretLen |-> 5,
         dbName |-> 6, key |-> 7, secret |-> 8]
    BY DEF Place
<1> HIDE DEF steps, pieces, place
<1>5. Len(pieces) = 8 /\ Len(steps) = 8
    BY <1>2, <1>3
<1>6. ASSUME NEW k \in 1..8
      PROVE  /\ place[steps[k].name] = k
             /\ steps[k].size \notin {"u32", "16"} => place[steps[k].size] \in 1..8
    BY <1>3, <1>4 DEF Number, Sixteen, Sized
<1>7. ASSUME NEW k \in 1..8 PROVE Matches(steps[k], pieces[k], steps, pieces, place)
  <2>1. CASE k \in 1..5
      BY <1>1, <1>2, <1>3, <2>1 DEF Matches, Number, Sixteen, LengthOf
  <2>2. CASE k = 6
      BY <1>1, <1>2, <1>3, <1>4, <2>2 DEF Matches, Number, Sized
  <2>3. CASE k = 7
      BY <1>1, <1>2, <1>3, <1>4, <2>3 DEF Matches, Number, Sized
  <2>4. CASE k = 8
      BY <1>1, <1>2, <1>3, <1>4, <2>4 DEF Matches, Number, Sized
  <2> QED  BY <2>1, <2>2, <2>3, <2>4
<1>8. Lengths(steps) = {"u32", "16", "dbNameLen", "keyLen", "secretLen"}
    BY <1>3, <1>5 DEF Lengths, Number, Sixteen, Sized
<1>9. ASSUME NEW f \in {"id"} \cup Fields(name)
      PROVE  /\ place[f] \in 1..8 /\ f \notin Lengths(steps)
             /\ Told(m, f, steps[place[f]], pieces[place[f]])
    BY <1>2, <1>3, <1>4, <1>8 DEF Fields, Told, NumberFields, Number, Sixteen, Sized
<1>10. IsReader(m, steps, pieces, place, {"id"} \cup Fields(name))
  <2>1. Len(steps) = Len(pieces) /\ Len(pieces) \in Nat /\ 1..Len(pieces) = 1..8
      BY ONLY <1>5
  <2> QED  BY ONLY <1>6, <1>7, <1>9, <2>1, Zenon DEF IsReader
<1> QED  BY <1>10 DEF steps, pieces, place

LEMMA ReadFreeReader ==
    ASSUME NEW name \in {"READ_FREE"}, NEW m \in Messages[name], IsId(m.id)
    PROVE  IsReader(m, Steps(name), Pieces(name, m), Place(name), {"id"} \cup Fields(name))
<1> DEFINE steps == Steps(name)
           pieces == Pieces(name, m)
           place == Place(name)
<1>1. /\ m.id \in Seq(Byte) /\ Len(m.id) = 16
      /\ m.dbName \in Seq(Byte) /\ Len(m.dbName) < Word
      /\ m.key \in Seq(Byte) /\ Len(m.key) < Word
    BY FieldsTyped, Operation DEF Names, Fields, NumberFields, IsId
<1>2. pieces =
        <<m.id, LengthOf(m.dbName), LengthOf(m.key), m.dbName, m.key>>
    BY DEF Pieces
<1>3. steps =
        <<Sixteen("id"), Number("dbNameLen"), Number("keyLen"),
          Sized("dbName", "dbNameLen"), Sized("key", "keyLen")>>
    BY DEF Steps
<1>4. place =
        [id |-> 1, dbNameLen |-> 2, keyLen |-> 3, dbName |-> 4, key |-> 5]
    BY DEF Place
<1> HIDE DEF steps, pieces, place
<1>5. Len(pieces) = 5 /\ Len(steps) = 5
    BY <1>2, <1>3
<1>6. ASSUME NEW k \in 1..5
      PROVE  /\ place[steps[k].name] = k
             /\ steps[k].size \notin {"u32", "16"} => place[steps[k].size] \in 1..5
    BY <1>3, <1>4 DEF Number, Sixteen, Sized
<1>7. ASSUME NEW k \in 1..5 PROVE Matches(steps[k], pieces[k], steps, pieces, place)
  <2>1. CASE k \in 1..3
      BY <1>1, <1>2, <1>3, <2>1 DEF Matches, Number, Sixteen, LengthOf
  <2>2. CASE k = 4
      BY <1>1, <1>2, <1>3, <1>4, <2>2 DEF Matches, Number, Sized
  <2>3. CASE k = 5
      BY <1>1, <1>2, <1>3, <1>4, <2>3 DEF Matches, Number, Sized
  <2> QED  BY <2>1, <2>2, <2>3
<1>8. Lengths(steps) = {"u32", "16", "dbNameLen", "keyLen"}
    BY <1>3, <1>5 DEF Lengths, Number, Sixteen, Sized
<1>9. ASSUME NEW f \in {"id"} \cup Fields(name)
      PROVE  /\ place[f] \in 1..5 /\ f \notin Lengths(steps)
             /\ Told(m, f, steps[place[f]], pieces[place[f]])
    BY <1>2, <1>3, <1>4, <1>8 DEF Fields, Told, NumberFields, Number, Sixteen, Sized
<1>10. IsReader(m, steps, pieces, place, {"id"} \cup Fields(name))
  <2>1. Len(steps) = Len(pieces) /\ Len(pieces) \in Nat /\ 1..Len(pieces) = 1..5
      BY ONLY <1>5
  <2> QED  BY ONLY <1>6, <1>7, <1>9, <2>1, Zenon DEF IsReader
<1> QED  BY <1>10 DEF steps, pieces, place

LEMMA DiferirReader ==
    ASSUME NEW name \in {"DIFERIR"}, NEW m \in Messages[name], IsId(m.id)
    PROVE  IsReader(m, Steps(name), Pieces(name, m), Place(name), {"id"} \cup Fields(name))
<1> DEFINE steps == Steps(name)
           pieces == Pieces(name, m)
           place == Place(name)
<1>1. /\ m.id \in Seq(Byte) /\ Len(m.id) = 16
      /\ m.childSalt \in Seq(Byte) /\ Len(m.childSalt) = 16
      /\ m.dbName \in Seq(Byte) /\ Len(m.dbName) < Word
      /\ m.secret \in Seq(Byte) /\ Len(m.secret) < Word
      /\ m.childSecret \in Seq(Byte) /\ Len(m.childSecret) < Word
  <2>1. /\ DOMAIN m = {"id"} \cup Fields(name)
        /\ \A f \in Fields(name) \ NumberFields : m[f] \in Seq(Byte) /\ Len(m[f]) < Word
        /\ m.id \in Seq(Byte)
      BY FieldsTyped, Operation DEF Names
  <2>2. "childSalt" \in DOMAIN m
      BY <2>1 DEF Fields
  <2>3. IsId(m.childSalt)
      BY <2>2, MessagesAssumption, Operation DEF Names
  <2> QED  BY <2>1, <2>3 DEF Fields, NumberFields, IsId
<1>2. pieces =
        <<m.id, LengthOf(m.dbName), u32Bytes(m.cellIndex), LengthOf(m.secret),
          u32Bytes(m.childGenome), u32Bytes(m.x), u32Bytes(m.y), u32Bytes(m.z), m.childSalt,
          LengthOf(m.childSecret), m.dbName, m.secret, m.childSecret>>
    BY DEF Pieces
<1>3. steps =
        <<Sixteen("id"), Number("dbNameLen"), Number("cellIndex"), Number("secretLen"),
          Number("childGenome"), Number("x"), Number("y"), Number("z"),
          Sixteen("childSalt"), Number("childSecretLen"), Sized("dbName", "dbNameLen"),
          Sized("secret", "secretLen"), Sized("childSecret", "childSecretLen")>>
    BY DEF Steps
<1>4. place =
        [id |-> 1, dbNameLen |-> 2, cellIndex |-> 3, secretLen |-> 4, childGenome |-> 5,
         x |-> 6, y |-> 7, z |-> 8, childSalt |-> 9, childSecretLen |-> 10, dbName |-> 11,
         secret |-> 12, childSecret |-> 13]
    BY DEF Place
<1> HIDE DEF steps, pieces, place
<1>5. Len(pieces) = 13 /\ Len(steps) = 13
    BY <1>2, <1>3
<1>6. ASSUME NEW k \in 1..13
      PROVE  /\ place[steps[k].name] = k
             /\ steps[k].size \notin {"u32", "16"} => place[steps[k].size] \in 1..13
    BY <1>3, <1>4 DEF Number, Sixteen, Sized
<1>7. ASSUME NEW k \in 1..13 PROVE Matches(steps[k], pieces[k], steps, pieces, place)
  <2>1. CASE k \in 1..10
      BY SMTT(30), <1>1, <1>2, <1>3, <2>1 DEF Matches, Number, Sixteen, LengthOf
  <2>2. CASE k = 11
      BY SMTT(30), <1>1, <1>2, <1>3, <1>4, <2>2 DEF Matches, Number, Sized
  <2>3. CASE k = 12
      BY SMTT(30), <1>1, <1>2, <1>3, <1>4, <2>3 DEF Matches, Number, Sized
  <2>4. CASE k = 13
      BY SMTT(30), <1>1, <1>2, <1>3, <1>4, <2>4 DEF Matches, Number, Sized
  <2> QED  BY <2>1, <2>2, <2>3, <2>4
<1>8. Lengths(steps) = {"u32", "16", "dbNameLen", "secretLen", "childSecretLen"}
    BY <1>3, <1>5 DEF Lengths, Number, Sixteen, Sized
<1>9. ASSUME NEW f \in {"id"} \cup Fields(name)
      PROVE  /\ place[f] \in 1..13 /\ f \notin Lengths(steps)
             /\ Told(m, f, steps[place[f]], pieces[place[f]])
    BY SMTT(30), <1>2, <1>3, <1>4, <1>8 DEF Fields, Told, NumberFields, Number, Sixteen, Sized
<1>10. IsReader(m, steps, pieces, place, {"id"} \cup Fields(name))
  <2>1. Len(steps) = Len(pieces) /\ Len(pieces) \in Nat /\ 1..Len(pieces) = 1..13
      BY ONLY <1>5
  <2> QED  BY ONLY <1>6, <1>7, <1>9, <2>1, Zenon DEF IsReader
<1> QED  BY <1>10 DEF steps, pieces, place

LEMMA CruzarReader ==
    ASSUME NEW name \in {"CRUZAR"}, NEW m \in Messages[name], IsId(m.id)
    PROVE  IsReader(m, Steps(name), Pieces(name, m), Place(name), {"id"} \cup Fields(name))
<1> DEFINE steps == Steps(name)
           pieces == Pieces(name, m)
           place == Place(name)
<1>1. /\ m.id \in Seq(Byte) /\ Len(m.id) = 16
      /\ m.dbName \in Seq(Byte) /\ Len(m.dbName) < Word
      /\ m.secretA \in Seq(Byte) /\ Len(m.secretA) < Word
      /\ m.secretB \in Seq(Byte) /\ Len(m.secretB) < Word
      /\ m.childSecret \in Seq(Byte) /\ Len(m.childSecret) < Word
    BY FieldsTyped, Operation DEF Names, Fields, NumberFields, IsId
<1>2. pieces =
        <<m.id, LengthOf(m.dbName), u32Bytes(m.cellIndexA), u32Bytes(m.cellIndexB),
          LengthOf(m.secretA), LengthOf(m.secretB), u32Bytes(m.x), u32Bytes(m.y),
          u32Bytes(m.z), LengthOf(m.childSecret), m.dbName, m.secretA, m.secretB,
          m.childSecret>>
    BY DEF Pieces
<1>3. steps =
        <<Sixteen("id"), Number("dbNameLen"), Number("cellIndexA"), Number("cellIndexB"),
          Number("secretALen"), Number("secretBLen"), Number("x"), Number("y"), Number("z"),
          Number("childSecretLen"), Sized("dbName", "dbNameLen"),
          Sized("secretA", "secretALen"), Sized("secretB", "secretBLen"),
          Sized("childSecret", "childSecretLen")>>
    BY DEF Steps
<1>4. place =
        [id |-> 1, dbNameLen |-> 2, cellIndexA |-> 3, cellIndexB |-> 4, secretALen |-> 5,
         secretBLen |-> 6, x |-> 7, y |-> 8, z |-> 9, childSecretLen |-> 10, dbName |-> 11,
         secretA |-> 12, secretB |-> 13, childSecret |-> 14]
    BY DEF Place
<1> HIDE DEF steps, pieces, place
<1>5. Len(pieces) = 14 /\ Len(steps) = 14
    BY <1>2, <1>3
<1>6. ASSUME NEW k \in 1..14
      PROVE  /\ place[steps[k].name] = k
             /\ steps[k].size \notin {"u32", "16"} => place[steps[k].size] \in 1..14
    BY <1>3, <1>4 DEF Number, Sixteen, Sized
<1>7. ASSUME NEW k \in 1..14 PROVE Matches(steps[k], pieces[k], steps, pieces, place)
  <2>1. CASE k \in 1..10
      BY SMTT(30), <1>1, <1>2, <1>3, <2>1 DEF Matches, Number, Sixteen, LengthOf
  <2>2. CASE k = 11
    <3>1. /\ steps[11] = Sized("dbName", "dbNameLen") /\ pieces[11] = m.dbName
          /\ steps[2] = Number("dbNameLen") /\ pieces[2] = LengthOf(m.dbName)
        BY <1>2, <1>3
    <3>2. place["dbNameLen"] = 2 /\ place["dbName"] = 11
        BY <1>4
    <3> QED  BY <1>1, <2>2, <3>1, <3>2 DEF Matches, Sized
  <2>3. CASE k = 12
    <3>1. /\ steps[12] = Sized("secretA", "secretALen") /\ pieces[12] = m.secretA
          /\ steps[5] = Number("secretALen") /\ pieces[5] = LengthOf(m.secretA)
        BY <1>2, <1>3
    <3>2. place["secretALen"] = 5 /\ place["secretA"] = 12
        BY <1>4
    <3> QED  BY <1>1, <2>3, <3>1, <3>2 DEF Matches, Sized
  <2>4. CASE k = 13
    <3>1. /\ steps[13] = Sized("secretB", "secretBLen") /\ pieces[13] = m.secretB
          /\ steps[6] = Number("secretBLen") /\ pieces[6] = LengthOf(m.secretB)
        BY <1>2, <1>3
    <3>2. place["secretBLen"] = 6 /\ place["secretB"] = 13
        BY <1>4
    <3> QED  BY <1>1, <2>4, <3>1, <3>2 DEF Matches, Sized
  <2>5. CASE k = 14
    <3>1. /\ steps[14] = Sized("childSecret", "childSecretLen") /\ pieces[14] = m.childSecret
          /\ steps[10] = Number("childSecretLen") /\ pieces[10] = LengthOf(m.childSecret)
        BY <1>2, <1>3
    <3>2. place["childSecretLen"] = 10 /\ place["childSecret"] = 14
        BY <1>4
    <3> QED  BY <1>1, <2>5, <3>1, <3>2 DEF Matches, Sized
  <2> QED  BY <2>1, <2>2, <2>3, <2>4, <2>5
<1>8. Lengths(steps) = {"u32", "16", "dbNameLen", "secretALen", "secretBLen", "childSecretLen"}
    BY <1>3, <1>5 DEF Lengths, Number, Sixteen, Sized
<1>9. ASSUME NEW f \in {"id"} \cup Fields(name)
      PROVE  /\ place[f] \in 1..14 /\ f \notin Lengths(steps)
             /\ Told(m, f, steps[place[f]], pieces[place[f]])
    BY SMTT(30), <1>2, <1>3, <1>4, <1>8 DEF Fields, Told, NumberFields, Number, Sixteen, Sized
<1>10. IsReader(m, steps, pieces, place, {"id"} \cup Fields(name))
  <2>1. Len(steps) = Len(pieces) /\ Len(pieces) \in Nat /\ 1..Len(pieces) = 1..14
      BY ONLY <1>5
  <2> QED  BY ONLY <1>6, <1>7, <1>9, <2>1, Zenon DEF IsReader
<1> QED  BY <1>10 DEF steps, pieces, place

LEMMA OperationReader ==
    ASSUME NEW name \in Operations, NEW m \in Messages[name], IsId(m.id)
    PROVE  IsReader(m, Steps(name), Pieces(name, m), Place(name), {"id"} \cup Fields(name))
<1>1. CASE name \in {"CREATE_DB"}
    BY <1>1, CreateDbReader, Zenon
<1>2. CASE name \in {"DELETE_DB", "READ_CELL"}
    BY <1>2, DeleteDbReader, Zenon
<1>3. CASE name \in {"WRITE"}
    BY <1>3, WriteReader, Zenon
<1>4. CASE name \in {"READ", "DELETE"}
    BY <1>4, ReadReader, Zenon
<1>5. CASE name \in {"READ_FREE"}
    BY <1>5, ReadFreeReader, Zenon
<1>6. CASE name \in {"DIFERIR"}
    BY <1>6, DiferirReader, Zenon
<1>7. CASE name \in {"CRUZAR"}
    BY <1>7, CruzarReader, Zenon
<1> QED  BY <1>1, <1>2, <1>3, <1>4, <1>5, <1>6, <1>7, Operation

\* The lengths of the parts, and where they end
Sizing(pieces) == [k \in 1..Len(pieces) |-> Len(pieces[k])]

Ends(bytes, sizes, count, at) ==
    /\ sizes \in [1..count -> Nat]
    /\ at[0] = 4 /\ at[count] = Len(bytes)
    /\ at \in [0..count -> Nat]
    /\ \A k \in 0..count : at[k] <= at[count]
    /\ \A k \in 1..count : at[k] = at[k - 1] + sizes[k]

LEMMA EndsLater ==
    ASSUME NEW bytes, NEW pieces \in Seq(Seq(Byte)), NEW count \in Nat, count = Len(pieces),
           NEW at, LaidOut(bytes, pieces, at), NEW sizes, sizes = Sizing(pieces)
    PROVE  Ends(bytes, sizes, count, at)
<1>1. sizes \in [1..count -> Nat]
  <2>1. ASSUME NEW k \in 1..count PROVE Len(pieces[k]) \in Nat
    <3>1. pieces[k] \in Seq(Byte)
        BY ElementOfSeq
    <3> QED  BY <3>1, LenProperties
  <2> QED  BY <2>1 DEF Sizing
<1>2. /\ at \in [0..count -> Nat] /\ at[0] = 4 /\ at[count] = Len(bytes)
      /\ \A k \in 1..count : at[k] = at[k - 1] + sizes[k]
    BY DEF LaidOut, Sizing
<1> DEFINE S == {n \in Nat : n \in 0..count => at[count - n] <= at[count]}
<1>3. 0 \in S
    BY <1>2
<1>4. ASSUME NEW n \in Nat, n \in S PROVE n + 1 \in S
  <2> SUFFICES ASSUME n + 1 \in 0..count PROVE at[count - (n + 1)] <= at[count]
      OBVIOUS
  <2>1. PICK k : k = count - n
      OBVIOUS
  <2>2. k \in 1..count /\ n \in 0..count /\ k - 1 \in 0..count /\ k - 1 = count - (n + 1)
      BY <2>1
  <2>3. at[k] <= at[count]
      BY <1>4, <2>1, <2>2
  <2>4. /\ at[k] = at[k - 1] + sizes[k] /\ at[k - 1] \in Nat /\ at[k] \in Nat
        /\ sizes[k] \in Nat /\ at[count] \in Nat
    <3>1. at[k] = at[k - 1] + sizes[k] /\ sizes[k] \in Nat
        BY ONLY <1>1, <1>2, <2>2
    <3>2. k \in 0..count /\ count \in 0..count
        BY <2>2
    <3>3. at[k] \in Nat /\ at[k - 1] \in Nat /\ at[count] \in Nat
        BY ONLY <1>2, <2>2, <3>2
    <3> QED  BY <3>1, <3>3
  <2>5. at[k - 1] <= at[count]
      BY <2>3, <2>4
  <2> QED  BY <2>2, <2>5
<1> HIDE DEF S
<1>5. \A n \in Nat : n \in S
    BY <1>3, <1>4, SetInduction
<1>6. ASSUME NEW k \in 0..count PROVE at[k] \in Nat /\ at[k] <= at[count]
  <2>1. count - k \in Nat /\ count - k \in 0..count /\ count - (count - k) = k
      OBVIOUS
  <2>2. count - k \in S
      BY <1>5, <2>1
  <2> QED  BY <1>2, <2>1, <2>2 DEF S
<1> QED  BY <1>1, <1>2, <1>6 DEF Ends

\* A whole request is at least as long as its reader demands.
LEMMA LongEnough ==
    ASSUME NEW name \in Operations, NEW m \in Messages[name], IsId(m.id),
           NEW bytes, NEW at, LaidOut(bytes, Pieces(name, m), at)
    PROVE  MinLength(name) \in Nat /\ MinLength(name) <= Len(bytes)
<1>1. PICK pieces : pieces = Pieces(name, m)
    OBVIOUS
<1>2. PICK steps : steps = Steps(name)
    OBVIOUS
<1>3. IsReader(m, steps, pieces, Place(name), {"id"} \cup Fields(name))
    BY <1>1, <1>2, OperationReader
<1>4. PICK count \in Nat : count = Len(pieces) /\ count = Len(steps)
    BY <1>3 DEF IsReader
<1>5. PICK sizes : sizes = Sizing(pieces)
    OBVIOUS
<1>6. Ends(bytes, sizes, count, at)
  <2>1. pieces \in Seq(Seq(Byte))
      BY <1>1, OperationPieces
  <2> QED  BY <1>1, <1>4, <1>5, <2>1, EndsLater
<1>7. ASSUME NEW k \in 1..count
      PROVE  /\ steps[k].size = "u32" => sizes[k] = 4
             /\ steps[k].size = "16" => sizes[k] = 16
  <2>1. Matches(steps[k], pieces[k], steps, pieces, Place(name))
      BY <1>3, <1>4 DEF IsReader
  <2>2. sizes[k] = Len(pieces[k])
      BY <1>4, <1>5 DEF Sizing
  <2>3. CASE steps[k].size = "u32"
      BY <2>1, <2>2, <2>3, U32Written DEF Matches
  <2>4. CASE steps[k].size = "16"
      BY <2>1, <2>2, <2>4 DEF Matches
  <2> QED  BY <2>3, <2>4
<1>8. CASE name \in {"CREATE_DB"}
  <2>1. MinLength(name) = 36 /\ count = 7
      BY <1>2, <1>4, <1>8 DEF MinLength, Steps
  <2>2. ASSUME NEW k \in 1..5
        PROVE  steps[k].size = IF k = 1 THEN "16" ELSE "u32"
      BY <1>2, <1>8 DEF Steps, Number, Sixteen
  <2>3. sizes[1] = 16 /\ \A k \in 2..5 : sizes[k] = 4
      BY <1>7, <2>1, <2>2
  <2>4. at[0] = 4 /\ at[1] = 20 /\ \A k \in 2..5 : at[k] = at[k - 1] + 4
      BY <1>6, <2>1, <2>3 DEF Ends
  <2>5. at[5] = 36
      BY ONLY <2>4
  <2> QED  BY <1>6, <2>1, <2>5 DEF Ends
<1>9. CASE name \in {"DELETE_DB", "READ_CELL"}
  <2>1. MinLength(name) = 32 /\ count = 6
      BY <1>2, <1>4, <1>9 DEF MinLength, Steps
  <2>2. ASSUME NEW k \in 1..4
        PROVE  steps[k].size = IF k = 1 THEN "16" ELSE "u32"
      BY <1>2, <1>9 DEF Steps, Number, Sixteen
  <2>3. sizes[1] = 16 /\ \A k \in 2..4 : sizes[k] = 4
      BY <1>7, <2>1, <2>2
  <2>4. at[0] = 4 /\ at[1] = 20 /\ \A k \in 2..4 : at[k] = at[k - 1] + 4
      BY <1>6, <2>1, <2>3 DEF Ends
  <2>5. at[4] = 32
      BY ONLY <2>4
  <2> QED  BY <1>6, <2>1, <2>5 DEF Ends
<1>10. CASE name \in {"WRITE"}
  <2>1. MinLength(name) = 40 /\ count = 10
      BY <1>2, <1>4, <1>10 DEF MinLength, Steps
  <2>2. ASSUME NEW k \in 1..6
        PROVE  steps[k].size = IF k = 1 THEN "16" ELSE "u32"
      BY <1>2, <1>10 DEF Steps, Number, Sixteen
  <2>3. sizes[1] = 16 /\ \A k \in 2..6 : sizes[k] = 4
      BY <1>7, <2>1, <2>2
  <2>4. at[0] = 4 /\ at[1] = 20 /\ \A k \in 2..6 : at[k] = at[k - 1] + 4
      BY <1>6, <2>1, <2>3 DEF Ends
  <2>5. at[6] = 40
      BY ONLY <2>4
  <2> QED  BY <1>6, <2>1, <2>5 DEF Ends
<1>11. CASE name \in {"READ", "DELETE"}
  <2>1. MinLength(name) = 36 /\ count = 8
      BY <1>2, <1>4, <1>11 DEF MinLength, Steps
  <2>2. ASSUME NEW k \in 1..5
        PROVE  steps[k].size = IF k = 1 THEN "16" ELSE "u32"
      BY <1>2, <1>11 DEF Steps, Number, Sixteen
  <2>3. sizes[1] = 16 /\ \A k \in 2..5 : sizes[k] = 4
      BY <1>7, <2>1, <2>2
  <2>4. at[0] = 4 /\ at[1] = 20 /\ \A k \in 2..5 : at[k] = at[k - 1] + 4
      BY <1>6, <2>1, <2>3 DEF Ends
  <2>5. at[5] = 36
      BY ONLY <2>4
  <2> QED  BY <1>6, <2>1, <2>5 DEF Ends
<1>12. CASE name \in {"READ_FREE"}
  <2>1. MinLength(name) = 28 /\ count = 5
      BY <1>2, <1>4, <1>12 DEF MinLength, Steps
  <2>2. ASSUME NEW k \in 1..3
        PROVE  steps[k].size = IF k = 1 THEN "16" ELSE "u32"
      BY <1>2, <1>12 DEF Steps, Number, Sixteen
  <2>3. sizes[1] = 16 /\ \A k \in 2..3 : sizes[k] = 4
      BY <1>7, <2>1, <2>2
  <2>4. at[0] = 4 /\ at[1] = 20 /\ \A k \in 2..3 : at[k] = at[k - 1] + 4
      BY <1>6, <2>1, <2>3 DEF Ends
  <2>5. at[3] = 28
      BY ONLY <2>4
  <2> QED  BY <1>6, <2>1, <2>5 DEF Ends
<1>13. CASE name \in {"DIFERIR"}
  <2>1. MinLength(name) = 68 /\ count = 13
      BY <1>2, <1>4, <1>13 DEF MinLength, Steps
  <2>2. ASSUME NEW k \in 1..10
        PROVE  steps[k].size = IF k \in {1, 9} THEN "16" ELSE "u32"
      BY <1>2, <1>13 DEF Steps, Number, Sixteen
  <2>3. sizes[1] = 16 /\ sizes[9] = 16 /\ \A k \in (2..8) \cup {10} : sizes[k] = 4
      BY <1>7, <2>1, <2>2
  <2>4. at[0] = 4 /\ at[1] = 20 /\ at[9] = at[8] + 16
        /\ \A k \in (2..8) \cup {10} : at[k] = at[k - 1] + 4
      BY <1>6, <2>1, <2>3 DEF Ends
  <2>5. at[10] = 68
      BY ONLY <2>4
  <2> QED  BY <1>6, <2>1, <2>5 DEF Ends
<1>14. CASE name \in {"CRUZAR"}
  <2>1. MinLength(name) = 56 /\ count = 14
      BY <1>2, <1>4, <1>14 DEF MinLength, Steps
  <2>2. ASSUME NEW k \in 1..10
        PROVE  steps[k].size = IF k = 1 THEN "16" ELSE "u32"
      BY <1>2, <1>14 DEF Steps, Number, Sixteen
  <2>3. sizes[1] = 16 /\ \A k \in 2..10 : sizes[k] = 4
      BY <1>7, <2>1, <2>2
  <2>4. at[0] = 4 /\ at[1] = 20 /\ \A k \in 2..10 : at[k] = at[k - 1] + 4
      BY <1>6, <2>1, <2>3 DEF Ends
  <2>5. at[10] = 56
      BY ONLY <2>4
  <2> QED  BY <1>6, <2>1, <2>5 DEF Ends
<1> QED  BY <1>8, <1>9, <1>10, <1>11, <1>12, <1>13, <1>14, Operation

\* What a field of a request is to who reads it
AsRead(m, f) == IF f \in NumberFields THEN ToUint32(m[f]) ELSE m[f]

\* Samsara throws at a request that is cut, and reads every field of a whole one.
LEMMA OperationRead ==
    ASSUME NEW name \in Operations, NEW m \in Messages[name], IsId(m.id), NEW opcode \in Byte,
           NEW whole, whole = OpcodeFrame(opcode, m.id, Payload(name, m)),
           NEW message, Begins(message, whole), 4 <= Len(message),
           NEW result, result = Req(name, message)
    PROVE  /\ Len(message) < Len(whole) => result = Thrown
           /\ Len(message) = Len(whole) =>
                \A f \in {"id"} \cup Fields(name) :
                    f \in DOMAIN result /\ result[f] = AsRead(m, f)
<1>1. PICK pieces : pieces = Pieces(name, m)
    OBVIOUS
<1>2. PICK steps : steps = Steps(name)
    OBVIOUS
<1>3. PICK place : place = Place(name)
    OBVIOUS
<1>4. PICK minLength : minLength = MinLength(name)
    OBVIOUS
<1>5. IsReader(m, steps, pieces, place, {"id"} \cup Fields(name))
    BY <1>1, <1>2, <1>3, OperationReader
<1>6. Len(pieces) \in Nat /\ Fits(steps, pieces, place)
  <2>1. Len(pieces) \in Nat
      BY <1>5 DEF IsReader
  <2>2. Fits(steps, pieces, place)
      BY <1>5, ReaderFits
  <2> QED  BY <2>1, <2>2
<1>7. /\ pieces \in Seq(Seq(Byte)) /\ m.id \o samsaraPayload(name, m) = FlattenSeq(pieces)
    BY <1>1, OperationPieces
<1>8. PICK at : LaidOut(whole, pieces, at)
  <2>1. PICK head : head = u32Bytes(opcode)
      OBVIOUS
  <2>2. head \in Seq(Byte) /\ Len(head) = 4
      BY <2>1, U32Written
  <2>3. whole = head \o FlattenSeq(pieces)
      BY <1>7, <2>1, OpcodeWritten DEF OpcodeFrame, Payload
  <2>4. PICK count : count = Len(pieces)
      OBVIOUS
  <2>5. count \in Nat \ {0}
    <3>1. "id" \in {"id"} \cup Fields(name)
        OBVIOUS
    <3>2. place["id"] \in 1..Len(pieces)
        BY <1>5, <3>1 DEF IsReader
    <3> QED  BY <1>6, <2>4, <3>2
  <2> QED  BY <1>7, <2>2, <2>3, <2>4, <2>5, PartsLaidOut
<1>9. minLength \in Nat /\ minLength <= Len(whole)
    BY <1>1, <1>4, <1>8, LongEnough
<1>10. result = readRequest(message, minLength, steps)
    BY <1>2, <1>4, ReadersAre
<1>11. /\ Len(message) < Len(whole) => result = Thrown
       /\ Len(message) = Len(whole) /\ minLength <= Len(message) =>
            \A j \in 1..Len(pieces) :
                steps[j].name \notin Lengths(steps) =>
                    /\ steps[j].name \in DOMAIN result
                    /\ result[steps[j].name] = ValueOf(steps[j], pieces[j])
    BY <1>6, <1>7, <1>8, <1>9, <1>10, RequestRead
<1>12. ASSUME Len(message) = Len(whole), NEW f \in {"id"} \cup Fields(name)
       PROVE  f \in DOMAIN result /\ result[f] = AsRead(m, f)
  <2>1. PICK j : j = place[f]
      OBVIOUS
  <2>2. j \in 1..Len(pieces) /\ f \notin Lengths(steps) /\ Told(m, f, steps[j], pieces[j])
      BY <1>5, <2>1 DEF IsReader
  <2>3. steps[j].name = f /\ steps[j].name \notin Lengths(steps)
      BY <2>2 DEF Told
  <2>4. minLength <= Len(message)
      BY <1>9, <1>12
  <2>5. f \in DOMAIN result /\ result[f] = ValueOf(steps[j], pieces[j])
      BY <1>11, <1>12, <2>2, <2>3, <2>4
  <2>6. ValueOf(steps[j], pieces[j]) = AsRead(m, f)
    <3>1. CASE f \in NumberFields
      <4>1. steps[j].size = "u32" /\ pieces[j] = u32Bytes(m[f])
          BY <2>2, <3>1 DEF Told
      <4>2. U32At(pieces[j], 0) = ToUint32(m[f])
          BY <4>1, U32Written
      <4> QED  BY <3>1, <4>1, <4>2 DEF ValueOf, AsRead
    <3>2. CASE f \notin NumberFields
        BY <2>2, <3>2 DEF Told, ValueOf, AsRead
    <3> QED  BY <3>1, <3>2
  <2> QED  BY <2>5, <2>6
<1> QED  BY <1>11, <1>12

\* The bytes of a frame are the beginning of the whole request.
LEMMA FrameBegins ==
    ASSUME Asked
    PROVE  /\ Begins(frame, Whole)
           /\ ask.whole => Len(frame) = Len(Whole)
           /\ ~ask.whole => Len(frame) < Len(Whole)
<1>1. PICK bytes : bytes = Whole
    OBVIOUS
<1>2. /\ bytes \in Seq(Byte) /\ frame \in Seq(Byte) /\ Len(frame) \in Nat
      /\ Len(bytes) \in Nat
      /\ ask.whole => frame = bytes
      /\ ~ask.whole => Len(frame) < Len(bytes)
      /\ \A i \in 1..Len(frame) : frame[i] = bytes[i]
    BY ONLY Asked, <1>1, AskedFrame, Zenon
<1>3. Len(frame) <= Len(bytes)
    BY <1>2
<1> QED  BY <1>1, <1>2, <1>3 DEF Begins

LEMMA DirectPayload ==
    ASSUME NEW m \in Messages["DIRECT_MSG"], NEW length, length = u16Bytes(Len(m.peerId)),
           NEW rest, rest = m.peerId \o m.data
    PROVE  /\ Payload("DIRECT_MSG", m) = length \o rest
           /\ length \in Seq(Byte) /\ Len(length) = 2
           /\ U16At(length, 0) = Len(m.peerId) % (Radix * Radix)
           /\ m.peerId \in Seq(Byte) /\ m.data \in Seq(Byte) /\ rest \in Seq(Byte)
<1>1. "DIRECT_MSG" \in CardNames /\ "DIRECT_MSG" \notin Operations /\ "DIRECT_MSG" \in Names
    BY Operation DEF CardNames, Names
<1>2. m.peerId \in Seq(Byte) /\ Len(m.peerId) < Word /\ m.data \in Seq(Byte)
    BY <1>1, FieldsTyped DEF Fields, NumberFields
<1>3. /\ length \in Seq(Byte) /\ Len(length) = 2
      /\ U16At(length, 0) = ToUint32(Len(m.peerId)) % (Radix * Radix)
    BY U16Written
<1>4. ToUint32(Len(m.peerId)) = Len(m.peerId)
  <2>1. PICK n \in Nat : n = Len(m.peerId)
      BY <1>2, LenProperties
  <2>2. n \in 0..(Word - 1)
      BY <1>2, <2>1, WordTyped
  <2> QED  BY <2>1, <2>2, WordKept
<1>5. Payload("DIRECT_MSG", m) = FlattenSeq(<<length, m.peerId, m.data>>)
    BY <1>1 DEF Payload, synapPayload, concat
<1>6. FlattenSeq(<<length, m.peerId, m.data>>) = length \o FlattenSeq(<<m.peerId, m.data>>)
    BY <1>2, <1>3, FlattenThree, Zenon
<1>7. FlattenSeq(<<m.peerId, m.data>>) = m.peerId \o m.data
    BY <1>2, FlattenTwo, Zenon
<1>8. rest \in Seq(Byte)
    BY <1>2, ConcatProperties
<1> QED  BY ONLY <1>2, <1>3, <1>4, <1>5, <1>6, <1>7, <1>8, rest = m.peerId \o m.data

\* The length of the peer is read as it was written.
LEMMA DirectLength ==
    ASSUME Asked, ask.name = "DIRECT_MSG", Len(frame) >= 22
    PROVE  U16At(frame, 20) = Len(ask.fields.peerId) % (Radix * Radix)
<1>1. PICK length : length = u16Bytes(Len(ask.fields.peerId))
    OBVIOUS
<1>2. PICK rest : rest = ask.fields.peerId \o ask.fields.data
    OBVIOUS
<1>3. PICK payload : payload = Payload("DIRECT_MSG", ask.fields)
    OBVIOUS
<1>4. /\ payload = length \o rest /\ length \in Seq(Byte) /\ Len(length) = 2 /\ rest \in Seq(Byte)
      /\ U16At(length, 0) = Len(ask.fields.peerId) % (Radix * Radix)
  <2>1. ask.fields \in Messages["DIRECT_MSG"]
      BY DEF Asked
  <2> QED  BY <1>1, <1>2, <1>3, <2>1, DirectPayload
<1>5. PICK bytes : bytes = Whole
    OBVIOUS
<1>6. payload \in Seq(Byte) /\ Len(payload) \in Nat /\ Holds(payload, 0, length)
    BY <1>4, HoldsParts, LenProperties
<1>7. bytes \in Seq(Byte) /\ Len(bytes) \in Nat /\ Holds(bytes, 20, payload)
  <2>1. bytes = OpcodeFrame(AskedOpcode, ask.fields.id, payload)
      BY <1>3, <1>5 DEF Whole
  <2>2. ask.fields.id \in Id /\ AskedOpcode \in Byte
      BY MessageTyped
  <2>3. bytes \in Seq(Byte) /\ Holds(bytes, 20, payload)
      BY <1>6, <2>1, <2>2, OpcodeFrameParts
  <2> QED  BY <2>3, LenProperties
<1>8. Holds(bytes, 20 + 0, length)
    BY <1>4, <1>6, <1>7, HoldsWithin
<1>9. bytes[21] = length[1] /\ bytes[22] = length[2]
    BY <1>4, <1>8 DEF Holds
<1>10. frame[21] = bytes[21] /\ frame[22] = bytes[22]
    BY <1>5, FrameBegins DEF Begins
<1> QED  BY <1>4, <1>9, <1>10 DEF U16At

\* What the node reads of a direct message
LEMMA DirectRead ==
    ASSUME Asked, ask.name = "DIRECT_MSG", NEW result, result = synapReq(CardOf["DIRECT_MSG"], frame)
    PROVE  (result = Thrown) = (Len(frame) < 22 + (Len(ask.fields.peerId) % (Radix * Radix)))
<1>1. result = parseDirectMsgRequest(frame)
    BY DEF synapReq, CardOf, CardNames, directMsg, Card
<1>2. PICK size \in Nat : size = Len(ask.fields.peerId) % (Radix * Radix)
  <2>1. ask.fields \in Messages["DIRECT_MSG"]
      BY DEF Asked
  <2>2. ask.fields.peerId \in Seq(Byte)
      BY <2>1, DirectPayload
  <2>3. PICK n \in Int : n = Len(ask.fields.peerId)
      BY <2>2, LenProperties
  <2>4. PICK square \in Nat : square = Radix * Radix /\ square > 0
      BY RadixTyped
  <2>5. n % square \in Nat
    <3>1. n % square \in 0..(square - 1)
        BY <2>4, ModTyped
    <3> QED  BY <2>4, <3>1
  <2> QED  BY <2>3, <2>4, <2>5, Zenon
<1>3. PICK n \in Nat : n = Len(frame)
    BY AskedFrame
<1>4. CASE n < 22
    BY <1>1, <1>2, <1>3, <1>4 DEF parseDirectMsgRequest
<1>5. CASE n >= 22
  <2>1. U16At(frame, 20) = size
      BY <1>2, <1>3, <1>5, DirectLength
  <2>2. result = IF n < 22 + size THEN Thrown
                 ELSE [opcode |-> LowByte(frame), id |-> Slice(frame, 4, 20),
                       peerId |-> Slice(frame, 22, 22 + size), data |-> SliceFrom(frame, 22 + size)]
      BY <1>1, <1>3, <1>5, <2>1 DEF parseDirectMsgRequest, readResultMessage
  <2>3. [opcode |-> LowByte(frame), id |-> Slice(frame, 4, 20),
         peerId |-> Slice(frame, 22, 22 + size), data |-> SliceFrom(frame, 22 + size)] # Thrown
      BY DEF Thrown
  <2> QED  BY <1>2, <1>3, <2>2, <2>3
<1> QED  BY <1>3, <1>4, <1>5

\* A part of a Samsara request is never read as a request, at whatever byte it is cut, and
\* a part of a direct message only if all of the peer that its length tells is there
\* (makeCursor and the readers of the requests, parseDirectMsgRequest).
THEOREM PartsAreRefused == Spec => []PartsRefused
<1>1. ExchangeInv => PartsRefused
  <2> SUFFICES ASSUME ExchangeInv, stage = "read", ~ask.whole, ~ask.foreign
               PROVE  /\ ask.name \in Operations => parsed = Thrown
                      /\ ask.name = "DIRECT_MSG" =>
                            (parsed = Thrown)
                              = (Len(frame) < 22 + (Len(ask.fields.peerId) % (Radix * Radix)))
      BY DEF PartsRefused
  <2>1. /\ Asked /\ verdict = classifyFrame(frame) /\ verdict.target # "unknown"
        /\ parsed = Reading
      BY DEF ExchangeInv
  <2>2. /\ Len(frame) >= 20 /\ ServedName = ask.name
        /\ verdict.target = IF ask.name \in Operations THEN "samsara" ELSE "synap2p"
      BY <2>1, Served
  <2>3. CASE ask.name \in Operations
    <3>1. parsed = Req(ask.name, frame)
        BY <2>1, <2>2, <2>3 DEF Reading
    <3>2. Begins(frame, Whole) /\ Len(frame) < Len(Whole)
        BY <2>1, FrameBegins
    <3>3. /\ AskedOpcode \in Byte /\ ask.fields \in Messages[ask.name] /\ IsId(ask.fields.id)
          /\ Whole = OpcodeFrame(AskedOpcode, ask.fields.id, Payload(ask.name, ask.fields))
        BY <2>1, MessageTyped DEF Asked, Whole
    <3>4. 4 <= Len(frame)
        BY <2>1, <2>2, AskedFrame
    <3>5. parsed = Thrown
        BY <2>3, <3>1, <3>2, <3>3, <3>4, OperationRead
    <3> QED  BY <2>3, <3>5, Operation
  <2>4. CASE ask.name \notin Operations
    <3>1. ASSUME ask.name = "DIRECT_MSG"
          PROVE  (parsed = Thrown)
                   = (Len(frame) < 22 + (Len(ask.fields.peerId) % (Radix * Radix)))
      <4>1. parsed = synapReq(CardOf["DIRECT_MSG"], frame)
          BY <2>1, <2>2, <2>4, <3>1 DEF Reading
      <4> QED  BY <2>1, <3>1, <4>1, DirectRead
    <3> QED  BY <2>4, <3>1
  <2> QED  BY <2>3, <2>4
<1> QED  BY <1>1, ExchangeInvariant, PTL

--------------------------------------------------------------------------------
(***************************************************************************)
(* Genomes.                                                                *)
(***************************************************************************)
LEMMA FlagsDiffer ==
    ASSUME NEW i \in 1..11, NEW j \in 1..11, GENOME_FLAGS[i] = GENOME_FLAGS[j]
    PROVE  i = j
BY DEF GENOME_FLAGS

Flag(g, i) == IF (g \div FlagBits[i]) % 2 = 1 THEN FlagBits[i] ELSE 0

\* The flags up to the i-th, as a number
Low(g) == [i \in 0..11 |-> IF i = 0 THEN 0 ELSE g % (2 * FlagBits[i])]

LEMMA FlagAdded ==
    ASSUME NEW g \in Nat, NEW i \in 1..11
    PROVE  Low(g)[i] = Low(g)[i - 1] + Flag(g, i)
<1>1. ASSUME NEW d \in {1, 2, 4, 8, 16, 32, 64, 128, 256, 512, 1024}
      PROVE  g % (2 * d) = (g % d) + (IF (g \div d) % 2 = 1 THEN d ELSE 0)
    OBVIOUS
<1>2. CASE i = 1
    BY <1>2 DEF Low, Flag, FlagBits
<1>3. CASE i # 1
  <2>1. PICK d \in {1, 2, 4, 8, 16, 32, 64, 128, 256, 512, 1024} : d = FlagBits[i]
      BY DEF FlagBits
  <2>2. 2 * FlagBits[i - 1] = FlagBits[i]
      BY <1>3 DEF FlagBits
  <2>3. Low(g)[i] = g % (2 * d) /\ Low(g)[i - 1] = g % d
      BY <1>3, <2>1, <2>2 DEF Low
  <2> QED  BY <1>1, <2>1, <2>3 DEF Flag
<1> QED  BY <1>2, <1>3

LEMMA FlagIn ==
    ASSUME NEW g \in Nat, NEW i \in 1..11
    PROVE  (GENOME_FLAGS[i] \in genomeDetailFromUint32(g)) = ((g \div FlagBits[i]) % 2 = 1)
<1>1. DOMAIN GENOME_FLAGS = 1..11
    BY DEF GENOME_FLAGS
<1> QED  BY <1>1, FlagsDiffer DEF genomeDetailFromUint32

IsSum(s, detail) ==
    s = [i \in 0..Len(GENOME_FLAGS) |->
            IF i = 0 THEN 0
            ELSE s[i - 1] + (IF GENOME_FLAGS[i] \in detail THEN FlagBits[i] ELSE 0)]

\* The flags of a genome make up its low bits.
LEMMA GenomeKept ==
    ASSUME NEW g \in Nat
    PROVE  genomeUint32FromDetail(genomeDetailFromUint32(g)) = g % (2 * FlagBits[Len(FlagBits)])
<1>1. PICK detail : detail = genomeDetailFromUint32(g)
    OBVIOUS
<1>2. Len(GENOME_FLAGS) = 11 /\ FlagBits[Len(FlagBits)] = 1024
    BY DEF GENOME_FLAGS, FlagBits
<1>3. ASSUME NEW i \in 1..11
      PROVE  (IF GENOME_FLAGS[i] \in detail THEN FlagBits[i] ELSE 0) = Flag(g, i)
    BY <1>1, FlagIn DEF Flag
<1>4. PICK low : low = Low(g)
    OBVIOUS
<1>5. low[0] = 0 /\ \A i \in 1..11 : low[i] = low[i - 1] + Flag(g, i)
    BY <1>4, FlagAdded DEF Low
<1>6. IsSum(low, detail)
  <2>1. ASSUME NEW i \in 0..11
        PROVE  low[i] = IF i = 0 THEN 0
                        ELSE low[i - 1] + (IF GENOME_FLAGS[i] \in detail THEN FlagBits[i] ELSE 0)
      BY <1>3, <1>5
  <2>2. low = [i \in 0..11 |-> low[i]]
      BY <1>4 DEF Low
  <2>3. low = [i \in 0..11 |->
                 IF i = 0 THEN 0
                 ELSE low[i - 1] + (IF GENOME_FLAGS[i] \in detail THEN FlagBits[i] ELSE 0)]
      BY ONLY <2>1, <2>2, Zenon
  <2> QED  BY <1>2, <2>3 DEF IsSum
<1>7. PICK s : IsSum(s, detail) /\ genomeUint32FromDetail(detail) = s[Len(GENOME_FLAGS)]
  <2> DEFINE s == CHOOSE s : IsSum(s, detail)
  <2>1. IsSum(s, detail)
      BY <1>6
  <2>2. genomeUint32FromDetail(detail) = s[Len(GENOME_FLAGS)]
      BY DEF genomeUint32FromDetail, IsSum
  <2> HIDE DEF s
  <2> QED  BY <2>1, <2>2, Zenon
<1>8. s[0] = 0 /\ \A i \in 1..11 : s[i] = s[i - 1] + Flag(g, i)
  <2>1. \A i \in 0..11 :
           s[i] = IF i = 0 THEN 0
                  ELSE s[i - 1] + (IF GENOME_FLAGS[i] \in detail THEN FlagBits[i] ELSE 0)
    <3>1. s = [i \in 0..11 |->
                  IF i = 0 THEN 0
                  ELSE s[i - 1] + (IF GENOME_FLAGS[i] \in detail THEN FlagBits[i] ELSE 0)]
        BY <1>2, <1>7 DEF IsSum
    <3> QED  BY ONLY <3>1, Zenon
  <2> QED  BY <1>3, <2>1
<1>9. s[1] = low[1] /\ s[2] = low[2] /\ s[3] = low[3] /\ s[4] = low[4]
    BY ONLY <1>5, <1>8
<1>10. s[5] = low[5] /\ s[6] = low[6] /\ s[7] = low[7] /\ s[8] = low[8]
    BY ONLY <1>5, <1>8, <1>9
<1>11. s[11] = low[11]
    BY ONLY <1>5, <1>8, <1>10
<1>12. low[11] = g % (2 * 1024)
  <2>1. low[11] = g % (2 * FlagBits[11])
      BY <1>4 DEF Low
  <2>2. FlagBits[11] = 1024
      BY DEF FlagBits
  <2> QED  BY <2>1, <2>2
<1> QED  BY <1>1, <1>2, <1>7, <1>11, <1>12

--------------------------------------------------------------------------------
(***************************************************************************)
(* Texts that go in one payload.                                           *)
(***************************************************************************)
LEMMA LeastOf ==
    ASSUME NEW S, S \subseteq Nat, S # {}
    PROVE  Min(S) \in S /\ \A y \in S : Min(S) <= y
<1> DEFINE Outside == Nat \ S
<1>1. \E x \in S : \A y \in S : x <= y
  <2> SUFFICES ASSUME \A x \in S : \E y \in S : ~(x <= y) PROVE FALSE
      OBVIOUS
  <2>1. ASSUME NEW n \in Nat, \A m \in 0..(n - 1) : m \in Outside PROVE n \in Outside
    <3>1. ASSUME n \in S PROVE FALSE
      <4>1. PICK y \in S : ~(n <= y)
          BY <3>1
      <4>2. y \in 0..(n - 1)
          BY <4>1
      <4> QED  BY <2>1, <4>2
    <3> QED  BY <3>1
  <2> HIDE DEF Outside
  <2>2. \A n \in Nat : n \in Outside
      BY <2>1, StrongInduction
  <2> QED  BY <2>2 DEF Outside
<1> QED  BY <1>1 DEF Min

LEMMA SubSeqOf ==
    ASSUME NEW bytes \in Seq(Byte), NEW m \in Nat, NEW n \in Nat, n <= Len(bytes), m > 0,
           NEW part, part = SubSeq(bytes, m, n)
    PROVE  /\ part \in Seq(Byte)
           /\ Len(part) = IF m <= n THEN n - m + 1 ELSE 0
           /\ \A i \in 1..(n - m + 1) : part[i] = bytes[m + i - 1]
<1>1. ASSUME NEW i \in m..n PROVE bytes[i] \in Byte
  <2>1. i \in 1..Len(bytes)
      BY LenProperties
  <2> QED  BY <2>1, ElementOfSeq
<1>2. /\ SubSeq(bytes, m, n) \in Seq(Byte)
      /\ Len(SubSeq(bytes, m, n)) = IF m <= n THEN n - m + 1 ELSE 0
      /\ \A i \in 1..(n - m + 1) : SubSeq(bytes, m, n)[i] = bytes[m + i - 1]
    BY <1>1, SubSeqProperties
<1> QED  BY <1>2, Zenon

LEMMA Beginning ==
    ASSUME NEW bytes \in Seq(Byte), NEW n \in Nat, n <= Len(bytes),
           NEW part, part = SubSeq(bytes, 1, n)
    PROVE  /\ part \in Seq(Byte) /\ Len(part) = n /\ Len(part) \in Nat
           /\ \A i \in 1..n : part[i] = bytes[i]
<1>1. /\ part \in Seq(Byte) /\ Len(part) = IF 1 <= n THEN n - 1 + 1 ELSE 0
      /\ \A i \in 1..(n - 1 + 1) : part[i] = bytes[1 + i - 1]
    BY SubSeqOf
<1> QED  BY ONLY <1>1, n \in Nat

\* Bytes, cut in two, put together again
Cut(bytes, n, left, right) ==
    left = SubSeq(bytes, 1, n) /\ right = SubSeq(bytes, n + 1, Len(bytes))

LEMMA CutInTwo ==
    ASSUME NEW bytes \in Seq(Byte), NEW n \in Nat, n <= Len(bytes),
           NEW left, NEW right, Cut(bytes, n, left, right),
           NEW both, both = left \o right
    PROVE  both = bytes /\ right \in Seq(Byte)
<1>1. PICK total \in Nat : total = Len(bytes)
    BY LenProperties
<1>2. n <= total
    BY <1>1
<1>3. left \in Seq(Byte)
    BY <1>1, <1>2, Beginning DEF Cut
<1>4. /\ right \in Seq(Byte) /\ Len(right) = IF n + 1 <= total THEN total - (n + 1) + 1 ELSE 0
      /\ \A i \in 1..(total - (n + 1) + 1) : right[i] = bytes[(n + 1) + i - 1]
    BY <1>1, <1>2, SubSeqOf DEF Cut
<1>5. Len(left) = n /\ \A i \in 1..n : left[i] = bytes[i]
    BY <1>1, <1>2, Beginning DEF Cut
<1>6. Len(right) = total - n /\ \A i \in 1..(total - n) : right[i] = bytes[n + i]
    BY <1>2, <1>4
<1>8. /\ both \in Seq(Byte) /\ Len(both) = Len(left) + Len(right)
      /\ Holds(both, 0, left) /\ Holds(both, Len(left), right)
    BY <1>3, <1>4, HoldsParts
<1>9. Len(both) = total
    BY ONLY <1>1, <1>2, <1>5, <1>6, <1>8, total \in Nat, n \in Nat
<1>10. ASSUME NEW i \in 1..total PROVE both[i] = bytes[i]
  <2>1. CASE i <= n
    <3>1. i \in 1..n
        BY <1>2, <2>1
    <3>2. both[0 + i] = left[i]
        BY <1>5, <1>8, <3>1 DEF Holds
    <3>3. 0 + i = i
        OBVIOUS
    <3> QED  BY <1>5, <3>1, <3>2, <3>3, Zenon
  <2>2. CASE i > n
    <3>1. PICK k \in 1..(total - n) : i = n + k
      <4>1. i - n \in 1..(total - n) /\ i = n + (i - n)
          BY <1>2, <2>2
      <4> QED  BY <4>1
    <3>2. both[n + k] = right[k]
        BY <1>5, <1>6, <1>8, <3>1 DEF Holds
    <3> QED  BY <1>6, <3>1, <3>2
  <2> QED  BY ONLY <1>1, <1>2, <2>1, <2>2, n \in Nat, i \in 1..total, total \in Nat
<1>11. both = bytes
    BY <1>1, <1>8, <1>9, <1>10, SeqEqual
<1> QED  BY <1>4, <1>11

LEMMA BarByte == Bar \in Byte /\ <<Bar>> \in Seq(Byte) /\ Len(<<Bar>>) = 1 /\ Bar = 124
BY RadixTyped DEF Bar, Byte

\* What splitPubPayload does where there is a separator
LEMMA SplitUnfolded ==
    ASSUME NEW bytes, NEW places, places = {i \in 1..Len(bytes) : bytes[i] = Bar}, places # {},
           NEW separator, separator = Min(places), separator # 0
    PROVE  splitPubPayload(bytes) =
              [topic |-> SubSeq(bytes, 1, separator - 1),
               message |-> SubSeq(bytes, separator + 1, Len(bytes))]
BY DEF splitPubPayload, SelectInSeq

\* The bytes before the first separator and those after it make up the payload, and the
\* first part is the topic if there is no separator in it.
LEMMA BarSplit ==
    ASSUME NEW topic \in Seq(Byte), NEW text \in Seq(Byte),
           NEW bytes, bytes = topic \o <<Bar>> \o text,
           NEW split, split = splitPubPayload(bytes)
    PROVE  /\ split.topic \o <<Bar>> \o split.message = bytes
           /\ Bar \notin {topic[i] : i \in DOMAIN topic} => split.topic = topic
<1>1. PICK head : head = topic \o <<Bar>>
    OBVIOUS
<1>2. PICK bar : bar = <<Bar>>
    OBVIOUS
<1>3. bar \in Seq(Byte) /\ Len(bar) = 1 /\ bar[1] = Bar
    BY <1>2, BarByte
<1>4. /\ head \in Seq(Byte) /\ Len(head) = Len(topic) + Len(bar)
      /\ Holds(head, 0, topic) /\ Holds(head, Len(topic), bar)
    BY <1>1, <1>2, <1>3, HoldsParts
<1>5. bytes \in Seq(Byte) /\ Len(bytes) = Len(head) + Len(text) /\ Holds(bytes, 0, head)
    BY <1>1, <1>4, HoldsParts
<1>6. PICK n \in Nat : n = Len(topic)
    BY LenProperties
<1>7. PICK total \in Nat : total = Len(bytes)
    BY <1>5, LenProperties
<1>8. Len(text) \in Nat
    BY LenProperties
<1>9. Len(head) = n + 1 /\ n + 1 <= total
    BY <1>3, <1>4, <1>5, <1>6, <1>7, <1>8
<1>10. ASSUME NEW i \in 1..(n + 1) PROVE bytes[i] = head[i]
  <2>1. bytes[0 + i] = head[i]
      BY <1>5, <1>9 DEF Holds
  <2>2. 0 + i = i
      BY ONLY i \in 1..(n + 1), n \in Nat
  <2> QED  BY <2>1, <2>2, Zenon
<1>11. ASSUME NEW i \in 1..n PROVE bytes[i] = topic[i]
  <2>1. head[0 + i] = topic[i]
      BY <1>4, <1>6 DEF Holds
  <2>2. 0 + i = i /\ i \in 1..(n + 1)
      BY ONLY i \in 1..n, n \in Nat
  <2> QED  BY <1>10, <2>1, <2>2, Zenon
<1>12. bytes[n + 1] = Bar
  <2>1. head[n + 1] = bar[1]
      BY <1>3, <1>4, <1>6 DEF Holds
  <2>2. n + 1 \in 1..(n + 1)
      BY ONLY n \in Nat
  <2> QED  BY <1>3, <1>10, <2>1, <2>2, Zenon
<1>13. PICK places : places = {i \in 1..total : bytes[i] = Bar}
    OBVIOUS
<1>14. n + 1 \in places /\ places \subseteq Nat
    BY ONLY <1>9, <1>12, <1>13, n \in Nat, total \in Nat
<1>15. PICK separator : separator = Min(places)
    OBVIOUS
<1>16. separator \in places /\ \A y \in places : separator <= y
    BY <1>14, <1>15, LeastOf
<1>17. separator \in 1..(n + 1) /\ bytes[separator] = Bar
    BY <1>13, <1>14, <1>16
<1>18. PICK k \in Nat : separator = k + 1 /\ k <= n
  <2>1. separator - 1 \in Nat /\ separator = (separator - 1) + 1 /\ separator - 1 <= n
      BY <1>17
  <2> QED  BY <2>1
<1>19. PICK left : left = SubSeq(bytes, 1, k)
    OBVIOUS
<1>20. PICK right : right = SubSeq(bytes, k + 2, total)
    OBVIOUS
<1>21. split = [topic |-> left, message |-> right]
  <2>1. splitPubPayload(bytes) =
          [topic |-> SubSeq(bytes, 1, separator - 1),
           message |-> SubSeq(bytes, separator + 1, Len(bytes))]
    <3>1. places = {i \in 1..Len(bytes) : bytes[i] = Bar} /\ places # {}
        BY <1>7, <1>13, <1>14
    <3>2. separator # 0
        BY ONLY <1>17, n \in Nat
    <3> QED  BY <1>15, <3>1, <3>2, SplitUnfolded, Zenon
  <2>2. separator - 1 = k /\ separator + 1 = k + 2
      BY <1>18
  <2> QED  BY <1>7, <1>19, <1>20, <2>1, <2>2
<1>22. left \in Seq(Byte) /\ Len(left) = k /\ \A i \in 1..k : left[i] = bytes[i]
  <2>1. k <= Len(bytes)
      BY <1>7, <1>9, <1>18
  <2>2. bytes \in Seq(Byte)
      BY <1>5
  <2> QED  BY ONLY k \in Nat, <1>19, <2>1, <2>2, Beginning
<1>23. PICK place \in Nat : place = k + 1
    OBVIOUS
<1>24. PICK front : front = SubSeq(bytes, 1, place)
    OBVIOUS
<1>25. /\ front \in Seq(Byte) /\ Len(front) = place
       /\ front \o right = bytes
       /\ \A i \in 1..place : front[i] = bytes[i]
  <2>1. place \in 0..Len(bytes) /\ place + 1 = k + 2 /\ place <= Len(bytes)
      BY <1>7, <1>9, <1>18, <1>23
  <2>2. Cut(bytes, place, front, right)
      BY <1>7, <1>20, <1>24, <2>1 DEF Cut
  <2>3. PICK joined : joined = front \o right
      OBVIOUS
  <2>4. joined = bytes
      BY ONLY <1>5, <2>1, <2>2, <2>3, place \in Nat, CutInTwo
  <2>5. /\ front \in Seq(Byte) /\ Len(front) = place
        /\ \A i \in 1..place : front[i] = bytes[i]
      BY <1>5, <1>24, <2>1, Beginning
  <2> QED  BY <2>3, <2>4, <2>5
<1>26. PICK both : both = left \o bar
    OBVIOUS
<1>27. front = both
  <2>1. /\ both \in Seq(Byte) /\ Len(both) = Len(left) + Len(bar)
        /\ Holds(both, 0, left) /\ Holds(both, Len(left), bar)
      BY <1>3, <1>22, <1>26, HoldsParts
  <2>2. Len(both) = place
      BY ONLY <1>3, <1>22, <1>23, <2>1
  <2>3. both[place] = Bar
    <3>1. both[k + 1] = bar[1]
        BY ONLY <1>3, <1>22, <2>1, k \in Nat DEF Holds
    <3> QED  BY <1>3, <1>23, <3>1
  <2>4. ASSUME NEW i \in 1..k PROVE both[i] = bytes[i]
    <3>1. both[0 + i] = left[i]
        BY ONLY <1>22, <2>1, i \in 1..k, k \in Nat DEF Holds
    <3>2. 0 + i = i
        OBVIOUS
    <3> QED  BY <1>22, <3>1, <3>2, Zenon
  <2>5. \A i \in 1..place : front[i] = both[i]
    <3>1. bytes[place] = Bar
        BY <1>17, <1>18, <1>23
    <3>2. ASSUME NEW i \in 1..place PROVE i = place \/ i \in 1..k
        BY ONLY <1>23, i \in 1..place, k \in Nat
    <3> QED  BY <1>25, <2>3, <2>4, <3>1, <3>2, Zenon
  <2> QED  BY ONLY <1>25, <2>1, <2>2, <2>5, SeqEqual
<1>28. split.topic \o <<Bar>> \o split.message = bytes
  <2>1. split.topic = left /\ split.message = right
      BY <1>21
  <2>2. left \o <<Bar>> = front
      BY <1>2, <1>26, <1>27
  <2> QED  BY <1>25, <2>1, <2>2
<1>29. ASSUME Bar \notin {topic[i] : i \in DOMAIN topic} PROVE split.topic = topic
  <2>1. \A i \in 1..n : topic[i] # Bar
    <3>1. DOMAIN topic = 1..n
        BY <1>6, LenProperties
    <3> QED  BY <1>29, <3>1
  <2>2. k = n
      BY <1>11, <1>17, <1>18, <2>1
  <2>3. \A i \in 1..n : left[i] = topic[i]
      BY <1>11, <1>22, <2>2
  <2>4. left = topic
      BY <1>6, <1>22, <2>2, <2>3, SeqEqual
  <2> QED  BY <1>21, <2>4
<1> QED  BY <1>28, <1>29

--------------------------------------------------------------------------------
(***************************************************************************)
(* What the node reads.                                                    *)
(***************************************************************************)
LEMMA HoldsRest ==
    ASSUME NEW bytes \in Seq(Byte), NEW offset \in Nat, NEW part \in Seq(Byte),
           Holds(bytes, offset, part), Len(bytes) = offset + Len(part)
    PROVE  SliceFrom(bytes, offset) = part
<1>1. Slice(bytes, offset, offset + Len(part)) = part
    BY HoldsSlice
<1>2. Len(part) \in Nat
    BY LenProperties
<1>3. Slice(bytes, offset, offset + Len(part)) = SliceFrom(bytes, offset)
    BY <1>2 DEF Slice, SliceFrom
<1> QED  BY <1>1, <1>3

\* The payload of a whole request is read as it was written.
LEMMA PayloadRead ==
    ASSUME NEW opcode \in Byte, NEW id \in Id, NEW payload \in Seq(Byte),
           NEW bytes, bytes = OpcodeFrame(opcode, id, payload),
           NEW result, result = parseSinglePayloadRequest(bytes)
    PROVE  result = [opcode |-> LowByte(bytes), id |-> id, payload |-> payload]
<1>1. /\ bytes \in Seq(Byte) /\ Len(bytes) = 20 + Len(payload) /\ Len(payload) \in Nat
      /\ Holds(bytes, 4, id) /\ Holds(bytes, 20, payload)
    BY OpcodeFrameParts
<1>2. id \in Seq(Byte) /\ Len(id) = 16
    BY DEF Id
<1>3. Slice(bytes, 4, 20) = id
  <2>1. Slice(bytes, 4, 4 + Len(id)) = id
      BY <1>1, <1>2, HoldsSlice
  <2>2. 4 + Len(id) = 20
      BY <1>2
  <2> QED  BY <2>1, <2>2
<1>4. SliceFrom(bytes, 20) = payload
    BY <1>1, HoldsRest
<1>5. ~(Len(bytes) < 20)
    BY <1>1
<1> QED  BY <1>3, <1>4, <1>5 DEF parseSinglePayloadRequest, readResultMessage

\* The cards that carry one field
OneField == CardNames \ {"PUB", "PEERS", "DIRECT_MSG"}

LEMMA OneFieldCard ==
    ASSUME NEW name \in OneField, NEW m
    PROVE  /\ CardOf[name].carries \notin {"nothing", "topic|message", "peer and data", "id"}
           /\ Fields(name) = {CardOf[name].carries} /\ CardOf[name].carries \notin NumberFields
           /\ synapPayload(name, m) = m[CardOf[name].carries]
<1>1. CASE name \in {"RELAY", "DIAL"}
    BY <1>1 DEF CardNames, CardOf, relay, dial, Card, Fields, NumberFields, synapPayload
<1>2. CASE name \in {"SUB", "USE", "UNSUB"}
    BY <1>2 DEF CardNames, CardOf, sub, use, unsub, Card, Fields, NumberFields, synapPayload
<1>3. CASE name \in {"ANNOUNCE", "UNANNOUNCE", "FIND_PROVIDERS"}
    BY <1>3 DEF CardNames, CardOf, announce, unannounce, findProviders, Card, Fields,
                NumberFields, synapPayload
<1>4. CASE name = "DISCONNECT"
    BY <1>4 DEF CardNames, CardOf, disconnect, Card, Fields, NumberFields, synapPayload
<1>5. CASE name = "GENERATE_CID"
    BY <1>5 DEF CardNames, CardOf, generateCid, Card, Fields, NumberFields, synapPayload
<1> QED  BY <1>1, <1>2, <1>3, <1>4, <1>5 DEF OneField, CardNames

LEMMA OneFieldRead ==
    ASSUME NEW name \in OneField, NEW m \in Messages[name], m.id \in Id, NEW opcode \in Byte,
           NEW bytes, bytes = OpcodeFrame(opcode, m.id, Payload(name, m)),
           NEW result, result = synapReq(CardOf[name], bytes)
    PROVE  /\ result # Thrown /\ result.id = m.id
           /\ \A f \in DOMAIN m : f \in DOMAIN result /\ result[f] = AsRead(m, f)
<1>1. name \in CardNames /\ name \in Names /\ name \notin Operations
    BY Operation DEF OneField, CardNames, Names
<1>2. PICK field : field = CardOf[name].carries
    OBVIOUS
<1>3. PICK payload : payload = m[field]
    OBVIOUS
<1>4. /\ field \notin {"nothing", "topic|message", "peer and data", "id"}
      /\ Fields(name) = {field} /\ field \notin NumberFields /\ Payload(name, m) = payload
    BY <1>1, <1>2, <1>3, OneFieldCard DEF Payload
<1>5. DOMAIN m = {"id", field} /\ payload \in Seq(Byte)
  <2>1. /\ DOMAIN m = {"id"} \cup Fields(name)
        /\ \A f \in Fields(name) \ NumberFields : m[f] \in Seq(Byte)
      BY <1>1, FieldsTyped
  <2> QED  BY ONLY <1>3, <1>4, <2>1
<1>6. PICK parsed0 : parsed0 = parseSinglePayloadRequest(bytes)
    OBVIOUS
<1>7. parsed0 = [opcode |-> LowByte(bytes), id |-> m.id, payload |-> payload]
  <2>1. bytes = OpcodeFrame(opcode, m.id, payload)
      BY <1>4
  <2> QED  BY <1>5, <1>6, <2>1, PayloadRead
<1>8. parsed0 # Thrown
    BY <1>7 DEF Thrown
<1>9. result = With(parsed0, field, payload)
  <2>1. parsed0.payload = payload
      BY <1>7
  <2>2. result = With(parsed0, field, parsed0.payload)
      BY <1>2, <1>4, <1>6, <1>8 DEF synapReq
  <2> QED  BY <2>1, <2>2
<1>10. /\ DOMAIN result = {"opcode", "id", "payload"} \cup {field}
       /\ result.id = m.id /\ result[field] = payload
    BY <1>4, <1>7, <1>9 DEF With
<1>11. result # Thrown
    BY <1>10 DEF Thrown
<1>12. "id" \notin NumberFields
    BY DEF NumberFields
<1> QED  BY <1>3, <1>4, <1>5, <1>10, <1>11, <1>12 DEF AsRead

\* The end of a byte string, cut in two
CutFrom(bytes, offset, size, left, right) ==
    /\ left = Slice(bytes, offset, offset + size)
    /\ right = SliceFrom(bytes, offset + size)

\* A byte string ends with this part.
EndsWith(bytes, offset, part) ==
    Holds(bytes, offset, part) /\ Len(bytes) = offset + Len(part)

Makes(left, right, part) == left \o right = part

LEMMA EndInTwo ==
    ASSUME NEW bytes \in Seq(Byte), NEW offset \in Nat, NEW rest \in Seq(Byte),
           EndsWith(bytes, offset, rest), NEW size \in Nat, size <= Len(rest),
           NEW left, NEW right, CutFrom(bytes, offset, size, left, right)
    PROVE  Makes(left, right, rest)
<1>1. PICK both : both = left \o right
    OBVIOUS
<1>2. PICK place \in Nat : place = offset + size
    OBVIOUS
<1>3. PICK n \in Nat : n = Len(rest)
    BY LenProperties
<1>4. PICK total \in Nat : total = Len(bytes)
    BY LenProperties
<1>5. total = offset + n /\ size <= n /\ place \in Nat
    BY <1>3, <1>4, <1>2 DEF EndsWith
<1>6. left = SubSeq(bytes, offset + 1, place)
    BY <1>4, <1>5, <1>2 DEF CutFrom, Slice
<1>7. right = SubSeq(bytes, place + 1, total)
    BY <1>4, <1>2 DEF CutFrom, SliceFrom
<1>8. /\ left \in Seq(Byte) /\ Len(left) = IF offset + 1 <= place THEN place - (offset + 1) + 1 ELSE 0
      /\ \A i \in 1..(place - (offset + 1) + 1) : left[i] = bytes[(offset + 1) + i - 1]
  <2>1. offset + 1 \in Nat /\ offset + 1 > 0 /\ place \in Nat /\ place <= Len(bytes)
      BY ONLY <1>4, <1>5, <1>2, offset \in Nat, size \in Nat, n \in Nat
  <2> QED  BY ONLY <1>6, <2>1, bytes \in Seq(Byte), SubSeqOf
<1>9. /\ right \in Seq(Byte) /\ Len(right) = IF place + 1 <= total THEN total - (place + 1) + 1 ELSE 0
      /\ \A i \in 1..(total - (place + 1) + 1) : right[i] = bytes[(place + 1) + i - 1]
  <2>1. place + 1 \in Nat /\ place + 1 > 0 /\ total <= Len(bytes)
      BY ONLY <1>4, <1>5, total \in Nat
  <2> QED  BY ONLY <1>4, <1>7, <2>1, bytes \in Seq(Byte), total \in Nat, SubSeqOf
<1>10. \A i \in 1..n : bytes[offset + i] = rest[i]
    BY <1>3 DEF EndsWith, Holds
<1>11. PICK cutLeft : cutLeft = SubSeq(rest, 1, size)
    OBVIOUS
<1>12. PICK cutRight : cutRight = SubSeq(rest, size + 1, Len(rest))
    OBVIOUS
<1>13. cutLeft \in Seq(Byte) /\ Len(cutLeft) = size /\ \A i \in 1..size : cutLeft[i] = rest[i]
    BY <1>11, Beginning
<1>14. /\ cutRight \in Seq(Byte) /\ Len(cutRight) = IF size + 1 <= n THEN n - (size + 1) + 1 ELSE 0
       /\ \A i \in 1..(n - (size + 1) + 1) : cutRight[i] = rest[(size + 1) + i - 1]
  <2>1. size + 1 \in Nat /\ size + 1 > 0 /\ n <= Len(rest)
      BY ONLY <1>3, <1>5, size \in Nat, n \in Nat
  <2> QED  BY <1>3, <1>12, <2>1, SubSeqOf
<1>15. left = cutLeft
  <2>1. Len(left) = size /\ \A i \in 1..size : left[i] = bytes[offset + i]
      BY ONLY <1>8, <1>2, offset \in Nat, size \in Nat
  <2>2. \A i \in 1..size : left[i] = cutLeft[i]
      BY ONLY <1>5, <1>10, <1>13, <2>1, size \in Nat, n \in Nat
  <2> QED  BY ONLY <1>8, <1>13, <2>1, <2>2, SeqEqual
<1>16. right = cutRight
  <2>1. Len(right) = n - size /\ \A i \in 1..(n - size) : right[i] = bytes[(offset + size) + i]
      BY ONLY <1>5, <1>9, <1>2, offset \in Nat, size \in Nat, n \in Nat
  <2>2. Len(cutRight) = n - size /\ \A i \in 1..(n - size) : cutRight[i] = rest[size + i]
      BY ONLY <1>5, <1>14, size \in Nat, n \in Nat
  <2>3. ASSUME NEW i \in 1..(n - size) PROVE right[i] = cutRight[i]
    <3>1. (offset + size) + i = offset + (size + i) /\ size + i \in 1..n
        BY ONLY <1>5, i \in 1..(n - size), offset \in Nat, size \in Nat, n \in Nat
    <3>2. bytes[offset + (size + i)] = rest[size + i]
        BY <1>10, <3>1
    <3> QED  BY <2>1, <2>2, <3>1, <3>2, Zenon
  <2> QED  BY ONLY <1>9, <1>14, <2>1, <2>2, <2>3, SeqEqual
<1>17. Cut(rest, size, left, right)
    BY <1>11, <1>12, <1>15, <1>16 DEF Cut
<1>18. both = rest
    BY ONLY <1>1, <1>17, rest \in Seq(Byte), size \in Nat, size <= Len(rest), CutInTwo
<1> QED  BY <1>1, <1>18 DEF Makes

LEMMA PeersRead ==
    ASSUME NEW m \in Messages["PEERS"], m.id \in Id, NEW opcode \in Byte,
           NEW bytes, bytes = OpcodeFrame(opcode, m.id, Payload("PEERS", m)),
           NEW result, result = synapReq(CardOf["PEERS"], bytes)
    PROVE  /\ result # Thrown /\ result.id = m.id
           /\ \A f \in DOMAIN m : f \in DOMAIN result /\ result[f] = AsRead(m, f)
<1>1. "PEERS" \in CardNames /\ "PEERS" \in Names /\ "PEERS" \notin Operations
    BY Operation DEF CardNames, Names
<1>2. CardOf["PEERS"].carries = "nothing"
    BY DEF CardNames, CardOf, peers, Card
<1>3. PICK payload : payload = << >> /\ payload \in Seq(Byte)
  <2>1. << >> \in Seq(Byte)
      OBVIOUS
  <2> QED  BY <2>1, Zenon
<1>4. bytes = OpcodeFrame(opcode, m.id, payload)
    BY <1>1, <1>3 DEF Payload, synapPayload
<1>5. DOMAIN m = {"id"}
  <2>1. DOMAIN m = {"id"} \cup Fields("PEERS")
      BY <1>1, FieldsTyped
  <2>2. Fields("PEERS") = {}
      BY DEF Fields
  <2> QED  BY <2>1, <2>2
<1>6. PICK parsed0 : parsed0 = parseSinglePayloadRequest(bytes)
    OBVIOUS
<1>7. parsed0 = [opcode |-> LowByte(bytes), id |-> m.id, payload |-> payload]
  <2>1. payload \in Seq(Byte)
      BY <1>3
  <2> QED  BY <1>4, <1>6, <2>1, PayloadRead
<1>8. parsed0 # Thrown
    BY <1>7 DEF Thrown
<1>9. result = parsed0
    BY <1>2, <1>6, <1>8 DEF synapReq
<1> QED  BY <1>5, <1>7, <1>8, <1>9 DEF AsRead, NumberFields

LEMMA PubRead ==
    ASSUME NEW m \in Messages["PUB"], m.id \in Id, NEW opcode \in Byte,
           NEW bytes, bytes = OpcodeFrame(opcode, m.id, Payload("PUB", m)),
           NEW result, result = synapReq(CardOf["PUB"], bytes)
    PROVE  /\ result # Thrown /\ result.id = m.id
           /\ result.topic \o <<Bar>> \o result.message = m.topic \o <<Bar>> \o m.message
           /\ Bar \notin {m.topic[i] : i \in DOMAIN m.topic} => result.topic = m.topic
<1>1. "PUB" \in CardNames /\ "PUB" \in Names /\ "PUB" \notin Operations
    BY Operation DEF CardNames, Names
<1>2. CardOf["PUB"].carries = "topic|message"
    BY DEF CardNames, CardOf, pub, Card
<1>3. m.topic \in Seq(Byte) /\ m.message \in Seq(Byte)
  <2>1. \A f \in Fields("PUB") \ NumberFields : m[f] \in Seq(Byte)
      BY <1>1, FieldsTyped
  <2>2. "topic" \in Fields("PUB") \ NumberFields /\ "message" \in Fields("PUB") \ NumberFields
      BY DEF Fields, NumberFields
  <2> QED  BY <2>1, <2>2
<1>4. PICK payload : payload = m.topic \o <<Bar>> \o m.message
    OBVIOUS
<1>5. payload \in Seq(Byte)
    BY <1>3, <1>4, BarByte, ConcatProperties
<1>6. bytes = OpcodeFrame(opcode, m.id, payload)
  <2>1. Payload("PUB", m) = payload
      BY <1>1, <1>4 DEF Payload, synapPayload, Bar
  <2> QED  BY <2>1
<1>7. PICK parsed0 : parsed0 = parseSinglePayloadRequest(bytes)
    OBVIOUS
<1>8. parsed0 = [opcode |-> LowByte(bytes), id |-> m.id, payload |-> payload]
    BY <1>5, <1>6, <1>7, PayloadRead
<1>9. parsed0 # Thrown
    BY <1>8 DEF Thrown
<1>10. PICK split : split = splitPubPayload(payload)
    OBVIOUS
<1>11. result = With(With(parsed0, "topic", split.topic), "message", split.message)
  <2>1. parsed0.payload = payload
      BY <1>8
  <2>2. result = LET text == splitPubPayload(parsed0.payload)
                 IN  With(With(parsed0, "topic", text.topic), "message", text.message)
      BY <1>2, <1>7, <1>9 DEF synapReq
  <2> QED  BY <1>10, <2>1, <2>2
<1>12. /\ DOMAIN result = {"opcode", "id", "payload", "topic", "message"}
       /\ result.id = m.id /\ result.topic = split.topic /\ result.message = split.message
    BY <1>8, <1>11 DEF With
<1>13. /\ split.topic \o <<Bar>> \o split.message = payload
       /\ Bar \notin {m.topic[i] : i \in DOMAIN m.topic} => split.topic = m.topic
    BY <1>3, <1>4, <1>10, BarSplit, ZenonT(60)
<1>14. result # Thrown
    BY <1>12 DEF Thrown
<1> QED  BY <1>4, <1>12, <1>13, <1>14

LEMMA DirectMessageRead ==
    ASSUME Asked, ask.whole, ask.name = "DIRECT_MSG",
           NEW result, result = synapReq(CardOf["DIRECT_MSG"], frame)
    PROVE  /\ result # Thrown /\ result.id = ask.fields.id
           /\ result.peerId \o result.data = ask.fields.peerId \o ask.fields.data
           /\ ~TooLong(ask.fields.peerId) => result.peerId = ask.fields.peerId
<1>1. PICK peer : peer = ask.fields.peerId
    OBVIOUS
<1>2. PICK data : data = ask.fields.data
    OBVIOUS
<1>3. PICK length : length = u16Bytes(Len(peer))
    OBVIOUS
<1>4. PICK rest : rest = peer \o data
    OBVIOUS
<1>5. PICK payload : payload = Payload("DIRECT_MSG", ask.fields)
    OBVIOUS
<1>6. /\ payload = length \o rest /\ length \in Seq(Byte) /\ Len(length) = 2
      /\ peer \in Seq(Byte) /\ data \in Seq(Byte) /\ rest \in Seq(Byte)
  <2>1. ask.fields \in Messages["DIRECT_MSG"]
      BY DEF Asked
  <2> QED  BY <1>1, <1>2, <1>3, <1>4, <1>5, <2>1, DirectPayload, ZenonT(60)
<1>7. PICK id \in Id : id = ask.fields.id
    BY MessageTyped
<1>8. PICK bytes : bytes = frame
    OBVIOUS
<1>9. /\ bytes \in Seq(Byte) /\ Len(bytes) = 20 + Len(payload) /\ payload \in Seq(Byte)
      /\ Len(payload) = 2 + Len(rest) /\ Holds(bytes, 4, id)
      /\ Holds(bytes, 20, payload) /\ Holds(payload, 2, rest)
  <2>1. payload \in Seq(Byte) /\ Len(payload) = Len(length) + Len(rest) /\ Holds(payload, Len(length), rest)
      BY <1>6, HoldsParts
  <2>2. PICK opcode \in Byte : opcode = AskedOpcode
      BY MessageTyped
  <2>3. bytes = OpcodeFrame(opcode, id, payload)
      BY <1>5, <1>7, <1>8, <2>2 DEF Asked, Whole
  <2>4. /\ bytes \in Seq(Byte) /\ Len(bytes) = 20 + Len(payload)
        /\ Holds(bytes, 4, id) /\ Holds(bytes, 20, payload)
    <3>1. payload \in Seq(Byte)
        BY <2>1
    <3> QED  BY ONLY <2>3, <3>1, opcode \in Byte, id \in Id, OpcodeFrameParts
  <2> QED  BY <1>6, <2>1, <2>4
<1>10. Len(peer) \in Nat /\ Len(rest) \in Nat /\ Len(data) \in Nat /\ Len(payload) \in Nat
       /\ Len(bytes) \in Nat
    BY <1>6, <1>9, LenProperties
<1>11. /\ Len(rest) = Len(peer) + Len(data) /\ Holds(rest, 0, peer)
    BY <1>4, <1>6, HoldsParts
<1>12. Holds(bytes, 22, rest) /\ Len(bytes) = 22 + Len(rest)
  <2>1. Holds(bytes, 20 + 2, rest)
      BY <1>9, <1>10, HoldsWithin
  <2> QED  BY <1>9, <1>10, <2>1
<1>13. PICK size : size = Len(peer) % (Radix * Radix)
    OBVIOUS
<1>14. size \in Nat /\ size <= Len(peer)
  <2>1. PICK square \in Nat : square = Radix * Radix /\ square > 0
      BY RadixTyped
  <2>2. PICK n \in Nat : n = Len(peer)
      BY <1>10
  <2>3. n % square \in Nat /\ n % square <= n
      BY ONLY <2>1, n \in Nat, square \in Nat
  <2>4. size = n % square
      BY ONLY <1>13, <2>1, <2>2
  <2> QED  BY <2>2, <2>3, <2>4, Zenon
<1>15. ~TooLong(peer) => size = Len(peer)
  <2>1. PICK square \in Nat : square = Radix * Radix /\ square > 0
      BY RadixTyped
  <2>2. PICK n \in Nat : n = Len(peer)
      BY <1>10
  <2>3. n < square => n % square = n
      BY ONLY <2>1, n \in Nat, square \in Nat
  <2>4. size = n % square
      BY ONLY <1>13, <2>1, <2>2
  <2>5. ~TooLong(peer) => n < square
      BY ONLY <2>1, <2>2, n \in Nat, square \in Nat DEF TooLong
  <2> QED  BY <2>2, <2>3, <2>4, <2>5, Zenon
<1>16. size <= Len(rest)
    BY ONLY <1>10, <1>11, <1>14
<1>17. PICK place \in Nat : place = 22 + size
    BY <1>14
<1>18. U16At(bytes, 20) = size
  <2>1. Len(bytes) >= 22
      BY ONLY <1>10, <1>12
  <2>2. U16At(frame, 20) = Len(ask.fields.peerId) % (Radix * Radix)
      BY <1>8, <2>1, DirectLength
  <2> QED  BY ONLY <1>1, <1>8, <1>13, <2>2
<1>19. result = [opcode |-> LowByte(bytes), id |-> Slice(bytes, 4, 20),
                 peerId |-> Slice(bytes, 22, place), data |-> SliceFrom(bytes, place)]
  <2>1. result = parseDirectMsgRequest(bytes)
      BY <1>8 DEF synapReq, CardOf, CardNames, directMsg, Card
  <2>2. ~(Len(bytes) < 22) /\ ~(Len(bytes) < place)
      BY ONLY <1>10, <1>12, <1>17, <1>14, <1>16
  <2> QED  BY <1>17, <1>18, <2>1, <2>2 DEF parseDirectMsgRequest, readResultMessage
<1>20. Slice(bytes, 4, 20) = id
  <2>1. id \in Seq(Byte) /\ Len(id) = 16
      BY DEF Id
  <2>2. Slice(bytes, 4, 4 + Len(id)) = id
      BY <1>9, <2>1, HoldsSlice
  <2>3. 4 + Len(id) = 20
      BY <2>1
  <2> QED  BY <2>2, <2>3
<1>21. Slice(bytes, 22, place) \o SliceFrom(bytes, place) = rest
  <2>1. PICK left : left = Slice(bytes, 22, place)
      OBVIOUS
  <2>2. PICK right : right = SliceFrom(bytes, place)
      OBVIOUS
  <2>3. Makes(left, right, rest)
    <3>1. PICK offset \in Nat : offset = 22
        OBVIOUS
    <3>2. CutFrom(bytes, offset, size, left, right)
        BY <1>17, <2>1, <2>2, <3>1 DEF CutFrom
    <3>3. EndsWith(bytes, offset, rest)
        BY <1>12, <3>1 DEF EndsWith
    <3>4. bytes \in Seq(Byte) /\ rest \in Seq(Byte) /\ size \in Nat /\ size <= Len(rest)
        BY <1>6, <1>9, <1>14, <1>16
    <3> QED  BY ONLY <3>2, <3>3, <3>4, offset \in Nat, EndInTwo
  <2> QED  BY <2>1, <2>2, <2>3 DEF Makes
<1>22. ASSUME ~TooLong(peer) PROVE Slice(bytes, 22, place) = peer
  <2>1. Holds(bytes, 22 + 0, peer)
      BY <1>10, <1>11, <1>12, HoldsWithin
  <2>2. Slice(bytes, 22, 22 + Len(peer)) = peer
      BY <1>6, <1>9, <2>1, HoldsSlice
  <2>3. place = 22 + Len(peer)
    <3>1. size = Len(peer)
        BY <1>22, <1>15, Zenon
    <3> QED  BY <1>17, <3>1, Zenon
  <2> QED  BY <2>2, <2>3
<1>23. result # Thrown
    BY <1>19 DEF Thrown
<1>24. result.id = id /\ result.peerId \o result.data = rest
    BY <1>19, <1>20, <1>21
<1>25. ~TooLong(peer) => result.peerId = peer
    BY <1>19, <1>22
<1> QED  BY <1>1, <1>2, <1>4, <1>7, <1>23, <1>24, <1>25, Zenon

LEMMA ExceptPub ==
    ASSUME NEW name \in CardNames, name \notin {"PUB", "PEERS", "DIRECT_MSG"}
    PROVE  name \in OneField
BY DEF OneField

\* What Samsara reads of a whole request
LEMMA SamsaraRead ==
    ASSUME Asked, ask.whole, ask.name \in Operations, NEW result, result = Req(ask.name, frame)
    PROVE  /\ result # Thrown /\ result.id = ask.fields.id
           /\ \A f \in DOMAIN ask.fields : f \in DOMAIN result /\ result[f] = AsRead(ask.fields, f)
<1>1. PICK m : m = ask.fields
    OBVIOUS
<1>2. PICK name \in Operations : name = ask.name
    OBVIOUS
<1>3. m \in Messages[name] /\ IsId(m.id) /\ name \in Names
    BY <1>1, <1>2 DEF Asked
<1>4. PICK opcode \in Byte : opcode = AskedOpcode
    BY MessageTyped
<1>5. PICK whole : whole = OpcodeFrame(opcode, m.id, Payload(name, m))
    OBVIOUS
<1>6. whole = Whole
    BY <1>1, <1>2, <1>4, <1>5 DEF Whole
<1>7. Begins(frame, whole) /\ Len(frame) = Len(whole) /\ 4 <= Len(frame)
  <2>1. Len(frame) = Len(Whole) /\ Begins(frame, Whole)
      BY FrameBegins
  <2>2. Len(Whole) \in Nat /\ Len(Whole) >= 20
      BY AskedFrame
  <2>3. 4 <= Len(frame)
      BY ONLY <2>1, <2>2
  <2> QED  BY <1>6, <2>1, <2>3
<1>8. \A f \in {"id"} \cup Fields(name) : f \in DOMAIN result /\ result[f] = AsRead(m, f)
    BY <1>2, <1>3, <1>5, <1>7, OperationRead
<1>9. DOMAIN m = {"id"} \cup Fields(name)
    BY <1>3, FieldsTyped
<1>10. "id" \in DOMAIN result /\ result.id = m.id
  <2>1. "id" \notin NumberFields
      BY DEF NumberFields
  <2> QED  BY <1>8, <2>1 DEF AsRead
<1>11. result # Thrown
    BY <1>10 DEF Thrown
<1> QED  BY <1>1, <1>8, <1>9, <1>10, <1>11

\* Every request that arrives whole is read, and every field of it as the client meant,
\* except that two texts that go in one payload are told apart by what separates them; a
\* genome read is the one that its flags make up again (the readers of cards/js and their
\* builders, and those of the page).
THEOREM RequestsAreRead == Spec => []RequestsSurvive
<1>1. ExchangeInv => RequestsSurvive
  <2> SUFFICES ASSUME ExchangeInv, stage = "read", ask.whole, ~ask.foreign PROVE RequestsSurvive
      BY DEF RequestsSurvive
  <2>1. /\ Asked /\ verdict = classifyFrame(frame) /\ verdict.target # "unknown"
        /\ parsed = Reading
      BY DEF ExchangeInv
  <2>2. /\ ServedName = ask.name
        /\ verdict.target = IF ask.name \in Operations THEN "samsara" ELSE "synap2p"
      BY <2>1, Served
  <2>3. PICK name \in Names : name = ask.name
      BY <2>1 DEF Asked
  <2>4. PICK m : m = ask.fields
      OBVIOUS
  <2>5. m \in Messages[name] /\ m.id \in Id /\ AskedOpcode \in Byte
      BY <2>1, <2>3, <2>4, MessageTyped DEF Asked
  <2>6. \A f : Arrives(f) = (parsed[f] = AsRead(m, f))
      BY <2>4 DEF Arrives, AsRead
  <2>7. frame = OpcodeFrame(AskedOpcode, m.id, Payload(name, m))
      BY <2>1, <2>3, <2>4 DEF Asked, Whole
  <2>8. CASE name \in Operations
    <3>1. parsed = Req(name, frame)
        BY <2>1, <2>2, <2>3, <2>8 DEF Reading
    <3>2. /\ parsed # Thrown /\ parsed.id = m.id
          /\ \A f \in DOMAIN m : f \in DOMAIN parsed /\ parsed[f] = AsRead(m, f)
        BY <2>1, <2>3, <2>4, <2>8, <3>1, SamsaraRead
    <3>3. name \notin {"DIRECT_MSG", "PUB"}
        BY <2>8, Operation
    <3>4. ASSUME name = "CREATE_DB"
          PROVE  genomeUint32FromDetail(genomeDetailFromUint32(parsed.genome))
                     = parsed.genome % (2 * FlagBits[Len(FlagBits)])
      <4>1. "genome" \in DOMAIN m /\ "genome" \in NumberFields
        <5>1. DOMAIN m = {"id"} \cup Fields("CREATE_DB")
            BY <2>5, <3>4, FieldsTyped
        <5> QED  BY <5>1 DEF Fields, NumberFields
      <4>2. parsed.genome = ToUint32(m.genome)
          BY <3>2, <4>1 DEF AsRead
      <4>3. PICK g \in Nat : g = parsed.genome
          BY <4>2, ToUint32Typed
      <4> QED  BY <4>3, GenomeKept
    <3> QED  BY <2>3, <2>4, <2>6, <3>2, <3>3, <3>4 DEF RequestsSurvive
  <2>9. CASE name \notin Operations
    <3>1. name \in CardNames
        BY <2>9 DEF Names
    <3>2. parsed = synapReq(CardOf[name], frame)
        BY <2>1, <2>2, <2>3, <2>9 DEF Reading
    <3>3. name # "CREATE_DB"
        BY <2>9, Operation
    <3>4. CASE name = "DIRECT_MSG"
      <4>1. /\ parsed # Thrown /\ parsed.id = ask.fields.id
            /\ parsed.peerId \o parsed.data = ask.fields.peerId \o ask.fields.data
            /\ ~TooLong(ask.fields.peerId) => parsed.peerId = ask.fields.peerId
          BY <2>1, <2>3, <3>2, <3>4, DirectMessageRead
      <4> QED  BY <2>3, <3>4, <4>1 DEF RequestsSurvive
    <3>5. CASE name = "PUB"
      <4>1. /\ parsed # Thrown /\ parsed.id = m.id
            /\ parsed.topic \o <<Bar>> \o parsed.message = m.topic \o <<Bar>> \o m.message
            /\ Bar \notin {m.topic[i] : i \in DOMAIN m.topic} => parsed.topic = m.topic
        <5>1. m \in Messages["PUB"] /\ m.id \in Id /\ AskedOpcode \in Byte
            BY <2>5, <3>5
        <5>2. frame = OpcodeFrame(AskedOpcode, m.id, Payload("PUB", m))
            BY <2>7, <3>5
        <5>3. parsed = synapReq(CardOf["PUB"], frame)
            BY <3>2, <3>5
        <5> QED  BY ONLY <5>1, <5>2, <5>3, PubRead, Zenon
      <4> QED  BY <2>3, <2>4, <3>5, <4>1 DEF RequestsSurvive
    <3>6. CASE name \notin {"DIRECT_MSG", "PUB"}
      <4>1. /\ parsed # Thrown /\ parsed.id = m.id
            /\ \A f \in DOMAIN m : f \in DOMAIN parsed /\ parsed[f] = AsRead(m, f)
        <5>1. CASE name = "PEERS"
            BY <2>5, <2>7, <3>2, <5>1, PeersRead
        <5>2. CASE name # "PEERS"
          <6>1. name \in OneField
              BY <3>1, <3>6, <5>2, ExceptPub
          <6> QED  BY <2>5, <2>7, <3>2, <6>1, OneFieldRead
        <5> QED  BY <5>1, <5>2
      <4> QED  BY <2>3, <2>4, <2>6, <3>3, <3>6, <4>1 DEF RequestsSurvive
    <3> QED  BY <3>4, <3>5, <3>6
  <2> QED  BY <2>8, <2>9
<1> QED  BY <1>1, ExchangeInvariant, PTL

--------------------------------------------------------------------------------
(***************************************************************************)
(* Events.                                                                 *)
(***************************************************************************)
\* What follows the id in the frame of an event
EventPayload(e) ==
    CASE e.name = "EVENT_PUBSUB" -> e.data
      [] e.name = "EVENT_DIRECT_MSG" -> u16Bytes(Len(e.peerId)) \o (e.peerId \o e.data)
      [] OTHER -> u16Bytes(Len(e.peerId)) \o e.peerId

LEMMA EventTyped ==
    ASSUME NEW e \in Events
    PROVE  /\ e.name \in {"EVENT_PUBSUB", "EVENT_DIRECT_MSG", "EVENT_PEER_FOUND"}
           /\ e.id \in Id /\ OP[e.name] \in Byte
           /\ e.name # "EVENT_PUBSUB" => "peerId" \in DOMAIN e /\ e.peerId \in Seq(Byte)
           /\ e.name # "EVENT_PEER_FOUND" => "data" \in DOMAIN e /\ e.data \in Seq(Byte)
           /\ e.name = "EVENT_PEER_FOUND" => e.id = Zeros(16)
           /\ e.name = "EVENT_PUBSUB" => "peerId" \notin DOMAIN e
<1>1. /\ e.name \in {"EVENT_PUBSUB", "EVENT_DIRECT_MSG", "EVENT_PEER_FOUND"}
      /\ DOMAIN e = {"name", "id"} \cup (IF e.name = "EVENT_PUBSUB" THEN {} ELSE {"peerId"})
                        \cup (IF e.name = "EVENT_PEER_FOUND" THEN {} ELSE {"data"})
      /\ \A f \in DOMAIN e \ {"name"} : e[f] \in Seq(Byte)
      /\ IF e.name = "EVENT_PEER_FOUND" THEN e.id = Zeros(16) ELSE Len(e.id) = 16
    BY EventsAssumption DEF EventNames, IsId
<1>2. OP[e.name] \in Byte
  <2>1. OP[e.name] \in 1..16
      BY <1>1, OpcodeTables DEF EventNames
  <2> QED  BY <2>1, RadixTyped DEF Byte
<1>3. e.id \in Seq(Byte)
    BY <1>1
<1>4. Len(e.id) = 16
  <2>1. CASE e.name = "EVENT_PEER_FOUND"
    <3>1. PICK zeros : zeros = [i \in 1..16 |-> 0]
        OBVIOUS
    <3>2. zeros \in [1..16 -> {0}] /\ 16 \in Nat
        BY <3>1
    <3>3. Len(zeros) = 16
        BY <3>2, SeqOfFunction
    <3> QED  BY <1>1, <2>1, <3>1, <3>3 DEF Zeros
  <2> QED  BY <1>1, <2>1
<1> QED  BY <1>1, <1>2, <1>3, <1>4 DEF Id

LEMMA EventPayloadTyped ==
    ASSUME NEW e \in Events
    PROVE  EventPayload(e) \in Seq(Byte) /\ EventBytes(e) = OpcodeFrame(OP[e.name], e.id, EventPayload(e))
<1>1. /\ e.id \in Id /\ e.id \in Seq(Byte) /\ OP[e.name] \in Byte
      /\ SYNAP2P_OPCODES[e.name] = OP[e.name]
    BY EventTyped, OpcodeTables DEF Id, EventNames
<1>2. CASE e.name = "EVENT_PUBSUB"
  <2>1. e.data \in Seq(Byte) /\ EventPayload(e) = e.data
      BY <1>2, EventTyped DEF EventPayload
  <2>2. EventBytes(e) = buildSinglePayloadRequest(OP[e.name], e.data, e.id)
      BY <1>1, <1>2 DEF EventBytes, buildEventPubSub, buildSinglePayloadRequest
  <2> QED  BY <1>1, <2>1, <2>2, Composed
<1>3. CASE e.name = "EVENT_DIRECT_MSG"
  <2>1. PICK peer \in Seq(Byte) : peer = e.peerId
      BY <1>3, EventTyped
  <2>2. PICK data \in Seq(Byte) : data = e.data
      BY <1>3, EventTyped
  <2>3. PICK length \in Seq(Byte) : length = u16Bytes(Len(peer))
      BY U16Written
  <2>4. EventBytes(e) = buildDirectMsgRequest(OP[e.name], peer, data, e.id)
      BY <1>1, <1>3, <2>1, <2>2 DEF EventBytes, buildEventDirectMsg
  <2>5. EventBytes(e) = OpcodeFrame(OP[e.name], e.id, concat(<<length, peer, data>>))
      BY <1>1, <2>3, <2>4, DirectComposed, ZenonT(60)
  <2>6. concat(<<length, peer, data>>) = length \o (peer \o data)
    <3>1. FlattenSeq(<<length, peer, data>>) = length \o FlattenSeq(<<peer, data>>)
        BY FlattenThree, Zenon
    <3>2. FlattenSeq(<<peer, data>>) = peer \o data
        BY FlattenTwo, Zenon
    <3> QED  BY <3>1, <3>2, Zenon DEF concat
  <2>7. length \o (peer \o data) \in Seq(Byte)
    <3>1. peer \o data \in Seq(Byte)
        BY ConcatProperties
    <3> QED  BY <3>1, ConcatProperties
  <2>8. EventPayload(e) = length \o (peer \o data)
      BY <1>3, <2>1, <2>2, <2>3 DEF EventPayload
  <2> QED  BY <2>5, <2>6, <2>7, <2>8, Zenon
<1>4. CASE e.name = "EVENT_PEER_FOUND"
  <2>1. PICK peer \in Seq(Byte) : peer = e.peerId
      BY <1>4, EventTyped
  <2>2. PICK length \in Seq(Byte) : length = u16Bytes(Len(peer))
      BY U16Written
  <2>3. PICK opcode \in Byte : opcode = OP[e.name]
      BY <1>1
  <2>4. PICK id \in Seq(Byte) : id = e.id
      BY <1>1
  <2>5. EventBytes(e) = FlattenSeq(<<u32Bytes(opcode)>> \o <<id, length, peer>>)
    <3>1. Zeros(16) = id
        BY <1>4, <2>4, EventTyped
    <3>2. EventBytes(e) = buildOpcodeMessage(opcode, <<id, length, peer>>)
        BY <1>1, <1>4, <2>1, <2>2, <2>3, <3>1 DEF EventBytes, buildEventPeerFound
    <3> QED  BY <3>2 DEF buildOpcodeMessage, concatBytes
  <2>6. u32Bytes(opcode) \in Seq(Byte) /\ u32Bytes(opcode) = <<0, 0, 0, opcode>>
      BY U32Written, OpcodeWritten
  <2>7. FlattenSeq(<<u32Bytes(opcode)>> \o <<id, length, peer>>)
          = u32Bytes(opcode) \o FlattenSeq(<<id, length, peer>>)
    <3>1. <<id, length, peer>> \in Seq(Seq(Byte))
        OBVIOUS
    <3> QED  BY <2>6, <3>1, FlattenFront, Zenon
  <2>8. FlattenSeq(<<id, length, peer>>) = id \o FlattenSeq(<<length, peer>>)
      BY FlattenThree, Zenon
  <2>9. FlattenSeq(<<length, peer>>) = length \o peer
      BY FlattenTwo, Zenon
  <2>10. length \o peer \in Seq(Byte) /\ EventPayload(e) = length \o peer
    <3>1. length \o peer \in Seq(Byte)
        BY ConcatProperties
    <3> QED  BY <1>4, <2>1, <2>2, <3>1 DEF EventPayload
  <2>11. EventBytes(e) = <<0, 0, 0, opcode>> \o (id \o EventPayload(e))
      BY <2>5, <2>6, <2>7, <2>8, <2>9, <2>10, Zenon
  <2> QED  BY <2>3, <2>4, <2>10, <2>11 DEF OpcodeFrame
<1> QED  BY <1>2, <1>3, <1>4, EventTyped

\* An event is passed to everybody, and nothing it says is anybody's answer.
EventInv ==
    /\ stage \in {"answered", "delivered", "broadcast", "lost", "shown"} => answer # None
    /\ answer # None /\ answer.kind = "event" =>
          /\ stage \in {"answered", "broadcast", "shown"} /\ verdict = None
          /\ ask.fields \in Events /\ ask.name = ask.fields.name
          /\ ask.sender \in {"page", "library"}
          /\ reply = EventBytes(ask.fields)

LEMMA EventPassed == ASSUME NEW e \in Events PROVE IsEvent(EventBytes(e))
<1>1. PICK bytes : bytes = EventBytes(e)
    OBVIOUS
<1>2. PICK opcode \in Byte : opcode = OP[e.name]
    BY EventTyped
<1>3. PICK id \in Id : id = e.id
    BY EventTyped
<1>4. PICK payload \in Seq(Byte) : payload = EventPayload(e)
    BY EventPayloadTyped
<1>5. bytes = OpcodeFrame(opcode, id, payload)
    BY <1>1, <1>2, <1>3, <1>4, EventPayloadTyped
<1>6. /\ Len(bytes) \in Nat /\ Len(bytes) >= 20
      /\ bytes[1] = 0 /\ bytes[2] = 0 /\ bytes[3] = 0 /\ bytes[4] = opcode
    BY SMTT(30), <1>5, FrameParts
<1>7. opcode \in OpcodeEventMin..OpcodeEventMax /\ opcode \in OpcodeRequestMin..OpcodeEventMax
  <2>1. opcode \in OpcodeEventMin..OpcodeEventMax
      BY <1>2, EventTyped, CardRange DEF EventNames
  <2> QED  BY <2>1, OpcodeAssumption, RadixTyped DEF Byte
<1>8. Len(bytes) >= 4
    BY ONLY <1>6
<1> QED  BY <1>1, <1>6, <1>7, <1>8 DEF IsEvent, synapOpcodeFromFrame, isSynapEvent

\* An event that the node tells is passed to everybody as it was told, whatever it
\* tells and whoever it comes from (routeFrame on what the builders of events make).
THEOREM EventInvariant == Spec => []EventInv
<1>1. Init => EventInv
    BY DEF Init, EventInv
<1>2. ExchangeInv /\ EventInv /\ [Next]_vars => EventInv'
  <2> SUFFICES ASSUME ExchangeInv, EventInv, [Next]_vars PROVE EventInv'
      OBVIOUS
  <2>1. ASSUME NEW sender \in {"page", "library"}, NEW name \in Names, Compose(sender, name)
        PROVE  EventInv'
      BY <2>1 DEF Compose, ExchangeInv, EventInv
  <2>2. ASSUME NEW reader \in {"page", "library"}, SaysEvent(reader) PROVE EventInv'
    <3>1. PICK e \in Events :
            /\ ask' = [sender |-> reader, name |-> e.name, fields |-> e, whole |-> TRUE,
                       foreign |-> FALSE]
            /\ reply' = EventBytes(e)
        BY <2>2 DEF SaysEvent
    <3>2. answer' = [kind |-> "event"] /\ answer' # None
        BY <2>2 DEF SaysEvent, None
    <3>3. stage' = "answered" /\ verdict' = None
        BY <2>2 DEF SaysEvent, ExchangeInv
    <3>4. /\ ask'.fields \in Events /\ ask'.name = ask'.fields.name
          /\ ask'.sender \in {"page", "library"} /\ reply' = EventBytes(ask'.fields)
        BY <3>1
    <3> QED  BY <3>2, <3>3, <3>4 DEF EventInv
  <2>3. CASE Renumber \/ RenumberSynap \/ CutShort
      BY <2>3 DEF Renumber, RenumberSynap, CutShort, EventInv
  <2>4. CASE Dispatch
    <3>1. \/ answer' = answer /\ stage' = "accepted"
          \/ answer' = [kind |-> "envelope"] /\ stage' = "delivered"
        BY <2>4 DEF Dispatch
    <3>2. [kind |-> "envelope"] # None
        BY DEF None
    <3> QED  BY <2>4, <3>1, <3>2 DEF Dispatch, EventInv
  <2>5. CASE EngineReads
      BY <2>5 DEF EngineReads, EventInv
  <2>6. CASE SaysDone \/ SaysFailed \/ SaysEnvelope
    <3>1. PICK kind \in {"done", "failed", "envelope"} : \E result, bytes : Says(kind, result, bytes)
      <4>1. CASE SaysDone
          BY <4>1 DEF SaysDone
      <4>2. CASE SaysFailed
          BY <4>2 DEF SaysFailed
      <4>3. CASE SaysEnvelope
          BY <4>3 DEF SaysEnvelope
      <4> QED  BY <2>6, <4>1, <4>2, <4>3
    <3>2. answer'.kind = kind /\ answer' # None
        BY <3>1 DEF Says, None
    <3> QED  BY <3>2 DEF EventInv
  <2>7. CASE routeFrame
    <3>1. /\ UNCHANGED <<ask, verdict, answer, reply>> /\ stage = "answered"
          /\ IsEvent(reply) => stage' = "broadcast"
        BY <2>7 DEF routeFrame
    <3>2. answer # None /\ answer.kind = "event" => IsEvent(reply)
        BY <3>1, EventPassed DEF EventInv
    <3> QED  BY <3>1, <3>2 DEF EventInv
  <2>8. CASE ClientReads
      BY <2>8 DEF ClientReads, EventInv
  <2>9. CASE Over \/ UNCHANGED vars
      BY <2>9 DEF Over, vars, EventInv
  <2> QED
      BY <2>1, <2>2, <2>3, <2>4, <2>5, <2>6, <2>7, <2>8, <2>9 DEF Next
<1> QED  BY <1>1, <1>2, ExchangeInvariant, PTL DEF Spec

LEMMA KnownOpcode ==
    ASSUME NEW name \in Names \cup EventNames PROVE OP[name] \in KNOWN_OPCODES /\ OP[name] \in Byte
<1>1. DOMAIN OP = SynapOps \cup Operations
    BY Operation DEF OP
<1>2. name \in DOMAIN OP
    BY <1>1 DEF Names, SynapOps, CardNames, EventNames
<1>3. OP[name] \in Byte
  <2>1. name \in EventNames => OP[name] \in 1..16
      BY OpcodeTables
  <2> QED  BY <2>1, OpcodesTyped, RadixTyped DEF Byte
<1> QED  BY <1>2, <1>3 DEF KNOWN_OPCODES

LEMMA PageOpcodes ==
    /\ RequestOps = 1..13 /\ SamsaraOps = 32..40
    /\ OP["EVENT_PUBSUB"] = 14 /\ OP["EVENT_DIRECT_MSG"] = 15 /\ OP["EVENT_PEER_FOUND"] = 16
BY DEF RequestOps, SamsaraOps, OP, SynapOps

LEMMA IdSlice ==
    ASSUME NEW bytes \in Seq(Byte), NEW offset \in Nat, NEW id \in Id, Holds(bytes, offset, id),
           NEW end, end = offset + 16
    PROVE  Slice(bytes, offset, end) = id
<1>1. id \in Seq(Byte) /\ Len(id) = 16
    BY DEF Id
<1>2. Slice(bytes, offset, offset + Len(id)) = id
    BY <1>1, HoldsSlice
<1> QED  BY <1>1, <1>2

LEMMA LowByteOf ==
    ASSUME NEW opcode \in Byte, NEW bytes, U32At(bytes, 0) = opcode
    PROVE  LowByte(bytes) = opcode /\ frameOpcode(bytes) = opcode
<1>1. Radix \in Nat /\ Radix > 0 /\ opcode \in 0..(Radix - 1)
    BY RadixTyped DEF Byte
<1>2. opcode % Radix = opcode
    BY <1>1, DivSmall
<1> QED  BY <1>2 DEF LowByte, frameOpcode

\* What the page makes of a frame that begins with its opcode
PageSays(opcode, id, payload) ==
    CASE opcode \in 1..13 ->
            Shown(opcode, id, payload # << >> /\ payload[1] = 1, SliceFrom(payload, 1))
      [] opcode = 15 -> Shown(opcode, NoId, FALSE, parseDirectMsgPayload(payload))
      [] opcode = 16 ->
            Shown(opcode, NoId, FALSE,
                  IF Len(payload) >= 2 /\ 2 + U16At(payload, 0) <= Len(payload)
                  THEN Slice(payload, 2, 2 + U16At(payload, 0)) ELSE << >>)
      [] OTHER -> Shown(opcode, NoId, FALSE, payload)

LEMMA PageTakes ==
    ASSUME NEW opcode \in Byte, opcode \in KNOWN_OPCODES, NEW id \in Id, NEW payload \in Seq(Byte),
           NEW bytes, bytes = OpcodeFrame(opcode, id, payload), NEW pending
    PROVE  inspectIncomingFrame(bytes, pending) = PageSays(opcode, id, payload)
<1>1. /\ bytes \in Seq(Byte) /\ Len(bytes) = 20 + Len(payload) /\ Len(payload) \in Nat
      /\ Holds(bytes, 4, id) /\ Holds(bytes, 20, payload) /\ U32At(bytes, 0) = opcode
    BY OpcodeFrameParts
<1>2. Slice(bytes, 4, 20) = id /\ SliceFrom(bytes, 20) = payload
    BY <1>1, IdSlice, HoldsRest
<1>3. /\ ~(Len(bytes) < 20) /\ Len(bytes) >= 20 /\ Len(bytes) >= 4 /\ bytes # << >>
  <2>1. Len(bytes) # 0
      BY <1>1
  <2> QED  BY <1>1, <2>1
<1>4. frameOpcode(bytes) = opcode
    BY <1>1, LowByteOf
<1>5. isOpcodeFrame(bytes)
    BY <1>3, <1>4 DEF isOpcodeFrame
<1>6. inspectIncomingFrame(bytes, pending) = parseSynapOpcodeFrame(bytes, opcode)
    BY <1>3, <1>4, <1>5 DEF inspectIncomingFrame
<1>7. RequestOps = 1..13 /\ OP["EVENT_DIRECT_MSG"] = 15 /\ OP["EVENT_PEER_FOUND"] = 16
    BY PageOpcodes
<1> DEFINE done(sixteen, rest) ==
                Shown(opcode, sixteen, rest # << >> /\ rest[1] = 1, SliceFrom(rest, 1))
           direct(rest) == Shown(opcode, NoId, FALSE, parseDirectMsgPayload(rest))
           found(rest) ==
                Shown(opcode, NoId, FALSE,
                      IF Len(rest) >= 2 /\ 2 + U16At(rest, 0) <= Len(rest)
                      THEN Slice(rest, 2, 2 + U16At(rest, 0)) ELSE << >>)
           plain(rest) == Shown(opcode, NoId, FALSE, rest)
           first == Slice(bytes, 4, 20)
           behind == SliceFrom(bytes, 20)
<1>8. parseSynapOpcodeFrame(bytes, opcode) =
        CASE Len(bytes) < 20 -> Shown(opcode, NoId, FALSE, << >>)
          [] Len(bytes) >= 20 /\ opcode \in RequestOps -> done(first, behind)
          [] Len(bytes) >= 20 /\ opcode = OP["EVENT_DIRECT_MSG"] -> direct(behind)
          [] Len(bytes) >= 20 /\ opcode = OP["EVENT_PEER_FOUND"] -> found(behind)
          [] OTHER -> plain(behind)
    BY DEF parseSynapOpcodeFrame
<1>9. first = id /\ behind = payload
    BY <1>2
<1> HIDE DEF done, direct, found, plain, first, behind
<1>10. PICK read : read = inspectIncomingFrame(bytes, pending)
    OBVIOUS
<1>11. read = CASE opcode \in 1..13 -> done(id, payload)
                [] opcode = 15 -> direct(payload)
                [] opcode = 16 -> found(payload)
                [] OTHER -> plain(payload)
    BY <1>3, <1>6, <1>7, <1>8, <1>9, <1>10
<1>12. PageSays(opcode, id, payload) =
          CASE opcode \in 1..13 -> done(id, payload)
            [] opcode = 15 -> direct(payload)
            [] opcode = 16 -> found(payload)
            [] OTHER -> plain(payload)
    BY DEF PageSays, done, direct, found, plain
<1> QED  BY <1>10, <1>11, <1>12

\* A peer with its length in front, and what is told beside it
PeerTold(peer, data) == u16Bytes(Len(peer)) \o (peer \o data)

LEMMA PeerToldParts ==
    ASSUME NEW peer \in Seq(Byte), NEW data \in Seq(Byte), NEW payload, payload = PeerTold(peer, data),
           ~TooLong(peer)
    PROVE  /\ payload \in Seq(Byte) /\ Len(payload) = 2 + Len(peer) + Len(data)
           /\ Len(peer) \in Nat /\ Len(data) \in Nat
           /\ U16At(payload, 0) = Len(peer)
           /\ Holds(payload, 2, peer) /\ Holds(payload, 2 + Len(peer), data)
<1>1. PICK length : length = u16Bytes(Len(peer))
    OBVIOUS
<1>2. PICK rest : rest = peer \o data
    OBVIOUS
<1>3. PICK n \in Nat : n = Len(peer)
    BY LenProperties
<1>4. Len(data) \in Nat
    BY LenProperties
<1>5. length \in Seq(Byte) /\ Len(length) = 2 /\ U16At(length, 0) = ToUint32(n) % (Radix * Radix)
    BY <1>1, <1>3, U16Written
<1>6. /\ rest \in Seq(Byte) /\ Len(rest) = Len(peer) + Len(data)
      /\ Holds(rest, 0, peer) /\ Holds(rest, Len(peer), data)
    BY <1>2, HoldsParts
<1>7. /\ payload \in Seq(Byte) /\ Len(payload) = Len(length) + Len(rest)
      /\ Holds(payload, 0, length) /\ Holds(payload, Len(length), rest)
    BY <1>1, <1>2, <1>5, <1>6, HoldsParts DEF PeerTold
<1>8. Len(payload) \in Nat /\ Len(rest) \in Nat /\ Holds(payload, 2, rest)
    BY <1>5, <1>6, <1>7, LenProperties
<1>9. Holds(payload, 2 + 0, peer)
    BY <1>3, <1>6, <1>8, HoldsWithin
<1>10. Holds(payload, 2 + n, data)
    BY <1>3, <1>4, <1>6, <1>8, HoldsWithin
<1>11. U16At(payload, 0) = U16At(length, 0)
  <2>1. \A i \in 1..2 : payload[0 + i] = length[i]
      BY <1>5, <1>7 DEF Holds
  <2>2. payload[1] = length[1] /\ payload[2] = length[2]
      BY ONLY <2>1
  <2> QED  BY ONLY <2>2 DEF U16At
<1>12. ToUint32(n) % (Radix * Radix) = n
  <2>1. PICK square \in Nat : square = Radix * Radix /\ square > 0
      BY RadixTyped
  <2>2. n < square
      BY <1>3, <2>1 DEF TooLong
  <2>3. Word = square * square
      BY ONLY <2>1, RadixTyped
  <2>4. square * square >= square
      BY ONLY <2>1, square \in Nat
  <2>5. n \in 0..(Word - 1)
      BY ONLY <2>2, <2>3, <2>4, WordTyped, n \in Nat, square \in Nat
  <2>6. ToUint32(n) = n
      BY <2>5, WordKept
  <2>7. n % square = n
      BY ONLY <2>1, <2>2, n \in Nat, square \in Nat, DivSmall
  <2> QED  BY <2>1, <2>6, <2>7
<1> QED  BY <1>3, <1>4, <1>5, <1>6, <1>7, <1>9, <1>10, <1>11, <1>12

\* The library and the page read the peer and what is told beside it as they were.
LEMMA PeerToldRead ==
    ASSUME NEW opcode \in Byte, NEW id \in Id, NEW peer \in Seq(Byte), NEW data \in Seq(Byte),
           ~TooLong(peer), NEW payload, payload = PeerTold(peer, data),
           NEW bytes, bytes = OpcodeFrame(opcode, id, payload)
    PROVE  /\ parseDirectMsgRequest(bytes) =
                [opcode |-> opcode, id |-> id, peerId |-> peer, data |-> data]
           /\ parseDirectMsgPayload(payload) = data
           /\ Len(payload) >= 2 /\ 2 + U16At(payload, 0) <= Len(payload)
           /\ Slice(payload, 2, 2 + U16At(payload, 0)) = peer
<1>1. PICK n \in Nat : n = Len(peer)
    BY LenProperties
<1>2. /\ payload \in Seq(Byte) /\ Len(payload) = 2 + n + Len(data) /\ Len(data) \in Nat
      /\ U16At(payload, 0) = n /\ Holds(payload, 2, peer) /\ Holds(payload, 2 + n, data)
    BY ONLY <1>1, peer \in Seq(Byte), data \in Seq(Byte), payload = PeerTold(peer, data),
            ~TooLong(peer), PeerToldParts
<1>3. /\ bytes \in Seq(Byte) /\ Len(bytes) = 20 + Len(payload) /\ Len(payload) \in Nat
      /\ Holds(bytes, 4, id) /\ Holds(bytes, 20, payload) /\ U32At(bytes, 0) = opcode
    BY <1>2, OpcodeFrameParts
<1>4. Slice(payload, 2, 2 + n) = peer /\ SliceFrom(payload, 2 + n) = data
  <2>1. Slice(payload, 2, 2 + Len(peer)) = peer
      BY <1>2, HoldsSlice
  <2>2. PICK k \in Nat : k = 2 + n
      BY <1>1
  <2>3. SliceFrom(payload, k) = data
    <3>1. Holds(payload, k, data) /\ Len(payload) = k + Len(data)
        BY <1>2, <2>2
    <3> QED  BY <1>2, <3>1, HoldsRest
  <2> QED  BY <1>1, <2>1, <2>2, <2>3
<1>5. Len(payload) >= 2 /\ 2 + n <= Len(payload) /\ ~(Len(payload) < 2) /\ ~(2 + n > Len(payload))
    BY ONLY <1>2, <1>3, n \in Nat
<1>6. parseDirectMsgPayload(payload) = data
    BY <1>2, <1>4, <1>5 DEF parseDirectMsgPayload
<1>7. U16At(bytes, 20) = n
  <2>1. bytes[20 + 1] = payload[1] /\ bytes[20 + 2] = payload[2]
      BY <1>3, <1>5 DEF Holds
  <2>2. bytes[21] = payload[1] /\ bytes[22] = payload[2]
      BY <2>1
  <2> QED  BY ONLY <1>2, <2>2 DEF U16At
<1>8. PICK place \in Nat : place = 22 + n
    BY <1>1
<1>9. Holds(bytes, 20 + 2, peer)
    BY <1>1, <1>2, <1>3, HoldsWithin
<1>10. Holds(bytes, place, data)
  <2>1. PICK k \in Nat : k = 2 + n
      BY <1>1
  <2>2. Len(bytes) \in Nat /\ Holds(payload, k, data)
      BY <1>2, <1>3, <2>1
  <2>3. Holds(bytes, 20 + k, data)
      BY <1>2, <1>3, <2>2, HoldsWithin
  <2> QED  BY <1>8, <2>1, <2>3
<1>11. Slice(bytes, 22, place) = peer
  <2>1. Slice(bytes, 22, 22 + Len(peer)) = peer
      BY <1>3, <1>9, HoldsSlice
  <2> QED  BY <1>1, <1>8, <2>1
<1>12. Len(bytes) = place + Len(data) /\ ~(Len(bytes) < 22) /\ ~(Len(bytes) < place)
    BY <1>2, <1>3, <1>8
<1>13. SliceFrom(bytes, place) = data
    BY <1>3, <1>10, <1>12, HoldsRest
<1>14. Slice(bytes, 4, 20) = id /\ LowByte(bytes) = opcode
    BY <1>3, IdSlice, LowByteOf
<1>15. parseDirectMsgRequest(bytes) = [opcode |-> opcode, id |-> id, peerId |-> peer, data |-> data]
    BY <1>7, <1>8, <1>11, <1>12, <1>13, <1>14 DEF parseDirectMsgRequest, readResultMessage
<1> QED  BY <1>2, <1>4, <1>5, <1>6, <1>15

LEMMA NothingBehind == ASSUME NEW bytes \in Seq(Byte) PROVE bytes \o << >> = bytes
BY ConcatEmptySeq

\* What the readers make of an event
LEMMA EventRead ==
    ASSUME NEW e \in Events, ~("peerId" \in DOMAIN e /\ TooLong(e.peerId)),
           NEW bytes, bytes = EventBytes(e), NEW pending,
           NEW told, told = IF e.name = "EVENT_PEER_FOUND" THEN e.peerId ELSE e.data
    PROVE  /\ inspectIncomingFrame(bytes, pending) = Shown(OP[e.name], NoId, FALSE, told)
           /\ e.name = "EVENT_PUBSUB" =>
                parseEventPubSub(bytes) = [opcode |-> OP[e.name], id |-> e.id, payload |-> told]
           /\ e.name = "EVENT_DIRECT_MSG" =>
                parseEventDirectMsg(bytes) =
                  [opcode |-> OP[e.name], id |-> e.id, peerId |-> e.peerId, data |-> told]
           /\ e.name = "EVENT_PEER_FOUND" =>
                parseEventPeerFound(bytes) = [opcode |-> OP[e.name], id |-> e.id, peerId |-> told]
<1>1. PICK opcode \in Byte : opcode = OP[e.name] /\ opcode \in KNOWN_OPCODES
    BY EventTyped, KnownOpcode DEF EventNames
<1>2. PICK id \in Id : id = e.id
    BY EventTyped
<1>3. PICK payload \in Seq(Byte) : payload = EventPayload(e)
    BY EventPayloadTyped
<1>4. bytes = OpcodeFrame(opcode, id, payload)
    BY <1>1, <1>2, <1>3, EventPayloadTyped
<1>5. /\ e.name = "EVENT_PUBSUB" => opcode = 14
      /\ e.name = "EVENT_DIRECT_MSG" => opcode = 15
      /\ e.name = "EVENT_PEER_FOUND" => opcode = 16
    BY <1>1, PageOpcodes
<1>9. inspectIncomingFrame(bytes, pending) = PageSays(opcode, id, payload)
    BY ONLY <1>1, <1>4, opcode \in Byte, id \in Id, payload \in Seq(Byte), PageTakes
<1>6. CASE e.name = "EVENT_PUBSUB"
  <2>1. told = payload
      BY <1>3, <1>6 DEF EventPayload
  <2>2. inspectIncomingFrame(bytes, pending) = Shown(opcode, NoId, FALSE, payload)
    <3>1. opcode \notin 1..13 /\ opcode # 15 /\ opcode # 16
        BY <1>5, <1>6
    <3> QED  BY <1>9, <3>1 DEF PageSays
  <2>3. PICK result : result = parseSinglePayloadRequest(bytes)
      OBVIOUS
  <2>4. result = [opcode |-> LowByte(bytes), id |-> id, payload |-> payload]
      BY ONLY <1>4, <2>3, opcode \in Byte, id \in Id, payload \in Seq(Byte), PayloadRead
  <2>5. LowByte(bytes) = opcode
    <3>1. U32At(bytes, 0) = opcode
        BY ONLY <1>4, opcode \in Byte, id \in Id, payload \in Seq(Byte), OpcodeFrameParts
    <3> QED  BY <3>1, LowByteOf
  <2> QED  BY <1>1, <1>2, <1>6, <2>1, <2>2, <2>3, <2>4, <2>5 DEF parseEventPubSub
<1>7. CASE e.name = "EVENT_DIRECT_MSG"
  <2>1. PICK peer \in Seq(Byte) : peer = e.peerId
      BY <1>7, EventTyped
  <2>2. PICK data \in Seq(Byte) : data = e.data
      BY <1>7, EventTyped
  <2>3. payload = PeerTold(peer, data) /\ told = data
      BY <1>3, <1>7, <2>1, <2>2 DEF EventPayload, PeerTold
  <2>4. ~TooLong(peer)
      BY <1>7, <2>1, EventTyped
  <2>5. /\ parseDirectMsgRequest(bytes) =
                [opcode |-> opcode, id |-> id, peerId |-> peer, data |-> data]
        /\ parseDirectMsgPayload(payload) = data
      BY ONLY <1>4, <2>3, <2>4, opcode \in Byte, id \in Id, peer \in Seq(Byte), data \in Seq(Byte),
              PeerToldRead
  <2>6. inspectIncomingFrame(bytes, pending) =
                Shown(opcode, NoId, FALSE, parseDirectMsgPayload(payload))
    <3>1. opcode = 15 /\ opcode \notin 1..13
        BY <1>5, <1>7
    <3> QED  BY <1>9, <3>1 DEF PageSays
  <2> QED  BY <1>1, <1>2, <1>7, <2>1, <2>3, <2>5, <2>6 DEF parseEventDirectMsg
<1>8. CASE e.name = "EVENT_PEER_FOUND"
  <2>1. PICK peer \in Seq(Byte) : peer = e.peerId
      BY <1>8, EventTyped
  <2>2. PICK data \in Seq(Byte) : data = << >>
    <3>1. << >> \in Seq(Byte)
        OBVIOUS
    <3> QED  BY <3>1, Zenon
  <2>3. payload = PeerTold(peer, data) /\ told = peer
    <3>1. peer \o data = peer
        BY <2>2, NothingBehind
    <3>2. told = peer /\ payload = u16Bytes(Len(peer)) \o peer
        BY <1>3, <1>8, <2>1 DEF EventPayload
    <3> QED  BY <3>1, <3>2 DEF PeerTold
  <2>4. ~TooLong(peer)
      BY <1>8, <2>1, EventTyped
  <2>5. /\ parseDirectMsgRequest(bytes) =
                [opcode |-> opcode, id |-> id, peerId |-> peer, data |-> data]
        /\ Len(payload) >= 2 /\ 2 + U16At(payload, 0) <= Len(payload)
        /\ Slice(payload, 2, 2 + U16At(payload, 0)) = peer
      BY ONLY <1>4, <2>3, <2>4, opcode \in Byte, id \in Id, peer \in Seq(Byte), data \in Seq(Byte),
              PeerToldRead
  <2>6. inspectIncomingFrame(bytes, pending) =
                Shown(opcode, NoId, FALSE,
                      IF Len(payload) >= 2 /\ 2 + U16At(payload, 0) <= Len(payload)
                      THEN Slice(payload, 2, 2 + U16At(payload, 0)) ELSE << >>)
    <3>1. opcode = 16 /\ opcode \notin 1..13
        BY <1>5, <1>8
    <3> QED  BY <1>9, <3>1 DEF PageSays
  <2>7. inspectIncomingFrame(bytes, pending) = Shown(opcode, NoId, FALSE, peer)
      BY <2>5, <2>6
  <2>8. parseEventPeerFound(bytes) = [opcode |-> opcode, id |-> id, peerId |-> peer]
    <3>1. PICK parsed0 : parsed0 = parseDirectMsgRequest(bytes)
        OBVIOUS
    <3>2. parsed0 = [opcode |-> opcode, id |-> id, peerId |-> peer, data |-> data]
        BY <2>5, <3>1
    <3>3. parsed0 # Thrown
        BY <3>2 DEF Thrown
    <3>4. parseEventPeerFound(bytes) = Restrict(parsed0, {"opcode", "id", "peerId"})
        BY <3>1, <3>3 DEF parseEventPeerFound
    <3> QED  BY <3>2, <3>4 DEF Restrict
  <2> QED  BY <1>1, <1>2, <1>8, <2>1, <2>3, <2>7, <2>8
<1> QED  BY <1>6, <1>7, <1>8, EventTyped

LEMMA EventsRead == ASSUME ExchangeInv, EventInv PROVE EventsSurvive
<1> SUFFICES ASSUME stage = "shown", answer.kind = "event",
                    ~("peerId" \in DOMAIN ask.fields /\ TooLong(ask.fields.peerId)),
                    NEW told,
                    told = IF ask.name = "EVENT_PEER_FOUND" THEN ask.fields.peerId ELSE ask.fields.data
             PROVE  IF ask.sender = "page"
                    THEN /\ shown.title = OP[ask.name] /\ shown.consumes = NoId
                         /\ shown.data = told
                    ELSE /\ shown.id = ask.fields.id
                         /\ told = CASE ask.name = "EVENT_PUBSUB" -> shown.payload
                                    [] ask.name = "EVENT_DIRECT_MSG" -> shown.data
                                    [] OTHER -> shown.peerId
    BY DEF EventsSurvive, EventInv
<1>1. PICK e \in Events : e = ask.fields /\ e.name = ask.name /\ reply = EventBytes(e)
    BY DEF EventInv
<1>2. shown = IF ask.sender = "page" THEN inspectIncomingFrame(reply, Remembered) ELSE LibraryReads
    BY DEF ExchangeInv
<1>3. /\ inspectIncomingFrame(reply, Remembered) = Shown(OP[e.name], NoId, FALSE, told)
      /\ e.name = "EVENT_PUBSUB" =>
           parseEventPubSub(reply) = [opcode |-> OP[e.name], id |-> e.id, payload |-> told]
      /\ e.name = "EVENT_DIRECT_MSG" =>
           parseEventDirectMsg(reply) =
             [opcode |-> OP[e.name], id |-> e.id, peerId |-> e.peerId, data |-> told]
      /\ e.name = "EVENT_PEER_FOUND" =>
           parseEventPeerFound(reply) = [opcode |-> OP[e.name], id |-> e.id, peerId |-> told]
  <2>1. PICK pending : pending = Remembered
      OBVIOUS
  <2>2. PICK bytes : bytes = reply
      OBVIOUS
  <2>3. told = IF e.name = "EVENT_PEER_FOUND" THEN e.peerId ELSE e.data
      BY <1>1
  <2>4. ~("peerId" \in DOMAIN e /\ TooLong(e.peerId))
      BY <1>1
  <2>5. bytes = EventBytes(e)
      BY <1>1, <2>2
  <2> QED  BY ONLY <2>1, <2>2, <2>3, <2>4, <2>5, e \in Events, EventRead
<1>4. CASE ask.sender = "page"
    BY <1>1, <1>2, <1>3, <1>4 DEF Shown
<1>5. CASE ask.sender # "page"
  <2>1. e.name \notin Operations /\ e.name \in {"EVENT_PUBSUB", "EVENT_DIRECT_MSG", "EVENT_PEER_FOUND"}
      BY EventTyped, Operation
  <2>2. shown = CASE e.name = "EVENT_PUBSUB" -> parseEventPubSub(reply)
                  [] e.name = "EVENT_DIRECT_MSG" -> parseEventDirectMsg(reply)
                  [] e.name = "EVENT_PEER_FOUND" -> parseEventPeerFound(reply)
                  [] OTHER -> synapResult(CardOf[e.name], reply)
      BY <1>1, <1>2, <1>5, <2>1 DEF LibraryReads
  <2>3. CASE e.name = "EVENT_PUBSUB"
      BY <1>1, <1>3, <1>5, <2>2, <2>3
  <2>4. CASE e.name = "EVENT_DIRECT_MSG"
      BY <1>1, <1>3, <1>5, <2>2, <2>4
  <2>5. CASE e.name = "EVENT_PEER_FOUND"
      BY <1>1, <1>3, <1>5, <2>2, <2>5
  <2> QED  BY <2>1, <2>3, <2>4, <2>5
<1> QED  BY <1>4, <1>5

--------------------------------------------------------------------------------
(***************************************************************************)
(* The results of Samsara.                                                 *)
(***************************************************************************)
\* What the engine may answer with success, under the id of its request
IsResult(name, r) ==
    /\ r.id \in Id /\ r.status = 1
    /\ DOMAIN r \in {{"id", "status"} \cup told : told \in ResultFields(name)}
    /\ "cellIndex" \in DOMAIN r => r.cellIndex \in 0..(Word - 1)
    /\ "value" \in DOMAIN r => r.value \in Seq(Byte)
    /\ "cell" \in DOMAIN r =>
          IF "value" \in DOMAIN r THEN r.cell = Null
          ELSE r.cell \in [{"genome", "x", "y", "z"} -> 0..(Word - 1)]

\* What follows the status
AfterStatus(name, r) ==
    CASE name = "READ" -> u32Bytes(r.cellIndex) \o r.value
      [] name = "READ_FREE" -> r.value
      [] name = "READ_CELL" -> IF r.cell = Null THEN r.value ELSE cellBytes(r.cell)
      [] name \in {"DIFERIR", "CRUZAR"} -> u32Bytes(r.cellIndex)
      [] OTHER -> << >>

LEMMA ResultTyped ==
    ASSUME NEW name \in Operations, NEW r \in Results[name], NEW id \in Id,
           NEW result, result = [r EXCEPT !.id = id]
    PROVE  IsResult(name, result)
<1>1. /\ DOMAIN r \in {{"id", "status"} \cup told : told \in ResultFields(name)}
      /\ r.status = 1
      /\ "cellIndex" \in DOMAIN r => r.cellIndex \in 0..(Word - 1)
      /\ "value" \in DOMAIN r => r.value \in Seq(Byte)
      /\ "cell" \in DOMAIN r =>
            IF "value" \in DOMAIN r THEN r.cell = Null
            ELSE r.cell \in [{"genome", "x", "y", "z"} -> 0..(Word - 1)]
    BY ResultsAssumption
<1>2. /\ DOMAIN result = DOMAIN r
      /\ \A f \in DOMAIN r : result[f] = IF f = "id" THEN id ELSE r[f]
    OBVIOUS
<1>3. "id" \in DOMAIN r /\ "status" \in DOMAIN r
    BY <1>1
<1>4. result.id = id /\ result.status = 1
    BY <1>1, <1>2, <1>3
<1>5. \A f \in DOMAIN r \ {"id"} : result[f] = r[f]
    BY <1>2
<1> QED  BY <1>1, <1>2, <1>4, <1>5 DEF IsResult

LEMMA NullIsNoCell ==
    ASSUME NEW S, NEW cell \in [{"genome", "x", "y", "z"} -> S] PROVE cell # Null
<1>1. DOMAIN cell # DOMAIN Null
    BY DEF Null
<1> QED  BY <1>1

LEMMA ResultFieldsOf ==
    ASSUME NEW name \in Operations, NEW r, IsResult(name, r)
    PROVE  /\ r.id \in Id /\ r.status = 1
           /\ name \in {"CREATE_DB", "DELETE_DB", "WRITE", "DELETE"} => DOMAIN r = {"id", "status"}
           /\ name = "READ" =>
                /\ DOMAIN r = {"id", "status", "cellIndex", "value"}
                /\ r.cellIndex \in 0..(Word - 1) /\ r.value \in Seq(Byte)
           /\ name = "READ_FREE" => DOMAIN r = {"id", "status", "value"} /\ r.value \in Seq(Byte)
           /\ name = "READ_CELL" =>
                \/ /\ DOMAIN r = {"id", "status", "cell"}
                   /\ r.cell \in [{"genome", "x", "y", "z"} -> 0..(Word - 1)] /\ r.cell # Null
                \/ /\ DOMAIN r = {"id", "status", "cell", "value"}
                   /\ r.cell = Null /\ r.value \in Seq(Byte)
           /\ name \in {"DIFERIR", "CRUZAR"} =>
                DOMAIN r = {"id", "status", "cellIndex"} /\ r.cellIndex \in 0..(Word - 1)
<1>1. CASE name \in {"CREATE_DB", "DELETE_DB", "WRITE", "DELETE"}
  <2>1. DOMAIN r = {"id", "status"} \cup {}
      BY <1>1 DEF IsResult, ResultFields
  <2> QED  BY <1>1, <2>1 DEF IsResult
<1>2. CASE name = "READ"
  <2>1. DOMAIN r = {"id", "status"} \cup {"cellIndex", "value"}
      BY <1>2 DEF IsResult, ResultFields
  <2> QED  BY <1>2, <2>1 DEF IsResult
<1>3. CASE name = "READ_FREE"
  <2>1. DOMAIN r = {"id", "status"} \cup {"value"}
      BY <1>3 DEF IsResult, ResultFields
  <2> QED  BY <1>3, <2>1 DEF IsResult
<1>4. CASE name = "READ_CELL"
  <2>1. \/ DOMAIN r = {"id", "status"} \cup {"cell"}
        \/ DOMAIN r = {"id", "status"} \cup {"cell", "value"}
      BY <1>4 DEF IsResult, ResultFields
  <2> QED  BY <1>4, <2>1, NullIsNoCell DEF IsResult
<1>5. CASE name \in {"DIFERIR", "CRUZAR"}
  <2>1. DOMAIN r = {"id", "status"} \cup {"cellIndex"}
      BY <1>5 DEF IsResult, ResultFields
  <2> QED  BY <1>5, <2>1 DEF IsResult
<1> QED  BY <1>1, <1>2, <1>3, <1>4, <1>5, Operation

LEMMA ResultOfParts ==
    ASSUME NEW id \in Seq(Byte), NEW parts \in Seq(Seq(Byte))
    PROVE  buildResultMessage(id, parts) = id \o FlattenSeq(parts)
BY FlattenFront, Zenon DEF buildResultMessage, concatBytes

LEMMA ResultOfOne ==
    ASSUME NEW id \in Seq(Byte), NEW status \in Seq(Byte)
    PROVE  buildResultMessage(id, <<status>>) = id \o (status \o << >>)
<1>1. <<status>> \in Seq(Seq(Byte))
    OBVIOUS
<1>2. FlattenSeq(<<status>>) = status
    BY FlattenOne
<1>3. status = status \o << >>
    BY NothingBehind
<1>4. buildResultMessage(id, <<status>>) = id \o FlattenSeq(<<status>>)
    BY <1>1, ResultOfParts, Zenon
<1> QED  BY ONLY <1>2, <1>3, <1>4, Zenon

LEMMA ResultOfTwo ==
    ASSUME NEW id \in Seq(Byte), NEW status \in Seq(Byte), NEW rest \in Seq(Byte)
    PROVE  buildResultMessage(id, <<status, rest>>) = id \o (status \o rest)
<1>1. <<status, rest>> \in Seq(Seq(Byte))
    OBVIOUS
<1>2. FlattenSeq(<<status, rest>>) = status \o rest
    BY FlattenTwo, Zenon
<1>3. buildResultMessage(id, <<status, rest>>) = id \o FlattenSeq(<<status, rest>>)
    BY <1>1, ResultOfParts, Zenon
<1> QED  BY ONLY <1>2, <1>3, Zenon

LEMMA CellBytesTyped ==
    ASSUME NEW cell
    PROVE  /\ cellBytes(cell) \in Seq(Byte)
           /\ cellBytes(cell) =
                u32Bytes(cell.genome) \o (u32Bytes(cell.x) \o (u32Bytes(cell.y) \o u32Bytes(cell.z)))
<1>1. PICK a \in Seq(Byte) : a = u32Bytes(cell.genome)
    BY WordWritten
<1>2. PICK b \in Seq(Byte) : b = u32Bytes(cell.x)
    BY WordWritten
<1>3. PICK c \in Seq(Byte) : c = u32Bytes(cell.y)
    BY WordWritten
<1>4. PICK d \in Seq(Byte) : d = u32Bytes(cell.z)
    BY WordWritten
<1>5. cellBytes(cell) = FlattenSeq(<<a, b, c, d>>)
    BY <1>1, <1>2, <1>3, <1>4 DEF cellBytes, concatBytes
<1>6. FlattenSeq(<<a, b, c, d>>) = a \o (b \o (c \o d))
  <2>1. FlattenSeq(<<a, b, c, d>>) = a \o FlattenSeq(<<b, c, d>>)
      BY FlattenFour, ZenonT(60)
  <2>2. FlattenSeq(<<b, c, d>>) = b \o FlattenSeq(<<c, d>>)
      BY FlattenThree, Zenon
  <2>3. FlattenSeq(<<c, d>>) = c \o d
      BY FlattenTwo, Zenon
  <2> QED  BY <2>1, <2>2, <2>3, Zenon
<1>7. a \o (b \o (c \o d)) \in Seq(Byte)
  <2>1. c \o d \in Seq(Byte)
      BY ConcatProperties
  <2>2. b \o (c \o d) \in Seq(Byte)
      BY <2>1, ConcatProperties
  <2> QED  BY <2>2, ConcatProperties
<1>8. cellBytes(cell) = a \o (b \o (c \o d))
    BY <1>5, <1>6, Zenon
<1> QED  BY <1>1, <1>2, <1>3, <1>4, <1>7, <1>8

\* A cell is the same after bytes and back.
LEMMA CellKept ==
    ASSUME NEW cell \in [{"genome", "x", "y", "z"} -> 0..(Word - 1)],
           NEW bytes, bytes = cellBytes(cell)
    PROVE  bytes \in Seq(Byte) /\ Len(bytes) = 16 /\ cellFromBytes(bytes) = cell
<1>1. PICK a \in Seq(Byte) : a = u32Bytes(cell.genome) /\ Len(a) = 4
    BY U32Written
<1>2. PICK b \in Seq(Byte) : b = u32Bytes(cell.x) /\ Len(b) = 4
    BY U32Written
<1>3. PICK c \in Seq(Byte) : c = u32Bytes(cell.y) /\ Len(c) = 4
    BY U32Written
<1>4. PICK d \in Seq(Byte) : d = u32Bytes(cell.z) /\ Len(d) = 4
    BY U32Written
<1>5. PICK cd : cd = c \o d
    OBVIOUS
<1>6. PICK bcd : bcd = b \o cd
    OBVIOUS
<1>7. bytes = a \o bcd
    BY <1>1, <1>2, <1>3, <1>4, <1>5, <1>6, CellBytesTyped, Zenon
<1>8. cd \in Seq(Byte) /\ Len(cd) = Len(c) + Len(d) /\ Holds(cd, 0, c) /\ Holds(cd, Len(c), d)
    BY <1>5, HoldsParts
<1>9. bcd \in Seq(Byte) /\ Len(bcd) = Len(b) + Len(cd) /\ Holds(bcd, 0, b) /\ Holds(bcd, Len(b), cd)
    BY <1>6, <1>8, HoldsParts
<1>10. /\ bytes \in Seq(Byte) /\ Len(bytes) = Len(a) + Len(bcd)
       /\ Holds(bytes, 0, a) /\ Holds(bytes, Len(a), bcd)
    BY <1>7, <1>9, HoldsParts
<1>11. /\ Len(bytes) = 16 /\ Len(bcd) = 12 /\ Len(cd) = 8
       /\ Holds(bytes, 4, bcd) /\ Holds(bcd, 4, cd) /\ Holds(cd, 4, d)
    BY ONLY <1>1, <1>2, <1>3, <1>4, <1>8, <1>9, <1>10
<1>12. Holds(bytes, 4, b)
  <2>1. /\ Len(bytes) \in Nat /\ Len(bcd) \in Nat /\ Len(b) \in Nat
        /\ Holds(bytes, 4, bcd) /\ Holds(bcd, 0, b)
      BY ONLY <1>2, <1>9, <1>11
  <2>2. Holds(bytes, 4 + 0, b)
      BY ONLY <2>1, HoldsWithin
  <2> QED  BY ONLY <2>2
<1>13. Holds(bytes, 8, cd)
  <2>1. Holds(bytes, 4 + 4, cd)
      BY ONLY <1>11, HoldsWithin, SMTT(30)
  <2> QED  BY ONLY <2>1
<1>14. Holds(bytes, 8, c)
  <2>1. Holds(bytes, 8 + 0, c)
      BY ONLY <1>3, <1>8, <1>11, <1>13, HoldsWithin
  <2> QED  BY ONLY <2>1
<1>15. Holds(bytes, 12, d)
  <2>1. /\ Len(bytes) \in Nat /\ Len(cd) \in Nat /\ Len(d) \in Nat
        /\ Holds(bytes, 8, cd) /\ Holds(cd, 4, d)
      BY ONLY <1>4, <1>11, <1>13
  <2>2. Holds(bytes, 8 + 4, d)
      BY ONLY <2>1, HoldsWithin
  <2> QED  BY ONLY <2>2
<1>16. /\ U32At(bytes, 0) = ToUint32(cell.genome) /\ U32At(bytes, 4) = ToUint32(cell.x)
       /\ U32At(bytes, 8) = ToUint32(cell.y) /\ U32At(bytes, 12) = ToUint32(cell.z)
  <2>1. /\ Holds(bytes, 0, u32Bytes(cell.genome)) /\ Holds(bytes, 4, u32Bytes(cell.x))
        /\ Holds(bytes, 8, u32Bytes(cell.y)) /\ Holds(bytes, 12, u32Bytes(cell.z))
      BY <1>1, <1>2, <1>3, <1>4, <1>10, <1>12, <1>14, <1>15, Zenon
  <2>2. 0 \in Nat /\ 4 \in Nat /\ 8 \in Nat /\ 12 \in Nat
      OBVIOUS
  <2>3. U32At(bytes, 0) = ToUint32(cell.genome)
      BY ONLY <2>1, <2>2, HoldsWord
  <2>4. U32At(bytes, 4) = ToUint32(cell.x)
      BY ONLY <2>1, <2>2, HoldsWord
  <2>5. U32At(bytes, 8) = ToUint32(cell.y)
      BY ONLY <2>1, <2>2, HoldsWord
  <2>6. U32At(bytes, 12) = ToUint32(cell.z)
      BY ONLY <2>1, <2>2, HoldsWord
  <2> QED  BY <2>3, <2>4, <2>5, <2>6
<1>17. /\ ToUint32(cell.genome) = cell.genome /\ ToUint32(cell.x) = cell.x
       /\ ToUint32(cell.y) = cell.y /\ ToUint32(cell.z) = cell.z
    BY WordKept
<1>18. cellFromBytes(bytes) =
         [genome |-> cell.genome, x |-> cell.x, y |-> cell.y, z |-> cell.z]
    BY <1>11, <1>16, <1>17 DEF cellFromBytes, readResultMessage
<1>19. cell = [genome |-> cell.genome, x |-> cell.x, y |-> cell.y, z |-> cell.z]
    OBVIOUS
<1> QED  BY <1>10, <1>11, <1>18, <1>19

LEMMA AfterStatusTyped ==
    ASSUME NEW name \in Operations, NEW r, IsResult(name, r)
    PROVE  AfterStatus(name, r) \in Seq(Byte)
<1>1. << >> \in Seq(Byte)
    OBVIOUS
<1>2. CASE name = "READ"
  <2>1. PICK index \in Seq(Byte) : index = u32Bytes(r.cellIndex)
      BY WordWritten
  <2>2. PICK value \in Seq(Byte) : value = r.value
      BY <1>2, ResultFieldsOf
  <2>3. index \o value \in Seq(Byte)
      BY ConcatProperties
  <2> QED  BY <1>2, <2>1, <2>2, <2>3 DEF AfterStatus
<1>3. CASE name = "READ_FREE"
    BY <1>3, ResultFieldsOf DEF AfterStatus
<1>4. CASE name = "READ_CELL"
    BY <1>4, ResultFieldsOf, CellBytesTyped DEF AfterStatus
<1>5. CASE name \in {"DIFERIR", "CRUZAR"}
    BY <1>5, WordWritten DEF AfterStatus
<1>6. CASE name \in {"CREATE_DB", "DELETE_DB", "WRITE", "DELETE"}
    BY <1>1, <1>6 DEF AfterStatus
<1> QED  BY <1>2, <1>3, <1>4, <1>5, <1>6, Operation

LEMMA ResultMade ==
    ASSUME NEW name \in Operations, NEW r, IsResult(name, r)
    PROVE  ResultBytes(name, r) = r.id \o (u32Bytes(1) \o AfterStatus(name, r))
<1>1. PICK id \in Seq(Byte) : id = r.id
    BY DEF IsResult, Id
<1>2. PICK status \in Seq(Byte) : status = u32Bytes(1)
    BY WordWritten
<1>3. status = u32Bytes(r.status)
    BY <1>2 DEF IsResult
<1>4. PICK rest \in Seq(Byte) : rest = AfterStatus(name, r)
    BY AfterStatusTyped
<1>6. CASE name \in {"CREATE_DB", "DELETE_DB", "WRITE", "DELETE"}
  <2>1. ResultBytes(name, r) = buildResultMessage(id, <<status>>)
      BY <1>1, <1>3, <1>6
      DEF ResultBytes, createDbResultBytes, deleteDbResultBytes, writeResultBytes, deleteResultBytes
  <2>2. rest = << >>
      BY <1>4, <1>6 DEF AfterStatus
  <2>3. buildResultMessage(id, <<status>>) = id \o (status \o << >>)
      BY ResultOfOne
  <2> QED  BY <1>1, <1>2, <1>4, <2>1, <2>2, <2>3, Zenon
<1>7. CASE name = "READ"
  <2>1. PICK index \in Seq(Byte) : index = u32Bytes(r.cellIndex)
      BY WordWritten
  <2>2. PICK value \in Seq(Byte) : value = r.value
      BY <1>7, ResultFieldsOf
  <2>3. ResultBytes(name, r) = buildResultMessage(id, <<status, index, value>>)
      BY <1>1, <1>3, <1>7, <2>1, <2>2 DEF ResultBytes, readResultBytes
  <2>4. rest = index \o value
      BY <1>4, <1>7, <2>1, <2>2 DEF AfterStatus
  <2>5. FlattenSeq(<<status, index, value>>) = status \o FlattenSeq(<<index, value>>)
      BY FlattenThree, Zenon
  <2>6. FlattenSeq(<<index, value>>) = index \o value
      BY FlattenTwo, Zenon
  <2>7. <<status, index, value>> \in Seq(Seq(Byte))
      OBVIOUS
  <2>8. buildResultMessage(id, <<status, index, value>>) = id \o FlattenSeq(<<status, index, value>>)
      BY <2>7, ResultOfParts, Zenon
  <2> QED  BY <1>1, <1>2, <1>4, <2>3, <2>4, <2>5, <2>6, <2>8, Zenon
<1>8. CASE name \in {"READ_FREE", "READ_CELL", "DIFERIR", "CRUZAR"}
  <2>1. ResultBytes(name, r) = buildResultMessage(id, <<status, rest>>)
      BY <1>1, <1>3, <1>4, <1>8
      DEF ResultBytes, readFreeResultBytes, readCellResultBytes, diferirResultBytes,
          cruzarResultBytes, AfterStatus
  <2>2. buildResultMessage(id, <<status, rest>>) = id \o (status \o rest)
      BY ResultOfTwo
  <2> QED  BY <1>1, <1>2, <1>4, <2>1, <2>2, Zenon
<1> QED  BY <1>6, <1>7, <1>8, Operation

\* Where a result has its id, its status and what follows
LEMMA ResultLaidOut ==
    ASSUME NEW name \in Operations, NEW r, IsResult(name, r), NEW bytes, bytes = ResultBytes(name, r)
    PROVE  /\ bytes \in Seq(Byte) /\ Len(bytes) = 20 + Len(AfterStatus(name, r))
           /\ Len(AfterStatus(name, r)) \in Nat
           /\ Holds(bytes, 0, r.id) /\ U32At(bytes, 16) = 1
           /\ Holds(bytes, 20, AfterStatus(name, r))
<1>1. PICK id \in Seq(Byte) : id = r.id /\ Len(id) = 16
    BY DEF IsResult, Id
<1>2. PICK status \in Seq(Byte) : status = u32Bytes(1) /\ Len(status) = 4
    BY U32Written
<1>3. PICK rest \in Seq(Byte) : rest = AfterStatus(name, r)
    BY AfterStatusTyped
<1>4. PICK middle : middle = status \o rest
    OBVIOUS
<1>5. bytes = id \o middle
    BY <1>1, <1>2, <1>3, <1>4, ResultMade, Zenon
<1>6. /\ middle \in Seq(Byte) /\ Len(middle) = Len(status) + Len(rest)
      /\ Holds(middle, 0, status) /\ Holds(middle, Len(status), rest)
    BY <1>4, HoldsParts
<1>7. /\ bytes \in Seq(Byte) /\ Len(bytes) = Len(id) + Len(middle)
      /\ Holds(bytes, 0, id) /\ Holds(bytes, Len(id), middle)
    BY <1>5, <1>6, HoldsParts
<1>8. Len(rest) \in Nat /\ Len(middle) \in Nat /\ Len(bytes) \in Nat
    BY <1>6, <1>7, LenProperties
<1>9. /\ Len(bytes) = 20 + Len(rest)
      /\ Holds(bytes, 16, middle) /\ Holds(middle, 4, rest)
  <2>1. Len(bytes) = 16 + Len(middle) /\ Len(middle) = 4 + Len(rest)
      BY <1>1, <1>2, <1>6, <1>7
  <2>2. Len(bytes) = 20 + Len(rest)
      BY ONLY <1>8, <2>1
  <2> QED  BY <1>1, <1>2, <1>6, <1>7, <2>2
<1>10. Holds(bytes, 16 + 0, status) /\ Holds(bytes, 16 + 4, rest)
    BY ONLY <1>2, <1>6, <1>8, <1>9, HoldsWithin
<1>11. Holds(bytes, 16, u32Bytes(1)) /\ Holds(bytes, 20, rest)
    BY ONLY <1>2, <1>10
<1>12. U32At(bytes, 16) = ToUint32(1)
    BY <1>11, HoldsWord
<1>13. ToUint32(1) = 1
    BY ByteSmall, RadixTyped DEF Byte
<1> QED  BY <1>1, <1>3, <1>7, <1>8, <1>9, <1>11, <1>12, <1>13

LEMMA ResultParts ==
    ASSUME NEW name \in Operations, NEW r, IsResult(name, r), NEW bytes, bytes = ResultBytes(name, r)
    PROVE  /\ bytes \in Seq(Byte) /\ Len(bytes) \in Nat /\ Len(bytes) >= 20
           /\ Slice(bytes, 0, 16) = r.id /\ U32At(bytes, 16) = 1
           /\ SliceFrom(bytes, 20) = AfterStatus(name, r)
           /\ name = "READ" => SliceFrom(bytes, 24) = r.value
           /\ name \in {"READ", "DIFERIR", "CRUZAR"} =>
                U32At(bytes, 20) = r.cellIndex /\ Len(bytes) >= 24
<1>1. PICK rest \in Seq(Byte) : rest = AfterStatus(name, r)
    BY AfterStatusTyped
<1>2. /\ bytes \in Seq(Byte) /\ Len(bytes) = 20 + Len(rest) /\ Len(rest) \in Nat
      /\ Holds(bytes, 0, r.id) /\ U32At(bytes, 16) = 1 /\ Holds(bytes, 20, rest)
    BY <1>1, ResultLaidOut
<1>3. Len(bytes) \in Nat /\ Len(bytes) >= 20
    BY ONLY <1>2
<1>4. Slice(bytes, 0, 16) = r.id
    BY <1>2, IdSlice DEF IsResult
<1>5. SliceFrom(bytes, 20) = rest
    BY <1>2, HoldsRest
<1>6. ASSUME name = "READ"
      PROVE  SliceFrom(bytes, 24) = r.value /\ U32At(bytes, 20) = r.cellIndex /\ Len(bytes) >= 24
  <2>1. PICK index \in Seq(Byte) : index = u32Bytes(r.cellIndex) /\ Len(index) = 4
      BY U32Written
  <2>2. PICK value \in Seq(Byte) : value = r.value
      BY <1>6, ResultFieldsOf
  <2>3. rest = index \o value
      BY <1>1, <1>6, <2>1, <2>2 DEF AfterStatus
  <2>4. /\ Len(rest) = Len(index) + Len(value) /\ Holds(rest, 0, index)
        /\ Holds(rest, Len(index), value)
      BY <2>3, HoldsParts
  <2>5. Len(value) \in Nat /\ Len(index) \in Nat /\ Holds(rest, 4, value) /\ Len(rest) = 4 + Len(value)
      BY <2>1, <2>4, LenProperties
  <2>6. Holds(bytes, 20 + 0, index) /\ Holds(bytes, 20 + 4, value)
      BY ONLY <1>2, <1>3, <2>4, <2>5, HoldsWithin
  <2>7. Holds(bytes, 20, u32Bytes(r.cellIndex)) /\ Holds(bytes, 24, value)
      BY ONLY <2>1, <2>6
  <2>8. Len(bytes) = 24 + Len(value)
      BY ONLY <1>2, <2>5
  <2>9. U32At(bytes, 20) = ToUint32(r.cellIndex)
      BY <2>7, HoldsWord
  <2>10. ToUint32(r.cellIndex) = r.cellIndex
      BY <1>6, WordKept, ResultFieldsOf
  <2>11. SliceFrom(bytes, 24) = value
      BY <1>2, <2>7, <2>8, HoldsRest
  <2>12. Len(bytes) >= 24
      BY ONLY <2>5, <2>8
  <2> QED  BY <2>2, <2>9, <2>10, <2>11, <2>12
<1>7. ASSUME name \in {"DIFERIR", "CRUZAR"}
      PROVE  U32At(bytes, 20) = r.cellIndex /\ Len(bytes) >= 24
  <2>1. rest = u32Bytes(r.cellIndex) /\ Len(rest) = 4
      BY <1>1, <1>7, U32Written DEF AfterStatus
  <2>2. U32At(bytes, 20) = ToUint32(r.cellIndex)
      BY <1>2, <2>1, HoldsWord
  <2>3. ToUint32(r.cellIndex) = r.cellIndex
      BY <1>7, WordKept, ResultFieldsOf
  <2>4. Len(bytes) >= 24
      BY ONLY <1>2, <2>1
  <2> QED  BY <2>2, <2>3, <2>4
<1>8. name \in {"READ", "DIFERIR", "CRUZAR"} => U32At(bytes, 20) = r.cellIndex /\ Len(bytes) >= 24
    BY <1>6, <1>7
<1> QED  BY <1>1, <1>2, <1>3, <1>4, <1>5, <1>6, <1>8

\* The readers of Samsara's results give back what the builders were given, for each of the
\* nine operations (createDbResult, readCellResult and the others of cards/js).
THEOREM ResultRead ==
    ASSUME NEW name \in Operations, NEW r, IsResult(name, r), NEW bytes, bytes = ResultBytes(name, r),
           NEW result, result = Result(name, bytes)
    PROVE  /\ \A f \in DOMAIN r \ {"cell", "value"} : f \in DOMAIN result /\ result[f] = r[f]
           /\ "value" \in DOMAIN r => result.value = r.value
           /\ "cell" \in DOMAIN r /\ r.cell # Null => result.cell = r.cell
<1>1. /\ Len(bytes) \in Nat /\ ~(Len(bytes) < 20)
      /\ Slice(bytes, 0, 16) = r.id /\ U32At(bytes, 16) = r.status
      /\ SliceFrom(bytes, 20) = AfterStatus(name, r)
      /\ name = "READ" => SliceFrom(bytes, 24) = r.value
      /\ name \in {"READ", "DIFERIR", "CRUZAR"} =>
            U32At(bytes, 20) = r.cellIndex /\ ~(Len(bytes) < 24)
  <2>1. /\ Len(bytes) \in Nat /\ Len(bytes) >= 20
        /\ Slice(bytes, 0, 16) = r.id /\ U32At(bytes, 16) = 1
        /\ SliceFrom(bytes, 20) = AfterStatus(name, r)
        /\ name = "READ" => SliceFrom(bytes, 24) = r.value
        /\ name \in {"READ", "DIFERIR", "CRUZAR"} =>
              U32At(bytes, 20) = r.cellIndex /\ Len(bytes) >= 24
      BY ResultParts
  <2>2. r.status = 1
      BY DEF IsResult
  <2> QED  BY <2>1, <2>2
<1>2. CASE name \in {"CREATE_DB", "DELETE_DB", "WRITE", "DELETE"}
  <2>1. result = [id |-> r.id, status |-> r.status]
      BY <1>1, <1>2
      DEF Result, createDbResult, deleteDbResult, writeResult, deleteResult, StatusResult,
          readResultMessage
  <2>2. DOMAIN r = {"id", "status"}
      BY <1>2, ResultFieldsOf
  <2> QED  BY <2>1, <2>2
<1>3. CASE name = "READ"
  <2>1. result = [id |-> r.id, status |-> r.status, cellIndex |-> r.cellIndex, value |-> r.value]
      BY <1>1, <1>3 DEF Result, readResult, readResultMessage
  <2>2. DOMAIN r = {"id", "status", "cellIndex", "value"}
      BY <1>3, ResultFieldsOf
  <2> QED  BY <2>1, <2>2
<1>4. CASE name = "READ_FREE"
  <2>1. result = [id |-> r.id, status |-> r.status, value |-> r.value]
    <3>1. SliceFrom(bytes, 20) = r.value
        BY <1>1, <1>4 DEF AfterStatus
    <3> QED  BY <1>1, <1>4, <3>1 DEF Result, readFreeResult, readResultMessage
  <2>2. DOMAIN r = {"id", "status", "value"}
      BY <1>4, ResultFieldsOf
  <2> QED  BY <2>1, <2>2
<1>5. CASE name = "READ_CELL"
  <2>1. PICK value : value = AfterStatus(name, r)
      OBVIOUS
  <2>2. PICK cell : cell = IF Len(value) >= 16 THEN cellFromBytes(value) ELSE Null
      OBVIOUS
  <2>3. result = [id |-> r.id, status |-> r.status, value |-> value, cell |-> cell]
      BY <1>1, <1>5, <2>1, <2>2 DEF Result, readCellResult, readResultMessage
  <2>4. CASE "value" \in DOMAIN r
    <3>1. DOMAIN r = {"id", "status", "cell", "value"} /\ r.cell = Null
        BY <1>5, <2>4, ResultFieldsOf
    <3>2. value = r.value
        BY <1>5, <2>1, <3>1 DEF AfterStatus
    <3> QED  BY <2>3, <3>1, <3>2
  <2>5. CASE "value" \notin DOMAIN r
    <3>1. /\ DOMAIN r = {"id", "status", "cell"} /\ r.cell # Null
          /\ r.cell \in [{"genome", "x", "y", "z"} -> 0..(Word - 1)]
        BY <1>5, <2>5, ResultFieldsOf
    <3>2. value = cellBytes(r.cell)
        BY <1>5, <2>1, <3>1 DEF AfterStatus
    <3>3. Len(value) = 16 /\ cellFromBytes(value) = r.cell
        BY <3>1, <3>2, CellKept
    <3>4. cell = r.cell
        BY <2>2, <3>3
    <3> QED  BY <2>3, <3>1, <3>4
  <2> QED  BY <2>4, <2>5
<1>6. CASE name \in {"DIFERIR", "CRUZAR"}
  <2>1. result = [id |-> r.id, status |-> r.status, cellIndex |-> r.cellIndex]
      BY <1>1, <1>6
      DEF Result, diferirResult, cruzarResult, CellIndexResult, readResultMessage
  <2>2. DOMAIN r = {"id", "status", "cellIndex"}
      BY <1>6, ResultFieldsOf
  <2> QED  BY <2>1, <2>2
<1> QED  BY <1>2, <1>3, <1>4, <1>5, <1>6, Operation

--------------------------------------------------------------------------------
(***************************************************************************)
(* What the page makes of bytes that begin with an id.                     *)
(***************************************************************************)
LEMMA LowByteIs ==
    ASSUME NEW bytes, NEW a \in Byte, NEW b \in Byte, NEW c \in Byte, NEW d \in Byte,
           bytes[1] = a, bytes[2] = b, bytes[3] = c, bytes[4] = d
    PROVE  frameOpcode(bytes) = d
<1>1. Radix \in Nat /\ Radix > 0 /\ a \in Nat /\ b \in Nat /\ c \in Nat /\ d \in 0..(Radix - 1)
    BY RadixTyped DEF Byte
<1>2. U32At(bytes, 0) = (a * Radix + b) * Radix * Radix + (c * Radix + d)
    BY DEF U32At, U16At
<1>3. PICK q \in Int : q = (a * Radix + b) * Radix + c
    BY <1>1
<1>4. (a * Radix + b) * Radix * Radix + (c * Radix + d) = Radix * q + d
  <2>1. PICK x \in Int : x = a * Radix + b
      BY <1>1
  <2>2. x * Radix * Radix + (c * Radix + d) = Radix * (x * Radix + c) + d
      BY ONLY <1>1, x \in Int
  <2> QED  BY ONLY <1>3, <2>1, <2>2
<1>5. (Radix * q + d) % Radix = d
    BY ONLY <1>1, q \in Int, DivUnique
<1> QED  BY ONLY <1>2, <1>4, <1>5 DEF frameOpcode

LEMMA IdFirstOpcode ==
    ASSUME NEW bytes \in Seq(Byte), Len(bytes) \in Nat, Len(bytes) >= 20, NEW id \in Id,
           Holds(bytes, 0, id)
    PROVE  frameOpcode(bytes) = id[4] /\ isOpcodeFrame(bytes) = Confusable(id)
<1>1. Len(id) = 16 /\ \A i \in 1..16 : id[i] \in Byte
  <2>1. id \in Seq(Byte) /\ Len(id) = 16
      BY DEF Id
  <2> QED  BY <2>1, ElementOfSeq
<1>2. \A i \in 1..16 : bytes[0 + i] = id[i]
    BY <1>1 DEF Holds
<1>3. bytes[1] = id[1] /\ bytes[2] = id[2] /\ bytes[3] = id[3] /\ bytes[4] = id[4]
    BY ONLY <1>2
<1>4. id[1] \in Byte /\ id[2] \in Byte /\ id[3] \in Byte /\ id[4] \in Byte
    BY ONLY <1>1
<1>5. frameOpcode(bytes) = id[4]
    BY ONLY <1>3, <1>4, LowByteIs
<1>6. Len(bytes) >= 4
    BY ONLY Len(bytes) \in Nat, Len(bytes) >= 20
<1> QED  BY <1>5, <1>6 DEF isOpcodeFrame, Confusable

\* An id that is an opcode where the page looks for one is not found again four bytes on.
LEMMA PageConfused ==
    ASSUME NEW bytes \in Seq(Byte), Len(bytes) \in Nat, Len(bytes) >= 20, NEW id \in Id,
           Holds(bytes, 0, id), Confusable(id), NEW pending,
           inspectIncomingFrame(bytes, pending).consumes = id
    PROVE  Repeating(id)
<1>1. isOpcodeFrame(bytes) /\ bytes # << >> /\ ~(Len(bytes) < 20)
  <2>1. Len(bytes) # 0
      BY ONLY Len(bytes) \in Nat, Len(bytes) >= 20
  <2> QED  BY <2>1, IdFirstOpcode
<1>2. PICK sixteen : sixteen = Slice(bytes, 4, 20)
    OBVIOUS
<1>3. PICK opcode : opcode = frameOpcode(bytes)
    OBVIOUS
<1>4. inspectIncomingFrame(bytes, pending) = parseSynapOpcodeFrame(bytes, opcode)
    BY <1>1, <1>3 DEF inspectIncomingFrame
<1>5. parseSynapOpcodeFrame(bytes, opcode).consumes \in {NoId, sixteen}
    BY <1>1, <1>2 DEF parseSynapOpcodeFrame, Shown
<1>6. id # NoId /\ Len(id) = 16
  <2>1. Len(id) = 16
      BY DEF Id
  <2>2. id \in Seq(Byte) /\ Len(id) # 0
      BY <2>1 DEF Id
  <2>3. id # << >>
      BY <2>2, EmptySeq
  <2> QED  BY <2>1, <2>3 DEF NoId
<1>7. sixteen = id
    BY <1>4, <1>5, <1>6
<1>8. ASSUME NEW i \in 1..12 PROVE id[i + 4] = id[i]
  <2>1. sixteen = SubSeq(bytes, 5, 20)
      BY <1>2 DEF Slice
  <2>2. /\ Len(sixteen) = IF 5 <= 20 THEN 20 - 5 + 1 ELSE 0
        /\ \A k \in 1..(20 - 5 + 1) : sixteen[k] = bytes[5 + k - 1]
      BY ONLY <2>1, bytes \in Seq(Byte), Len(bytes) \in Nat, Len(bytes) >= 20, SubSeqOf
  <2>3. id[i] = bytes[5 + i - 1]
    <3>1. i \in 1..(20 - 5 + 1)
        OBVIOUS
    <3>2. sixteen[i] = bytes[5 + i - 1]
        BY <2>2, <3>1
    <3> QED  BY <1>7, <3>2
  <2>4. i + 4 \in 1..Len(id)
      BY <1>6
  <2>5. bytes[0 + (i + 4)] = id[i + 4]
      BY <2>4 DEF Holds
  <2>6. 5 + i - 1 = 0 + (i + 4)
      OBVIOUS
  <2> QED  BY <2>3, <2>5, <2>6
<1> QED  BY <1>8 DEF Repeating

\* What the page makes of it otherwise
\* What the page shows of a success of Samsara
ShownOf(hint, bytes) ==
    CASE hint \in {OP["CREATE_DB"], OP["DELETE_DB"], OP["WRITE"], OP["DELETE"]} -> << >>
      [] hint = OP["READ"] -> SliceFrom(bytes, 24)
      [] OTHER -> SliceFrom(bytes, 20)

LEMMA PageKnows ==
    ASSUME NEW bytes \in Seq(Byte), Len(bytes) \in Nat, Len(bytes) >= 20, NEW id \in Id,
           Holds(bytes, 0, id), ~Confusable(id), NEW hint,
           NEW pending, id \in DOMAIN pending, pending[id] = hint,
           NEW seen, seen = inspectIncomingFrame(bytes, pending)
    PROVE  /\ seen.title = hint /\ seen.consumes = id
           /\ seen.ok = (hint \in SamsaraOps /\ U32At(bytes, 16) = 1)
           /\ hint \in SamsaraOps /\ U32At(bytes, 16) = 1 =>
                 seen.data = ShownOf(hint, bytes)
<1>1. ~isOpcodeFrame(bytes) /\ bytes # << >> /\ ~(Len(bytes) < 20)
  <2>1. Len(bytes) # 0
      BY ONLY Len(bytes) \in Nat, Len(bytes) >= 20
  <2> QED  BY <2>1, IdFirstOpcode
<1>2. Slice(bytes, 0, 16) = id
    BY IdSlice
<1>3. extractResponseId(bytes) = id
    BY <1>1, <1>2 DEF extractResponseId
<1>4. id \in DOMAIN pending /\ pending[id] = hint
    OBVIOUS
<1>5. PICK made : made = IF hint \in SamsaraOps THEN parseSamsaraResult(bytes, hint)
                        ELSE parseErrorFrame(bytes, hint)
    OBVIOUS
<1>6. seen = [made EXCEPT !.consumes = id]
    BY <1>1, <1>3, <1>4, <1>5 DEF inspectIncomingFrame
<1> DEFINE data == ShownOf(hint, bytes)
<1>7. parseSamsaraResult(bytes, hint) =
        IF U32At(bytes, 16) \notin {0, 1} THEN Shown(hint, NoId, FALSE, SliceFrom(bytes, 20))
        ELSE Shown(hint, NoId, U32At(bytes, 16) = 1, data)
    BY <1>1 DEF parseSamsaraResult, parseErrorFrame, ShownOf
<1>8. parseErrorFrame(bytes, hint) = Shown(hint, NoId, FALSE, SliceFrom(bytes, 20))
    BY DEF parseErrorFrame
<1> HIDE DEF data
<1>9. PICK ok, told : /\ made = Shown(hint, NoId, ok, told)
                      /\ ok = (hint \in SamsaraOps /\ U32At(bytes, 16) = 1)
                      /\ hint \in SamsaraOps /\ U32At(bytes, 16) = 1 => told = data
  <2>1. CASE hint \in SamsaraOps /\ U32At(bytes, 16) \in {0, 1}
    <3>1. made = Shown(hint, NoId, U32At(bytes, 16) = 1, data)
        BY <1>5, <1>7, <2>1
    <3> QED  BY <2>1, <3>1
  <2>2. CASE ~(hint \in SamsaraOps /\ U32At(bytes, 16) \in {0, 1})
    <3>1. made = Shown(hint, NoId, FALSE, SliceFrom(bytes, 20))
        BY <1>5, <1>7, <1>8, <2>2
    <3>2. ~(hint \in SamsaraOps /\ U32At(bytes, 16) = 1)
        BY <2>2
    <3> QED  BY <3>1, <3>2, Zenon
  <2> QED  BY <2>1, <2>2
<1>10. seen.title = hint /\ seen.consumes = id /\ seen.ok = ok /\ seen.data = told
    BY <1>6, <1>9 DEF Shown
<1> QED  BY <1>9, <1>10 DEF data

\* What is answered to a request that has reached its engine
Answered ==
    /\ Asked /\ verdict = classifyFrame(frame) /\ Replied /\ ~ask.foreign
    /\ verdict.target = (IF ask.name \in Operations THEN "samsara" ELSE "synap2p")
    /\ ServedName = ask.name
    /\ verdict.id = ask.fields.id /\ verdict.opcode = OP[ask.name]

LEMMA WholeAnswered ==
    ASSUME Asked, verdict = classifyFrame(frame), Replied, ~ask.foreign,
           ask.whole \/ verdict.target # "unknown"
    PROVE  Answered
<1>1. ask.whole => Len(frame) >= 20
    BY AskedFrame
<1>2. ask.whole => verdict.target # "unknown"
    BY <1>1, AskedClassified, Destinations DEF Asked, Names
<1>3. /\ ServedName = ask.name /\ verdict.id = ask.fields.id /\ verdict.opcode = AskedOpcode
      /\ verdict.target = IF ask.name \in Operations THEN "samsara" ELSE "synap2p"
    BY <1>2, Served
<1>4. AskedOpcode = OP[ask.name]
    BY Destinations
<1> QED  BY <1>3, <1>4 DEF Answered

LEMMA EnvelopeIdFirst ==
    ASSUME NEW id \in Id, NEW code \in Nat, NEW bytes, bytes = errorResult(id, code, Info)
    PROVE  Holds(bytes, 0, id)
<1>1. PICK middle \in Seq(Byte) : middle = u32Bytes(code)
    BY WordWritten
<1>2. PICK text \in Seq(Byte) : text = Info
    BY EnvelopeTyped
<1>3. PICK rest : rest = middle \o text
    OBVIOUS
<1>4. rest \in Seq(Byte)
    BY <1>3, ConcatProperties
<1>5. bytes = id \o rest
  <2>1. errorResult(id, code, Info) = id \o (u32Bytes(code) \o Info)
      BY EnvelopeTyped
  <2> QED  BY <1>1, <1>2, <1>3, <2>1, Zenon
<1>6. id \in Seq(Byte)
    BY DEF Id
<1> QED  BY ONLY <1>4, <1>5, <1>6, HoldsParts

\* The reply to a request of Samsara, and every envelope, begins with the id of the
\* request, and has a 1 where Samsara has the status only if it is a success.
LEMMA IdFirstReply ==
    ASSUME Answered, IdFirst
    PROVE  /\ reply \in Seq(Byte) /\ Len(reply) \in Nat /\ Len(reply) >= 20
           /\ Holds(reply, 0, ask.fields.id)
           /\ (U32At(reply, 16) = 1) = (answer.kind = "done")
           /\ answer.kind = "done" =>
                /\ ask.name \in Operations /\ IsResult(ask.name, answer.result)
                /\ reply = ResultBytes(ask.name, answer.result)
<1>1. PICK id \in Id : id = ask.fields.id /\ id = verdict.id
    BY MessageTyped DEF Answered
<1>2. CASE answer.kind = "envelope"
  <2>1. PICK code \in {50000, 50001, 50004} : reply = errorResult(id, code, Info)
      BY <1>1, <1>2 DEF Answered, Replied, Envelope
  <2>2. ToUint32(code) = code /\ code \in Nat
      BY CodesWritten
  <2>3. reply \in Seq(Byte) /\ Len(reply) = 21 /\ U32At(reply, 16) = code
      BY <2>1, <2>2, EnvelopeBytes
  <2>4. Holds(reply, 0, id)
      BY <2>1, <2>2, EnvelopeIdFirst
  <2> QED  BY <1>1, <1>2, <2>3, <2>4
<1>3. CASE answer.kind # "envelope"
  <2>1. ask.name \in Operations /\ verdict.target = "samsara"
      BY <1>3 DEF Answered, IdFirst
  <2>2. CASE answer.kind = "failed"
    <3>1. reply = id \o u32Bytes(0)
        BY <1>1, <2>1, <2>2 DEF Answered, Replied, Failure
    <3>2. reply \in Seq(Byte) /\ Len(reply) = 20 /\ U32At(reply, 16) = 0
        BY <3>1, FailureBytes
    <3>3. PICK status \in Seq(Byte) : status = u32Bytes(0)
        BY WordWritten
    <3>4. Holds(reply, 0, id)
        BY <3>1, <3>3, HoldsParts DEF Id
    <3> QED  BY <1>1, <2>2, <3>2, <3>4
  <2>3. CASE answer.kind = "done"
    <3>1. PICK r \in Results[ask.name] :
            answer.result = [r EXCEPT !.id = id] /\ reply = ResultBytes(ask.name, answer.result)
        BY <1>1, <2>1, <2>3 DEF Answered, Replied, Success
    <3>2. PICK result : result = answer.result
        OBVIOUS
    <3>3. IsResult(ask.name, result)
        BY <2>1, <3>1, <3>2, ResultTyped
    <3>4. reply = ResultBytes(ask.name, result) /\ result.id = id
        BY <3>1, <3>2, <3>3 DEF IsResult
    <3>5. /\ reply \in Seq(Byte) /\ Len(reply) \in Nat /\ Len(reply) >= 20 /\ U32At(reply, 16) = 1
        BY <2>1, <3>3, <3>4, ResultParts
    <3>6. Holds(reply, 0, id)
        BY <2>1, <3>3, <3>4, ResultLaidOut
    <3> QED  BY <1>1, <2>1, <2>3, <3>2, <3>3, <3>4, <3>5, <3>6
  <2> QED  BY <1>3, <2>2, <2>3 DEF Answered, Replied
<1> QED  BY <1>2, <1>3

\* The value of a result is where the page looks for it.
LEMMA PageValue ==
    ASSUME NEW name \in Operations, NEW r, IsResult(name, r), NEW bytes, bytes = ResultBytes(name, r),
           "value" \in DOMAIN r
    PROVE  ShownOf(OP[name], bytes) = r.value
<1>1. name \in {"READ", "READ_FREE", "READ_CELL"}
    BY ResultFieldsOf, Operation
<1>2. /\ OP[name] \notin {OP["CREATE_DB"], OP["DELETE_DB"], OP["WRITE"], OP["DELETE"]}
      /\ OP[name] = OP["READ"] => name = "READ"
    BY <1>1, OpcodesDiffer, Operation
<1>3. CASE name = "READ"
  <2>1. SliceFrom(bytes, 24) = r.value
      BY <1>3, ResultParts
  <2> QED  BY <1>2, <1>3, <2>1 DEF ShownOf
<1>4. CASE name # "READ"
  <2>1. SliceFrom(bytes, 20) = AfterStatus(name, r)
      BY ResultParts
  <2>2. name = "READ_CELL" => r.cell = Null
      BY ResultFieldsOf
  <2>3. AfterStatus(name, r) = r.value
      BY <1>1, <1>4, <2>2 DEF AfterStatus
  <2> QED  BY <1>2, <1>4, <2>1, <2>3 DEF ShownOf
<1> QED  BY <1>3, <1>4

LEMMA NodeResultFields ==
    ASSUME Answered, ask.name \notin Operations, answer.kind = "done"
    PROVE  "value" \notin DOMAIN answer.result
<1>1. ask.name \in CardNames
    BY DEF Answered, Asked, Names
<1>2. PICK r \in Results[ask.name] : answer.result = [r EXCEPT !.id = verdict.id]
    BY DEF Answered, Replied, Success
<1>3. DOMAIN r \subseteq {"id", "data"}
    BY <1>1, <1>2, ResultsAssumption
<1>4. DOMAIN answer.result = DOMAIN r
    BY <1>2
<1> QED  BY <1>3, <1>4

\* The page shows what the node answers under the request it answers.
LEMMA PageReadsNode ==
    ASSUME Answered, ~IdFirst, NEW pending, NEW seen, seen = inspectIncomingFrame(reply, pending)
    PROVE  seen.title = OP[ask.name] /\ seen.consumes = ask.fields.id
           /\ seen.ok = (answer.kind = "done")
<1>1. ask.name \in CardNames /\ verdict.target = "synap2p" /\ answer.kind \in {"failed", "done"}
    BY DEF Answered, Asked, Names, IdFirst, Replied
<1>2. PICK id \in Id : id = ask.fields.id /\ id = verdict.id
    BY MessageTyped DEF Answered
<1>3. PICK opcode \in Byte : opcode = OP[ask.name] /\ opcode \in KNOWN_OPCODES
    BY <1>1, KnownOpcode DEF Names
<1>4. PICK payload \in Seq(Byte) :
        /\ reply = OpcodeFrame(opcode, id, payload)
        /\ answer.kind = "failed" => payload = <<0>>
        /\ answer.kind = "done" => \E data \in Seq(Byte) : payload = <<1>> \o data
  <2>1. Asked /\ verdict = classifyFrame(frame) /\ Replied /\ answer.kind # "envelope"
      BY <1>1 DEF Answered
  <2>2. \E payload \in Seq(Byte) :
          /\ reply = OpcodeFrame(verdict.opcode, verdict.id, payload)
          /\ answer.kind = "failed" => payload = <<0>>
          /\ answer.kind = "done" => \E data \in Seq(Byte) : payload = <<1>> \o data
      BY <1>1, <2>1, NodeReplies, Zenon
  <2>3. verdict.opcode = opcode /\ verdict.id = id
      BY <1>2, <1>3 DEF Answered
  <2> QED  BY <2>2, <2>3, Zenon
<1>5. opcode \in 1..13
  <2>1. opcode \in 1..16 /\ opcode \in OpcodeRequestMin..OpcodeRequestMax /\ OpcodeRequestMax < 14
      BY <1>1, <1>3, OpcodeTables, CardRange
  <2>2. OpcodeRequestMin \in Int /\ OpcodeRequestMax \in Int
      BY OpcodeAssumption, RadixTyped DEF Byte
  <2> QED  BY ONLY <2>1, <2>2
<1>6. seen = PageSays(opcode, id, payload)
    BY ONLY <1>3, <1>4, opcode \in Byte, id \in Id, payload \in Seq(Byte),
            seen = inspectIncomingFrame(reply, pending), PageTakes
<1>7. seen = Shown(opcode, id, payload # << >> /\ payload[1] = 1, SliceFrom(payload, 1))
  <2>1. opcode \in 1..13 /\ opcode # 15 /\ opcode # 16
      BY <1>5
  <2> DEFINE done == Shown(opcode, id, payload # << >> /\ payload[1] = 1, SliceFrom(payload, 1))
             direct == Shown(opcode, NoId, FALSE, parseDirectMsgPayload(payload))
             found == Shown(opcode, NoId, FALSE,
                            IF Len(payload) >= 2 /\ 2 + U16At(payload, 0) <= Len(payload)
                            THEN Slice(payload, 2, 2 + U16At(payload, 0)) ELSE << >>)
             plain == Shown(opcode, NoId, FALSE, payload)
  <2>2. PageSays(opcode, id, payload) =
            CASE opcode \in 1..13 -> done [] opcode = 15 -> direct [] opcode = 16 -> found
              [] OTHER -> plain
      BY DEF PageSays
  <2> HIDE DEF done, direct, found, plain
  <2>3. PageSays(opcode, id, payload) = done
      BY ONLY <2>1, <2>2
  <2> QED  BY <1>6, <2>3 DEF done
<1>8. (payload # << >> /\ payload[1] = 1) = (answer.kind = "done")
  <2>1. CASE answer.kind = "failed"
    <3>1. payload[1] = 0
        BY <1>4, <2>1
    <3> QED  BY <2>1, <3>1
  <2>2. CASE answer.kind = "done"
    <3>1. PICK data \in Seq(Byte) : payload = <<1>> \o data
        BY <1>4, <2>2
    <3>2. PICK one : one = <<1>> /\ one \in Seq(Byte) /\ Len(one) = 1 /\ one[1] = 1
      <4>1. 1 \in Byte
          BY RadixTyped DEF Byte
      <4>2. <<1>> \in Seq(Byte) /\ Len(<<1>>) = 1 /\ <<1>>[1] = 1
          BY <4>1
      <4> QED  BY <4>2
    <3>3. Len(payload) = Len(one) + Len(data) /\ Holds(payload, 0, one)
        BY <3>1, <3>2, HoldsParts
    <3>4. payload[0 + 1] = one[1]
        BY <3>2, <3>3 DEF Holds
    <3>5. Len(data) \in Nat
        BY LenProperties
    <3>6. Len(payload) # 0
        BY ONLY <3>2, <3>3, <3>5
    <3> QED  BY <2>2, <3>2, <3>4, <3>6
  <2> QED  BY <1>1, <2>1, <2>2
<1> QED  BY <1>2, <1>3, <1>7, <1>8 DEF Shown

LEMMA PageUnderstands == ASSUME ExchangeInv, EventInv PROVE PageReadsAnswers
<1> SUFFICES ASSUME stage = "shown", ask.sender = "page", answer.kind # "event", ask.whole
             PROVE  IF IdFirst /\ Confusable(ask.fields.id)
                    THEN shown.consumes = ask.fields.id => Repeating(ask.fields.id)
                    ELSE /\ shown.title = OP[ask.name] /\ shown.consumes = ask.fields.id
                         /\ shown.ok = (answer.kind = "done")
                         /\ answer.kind = "done" /\ "value" \in DOMAIN answer.result =>
                                shown.data = answer.result.value
    BY DEF PageReadsAnswers
<1>1. Answered
  <2>1. /\ verdict # None /\ Replied /\ Asked /\ verdict = classifyFrame(frame)
      BY DEF ExchangeInv
  <2>2. ~ask.foreign
      BY <2>1 DEF Asked
  <2> QED  BY <2>1, <2>2, WholeAnswered
<1>2. PICK id \in Id : id = ask.fields.id
    BY <1>1, MessageTyped DEF Answered
<1>3. PICK hint : hint = OP[ask.name]
    OBVIOUS
<1>4. PICK pending : pending = [x \in {id} |-> hint] /\ pending = Remembered
  <2>1. verdict # None
      BY DEF ExchangeInv
  <2> QED  BY <1>2, <1>3, <2>1 DEF Remembered
<1>5. shown = inspectIncomingFrame(reply, pending)
    BY <1>4 DEF ExchangeInv
<1>6. CASE IdFirst
  <2>1. /\ reply \in Seq(Byte) /\ Len(reply) \in Nat /\ Len(reply) >= 20
        /\ Holds(reply, 0, id)
        /\ (U32At(reply, 16) = 1) = (answer.kind = "done")
        /\ answer.kind = "done" =>
             /\ ask.name \in Operations /\ IsResult(ask.name, answer.result)
             /\ reply = ResultBytes(ask.name, answer.result)
      BY <1>1, <1>2, <1>6, IdFirstReply
  <2>2. CASE Confusable(id)
    <3>1. shown.consumes = id => Repeating(id)
        BY <1>5, <2>1, <2>2, PageConfused
    <3> QED  BY <1>2, <1>6, <2>2, <3>1
  <2>3. CASE ~Confusable(id)
    <3> DEFINE data == ShownOf(hint, reply)
    <3>1. /\ shown.title = hint /\ shown.consumes = id
          /\ shown.ok = (hint \in SamsaraOps /\ U32At(reply, 16) = 1)
          /\ hint \in SamsaraOps /\ U32At(reply, 16) = 1 => shown.data = data
      <4>1. /\ reply \in Seq(Byte) /\ Len(reply) \in Nat /\ Len(reply) >= 20
            /\ Holds(reply, 0, id) /\ ~Confusable(id) /\ id \in DOMAIN pending /\ pending[id] = hint
            /\ shown = inspectIncomingFrame(reply, pending)
          BY <1>4, <1>5, <2>1, <2>3
      <4> HIDE DEF data
      <4>2. /\ shown.title = hint /\ shown.consumes = id
            /\ shown.ok = (hint \in SamsaraOps /\ U32At(reply, 16) = 1)
            /\ hint \in SamsaraOps /\ U32At(reply, 16) = 1 => shown.data = ShownOf(hint, reply)
          BY ONLY <4>1, id \in Id, PageKnows
      <4> QED  BY <4>2 DEF data
    <3>2. answer.kind = "done" => hint \in SamsaraOps
        BY <1>3, <2>1, OpcodeTables
    <3>3. answer.kind = "done" /\ "value" \in DOMAIN answer.result => data = answer.result.value
        BY <1>3, <2>1, PageValue
    <3> HIDE DEF data
    <3>4. shown.ok = (answer.kind = "done")
        BY <2>1, <3>1, <3>2
    <3>5. answer.kind = "done" /\ "value" \in DOMAIN answer.result => shown.data = answer.result.value
        BY <2>1, <3>1, <3>2, <3>3
    <3> QED  BY <1>2, <1>3, <2>3, <3>1, <3>4, <3>5
  <2> QED  BY <2>2, <2>3
<1>7. CASE ~IdFirst
  <2>1. shown.title = OP[ask.name] /\ shown.consumes = ask.fields.id /\ shown.ok = (answer.kind = "done")
      BY <1>1, <1>5, <1>7, PageReadsNode
  <2>2. answer.kind = "done" => "value" \notin DOMAIN answer.result
      BY <1>1, <1>7, NodeResultFields DEF IdFirst
  <2> QED  BY <1>7, <2>1, <2>2
<1> QED  BY <1>6, <1>7

--------------------------------------------------------------------------------
(***************************************************************************)
(* The texts between commas: f[i] is what there is from byte i on.         *)
(***************************************************************************)
PeerEnd(bytes, i) == Min({j \in i..Len(bytes) : bytes[j] = Comma} \cup {Len(bytes) + 1})

PeerText(bytes, i) == SubSeq(bytes, i, PeerEnd(bytes, i) - 1)

PeersFrom(f, bytes, i) ==
    IF i > Len(bytes) THEN << >>
    ELSE IF PeerText(bytes, i) = << >> THEN f[PeerEnd(bytes, i) + 1]
         ELSE <<PeerText(bytes, i)>> \o f[PeerEnd(bytes, i) + 1]

IsPeers(f, bytes, first) == f = [i \in first..(Len(bytes) + 2) |-> PeersFrom(f, bytes, i)]

LEMMA PeerEndFound ==
    ASSUME NEW bytes, Len(bytes) \in Nat, NEW i \in Nat, i <= Len(bytes) + 1
    PROVE  /\ PeerEnd(bytes, i) \in i..(Len(bytes) + 1)
           /\ PeerEnd(bytes, i) <= Len(bytes) => bytes[PeerEnd(bytes, i)] = Comma
           /\ \A j \in i..Len(bytes) : bytes[j] = Comma => PeerEnd(bytes, i) <= j
<1>1. PICK S : S = {j \in i..Len(bytes) : bytes[j] = Comma} \cup {Len(bytes) + 1}
    OBVIOUS
<1>2. S \subseteq Nat /\ S # {} /\ S \subseteq i..(Len(bytes) + 1)
    BY <1>1
<1>3. Min(S) \in S /\ \A y \in S : Min(S) <= y
    BY <1>2, LeastOf
<1>4. PeerEnd(bytes, i) = Min(S)
    BY <1>1 DEF PeerEnd
<1>5. PICK e : e = Min(S)
    OBVIOUS
<1>6. e \in i..(Len(bytes) + 1)
    BY <1>2, <1>3, <1>5
<1>7. e <= Len(bytes) => bytes[e] = Comma
    BY <1>1, <1>3, <1>5, <1>6
<1>8. \A j \in i..Len(bytes) : bytes[j] = Comma => e <= j
    BY <1>1, <1>3, <1>5
<1> QED  BY <1>4, <1>5, <1>6, <1>7, <1>8

\* They can be found from the end on.
LEMMA PeersExist ==
    ASSUME NEW bytes, Len(bytes) \in Nat
    PROVE  \A n \in Nat : n <= Len(bytes) + 2 => \E f : IsPeers(f, bytes, Len(bytes) + 2 - n)
<1> DEFINE L == Len(bytes) + 2
           S == {n \in Nat : n <= L => \E f : IsPeers(f, bytes, L - n)}
<1>1. 0 \in S
  <2> DEFINE f == [i \in L..L |-> << >>]
  <2>1. ASSUME NEW i \in L..L PROVE f[i] = PeersFrom(f, bytes, i)
    <3>1. i > Len(bytes) /\ f[i] = << >>
        OBVIOUS
    <3> QED  BY <3>1 DEF PeersFrom
  <2>2. f = [i \in L..L |-> f[i]]
      OBVIOUS
  <2> HIDE DEF f
  <2>3. IsPeers(f, bytes, L)
      BY <2>1, <2>2, Zenon DEF IsPeers
  <2>4. L - 0 = L
      OBVIOUS
  <2> QED  BY <2>3, <2>4
<1>2. ASSUME NEW n \in Nat, n \in S PROVE n + 1 \in S
  <2> SUFFICES ASSUME n + 1 <= L PROVE \E f : IsPeers(f, bytes, L - (n + 1))
      OBVIOUS
  <2>1. PICK f : IsPeers(f, bytes, L - n)
    <3>1. n <= L
        OBVIOUS
    <3> QED  BY <1>2, <3>1
  <2> DEFINE k == L - (n + 1)
             g == [i \in k..L |-> IF i = k THEN PeersFrom(f, bytes, k) ELSE f[i]]
  <2>0. k \in Nat /\ k + 1 = L - n /\ L \in Nat
      OBVIOUS
  <2>2. ASSUME NEW i \in k..L PROVE PeersFrom(g, bytes, i) = PeersFrom(f, bytes, i)
    <3>1. CASE i > Len(bytes)
        BY <3>1 DEF PeersFrom
    <3>2. CASE ~(i > Len(bytes))
      <4>1. i \in Nat /\ i <= Len(bytes) + 1
          BY <2>0, <3>2
      <4>2. PeerEnd(bytes, i) \in i..(Len(bytes) + 1)
          BY <4>1, PeerEndFound
      <4>3. PICK e : e = PeerEnd(bytes, i) + 1
          OBVIOUS
      <4>4. e \in k..L /\ e # k
          BY <2>0, <4>1, <4>2, <4>3
      <4>5. g[e] = f[e]
          BY <4>4
      <4> HIDE DEF g
      <4> QED  BY <3>2, <4>3, <4>5 DEF PeersFrom
    <3> QED  BY <3>1, <3>2
  <2>3. ASSUME NEW i \in k..L PROVE g[i] = PeersFrom(g, bytes, i)
    <3>1. CASE i = k
        BY <2>2, <3>1
    <3>2. CASE i # k
      <4>1. i \in (L - n)..L
          BY <2>0, <3>2
      <4>2. f[i] = PeersFrom(f, bytes, i)
          BY <2>1, <4>1 DEF IsPeers
      <4> QED  BY <2>2, <3>2, <4>2
    <3> QED  BY <3>1, <3>2
  <2>4. g = [i \in k..L |-> g[i]]
      OBVIOUS
  <2> HIDE DEF g
  <2>5. IsPeers(g, bytes, k)
      BY <2>3, <2>4, Zenon DEF IsPeers
  <2> QED  BY <2>5
<1> HIDE DEF S
<1>3. \A n \in Nat : n \in S
    BY <1>1, <1>2, SetInduction
<1> QED  BY <1>3 DEF S

LEMMA PeersUnfolded ==
    ASSUME NEW bytes, Len(bytes) \in Nat
    PROVE  \E f : IsPeers(f, bytes, 1) /\ parsePeersCsv(bytes) = f[1]
<1> DEFINE f == CHOOSE f : IsPeers(f, bytes, 1)
<1>1. \E g : IsPeers(g, bytes, 1)
  <2>1. /\ Len(bytes) + 2 - (Len(bytes) + 1) = 1 /\ Len(bytes) + 1 \in Nat
        /\ Len(bytes) + 1 <= Len(bytes) + 2
      OBVIOUS
  <2> QED  BY <2>1, PeersExist
<1>2. IsPeers(f, bytes, 1)
    BY <1>1
<1>3. parsePeersCsv(bytes) = f[1]
    BY DEF parsePeersCsv, IsPeers, PeersFrom, PeerText, PeerEnd
<1> QED  BY <1>2, <1>3

\* Where the texts begin, and what is before each but the first
PeersAt(bytes, list, n, start) ==
    /\ start \in [1..(n + 1) -> Nat] /\ start[1] = 1 /\ start[n + 1] = Len(bytes) + 2
    /\ \A k \in 1..n :
          /\ start[k] >= 1 /\ start[k + 1] = start[k] + Len(list[k]) + 1
          /\ Holds(bytes, start[k] - 1, list[k])
    /\ \A k \in 1..(n - 1) : bytes[start[k + 1] - 1] = Comma

LEMMA HeldBehind ==
    ASSUME NEW head \in Seq(Byte), Len(head) = 4, NEW bytes \in Seq(Byte), NEW all, all = head \o bytes,
           NEW offset \in Nat, NEW place, place = 4 + offset, NEW part, Len(part) \in Nat,
           Holds(all, place, part)
    PROVE  Holds(bytes, offset, part)
<1>1. /\ Len(all) = 4 + Len(bytes) /\ Len(bytes) \in Nat
      /\ \A i \in 1..Len(bytes) : all[4 + i] = bytes[i]
  <2>1. /\ Len(all) = Len(head) + Len(bytes)
        /\ Holds(all, Len(head), bytes)
      BY HoldsParts
  <2>2. Len(bytes) \in Nat
      BY LenProperties
  <2> QED  BY <2>1, <2>2 DEF Holds
<1>2. place + Len(part) <= Len(all) /\ \A i \in 1..Len(part) : all[place + i] = part[i]
    BY DEF Holds
<1>3. offset + Len(part) <= Len(bytes)
    BY ONLY <1>1, <1>2, place = 4 + offset, offset \in Nat, Len(part) \in Nat
<1>4. ASSUME NEW i \in 1..Len(part) PROVE bytes[offset + i] = part[i]
  <2>1. offset + i \in 1..Len(bytes) /\ 4 + (offset + i) = place + i
      BY ONLY <1>1, <1>3, place = 4 + offset, offset \in Nat, Len(part) \in Nat, i \in 1..Len(part)
  <2>2. all[4 + (offset + i)] = bytes[offset + i]
      BY <1>1, <2>1
  <2>3. all[place + i] = part[i]
      BY <1>2
  <2> QED  BY ONLY <2>1, <2>2, <2>3
<1> QED  BY <1>3, <1>4 DEF Holds

LEMMA NotBefore ==
    ASSUME NEW count \in Nat, NEW at, at \in [0..count -> Nat], at[0] = 4, NEW sizes,
           \A k \in 1..count : sizes[k] \in Nat /\ at[k] = at[k - 1] + sizes[k]
    PROVE  \A k \in 0..count : at[k] >= 4
<1> DEFINE S == {k \in Nat : k \in 0..count => at[k] >= 4}
<1>1. 0 \in S
    OBVIOUS
<1>2. ASSUME NEW k \in Nat, k \in S PROVE k + 1 \in S
  <2> SUFFICES ASSUME k + 1 \in 0..count PROVE at[k + 1] >= 4
      OBVIOUS
  <2>1. k \in 0..count /\ k + 1 \in 1..count /\ (k + 1) - 1 = k
      OBVIOUS
  <2>2. at[k] >= 4 /\ at[k] \in Nat
      BY <1>2, <2>1
  <2>3. at[k + 1] = at[k] + sizes[k + 1] /\ sizes[k + 1] \in Nat
      BY <2>1
  <2> QED  BY ONLY <2>2, <2>3
<1> HIDE DEF S
<1>3. \A k \in Nat : k \in S
    BY <1>1, <1>2, SetInduction
<1> QED  BY <1>3 DEF S

\* Each text with the comma in front of it
PeerPart(list, i) == IF i = 1 THEN list[i] ELSE <<Comma>> \o list[i]

LEMMA PeerPartHolds ==
    ASSUME NEW list \in Seq(Seq(Byte)), NEW n \in Nat, n = Len(list), NEW i \in 1..n,
           NEW part, part = PeerPart(list, i), NEW skip, skip = IF i = 1 THEN 0 ELSE 1
    PROVE  /\ part \in Seq(Byte) /\ Len(part) \in Nat /\ list[i] \in Seq(Byte) /\ Len(list[i]) \in Nat
           /\ Len(part) = skip + Len(list[i]) /\ Holds(part, skip, list[i])
           /\ i # 1 => part[1] = Comma
<1>1. PICK text \in Seq(Byte) : text = list[i]
  <2>1. list[i] \in Seq(Byte)
      BY ElementOfSeq
  <2> QED  BY <2>1
<1>2. Len(text) \in Nat
    BY LenProperties
<1>3. CASE i = 1
  <2>1. part = text /\ skip = 0
      BY <1>1, <1>3 DEF PeerPart
  <2>2. Holds(text, 0, text)
      BY <1>2 DEF Holds
  <2> QED  BY <1>1, <1>2, <1>3, <2>1, <2>2
<1>4. CASE i # 1
  <2>1. PICK comma : comma = <<Comma>> /\ comma \in Seq(Byte) /\ Len(comma) = 1 /\ comma[1] = Comma
    <3>1. Comma \in Byte
        BY RadixTyped DEF Byte, Comma
    <3>2. <<Comma>> \in Seq(Byte) /\ Len(<<Comma>>) = 1 /\ <<Comma>>[1] = Comma
        BY <3>1
    <3> QED  BY <3>2
  <2>2. part = comma \o text /\ skip = 1
      BY <1>1, <1>4, <2>1 DEF PeerPart
  <2>3. /\ part \in Seq(Byte) /\ Len(part) = Len(comma) + Len(text)
        /\ Holds(part, 0, comma) /\ Holds(part, Len(comma), text)
      BY <2>1, <2>2, HoldsParts
  <2>4. part[0 + 1] = comma[1]
      BY <2>1, <2>3 DEF Holds
  <2>5. Len(part) = 1 + Len(text) /\ Holds(part, 1, text) /\ part[1] = Comma
      BY <2>1, <2>3, <2>4
  <2>6. Len(part) \in Nat
      BY ONLY <1>2, <2>5
  <2> QED  BY <1>1, <1>2, <2>2, <2>3, <2>5, <2>6
<1> QED  BY <1>3, <1>4

LEMMA PeersPlaced ==
    ASSUME NEW list \in Seq(Seq(Byte)), NEW n \in Nat \ {0}, n = Len(list),
           NEW bytes, bytes = joinPeers(list)
    PROVE  bytes \in Seq(Byte) /\ \E start : PeersAt(bytes, list, n, start)
<1>1. bytes \in Seq(Byte) /\ Len(bytes) \in Nat
  <2>1. bytes \in Seq(Byte)
      BY PeersTyped
  <2> QED  BY <2>1, LenProperties
<1>2. PICK head : head = <<0, 0, 0, 0>> /\ head \in Seq(Byte) /\ Len(head) = 4
  <2>1. <<0, 0, 0, 0>> \in Seq(Byte) /\ Len(<<0, 0, 0, 0>>) = 4
      BY ByteTyped
  <2> QED  BY <2>1
<1>3. PICK parts : parts = [i \in 1..n |-> PeerPart(list, i)]
    OBVIOUS
<1>4. ASSUME NEW i \in 1..n PROVE parts[i] = PeerPart(list, i) /\ parts[i] \in Seq(Byte)
  <2>1. parts[i] = PeerPart(list, i)
      BY <1>3
  <2> QED  BY <2>1, PeerPartHolds
<1>5. parts \in Seq(Seq(Byte)) /\ Len(parts) = n
  <2>1. parts \in [1..n -> Seq(Byte)]
      BY <1>3, <1>4
  <2> QED  BY <2>1, SeqOfFunction
<1>6. bytes = FlattenSeq(parts)
  <2>1. DOMAIN list = 1..n
      BY LenProperties
  <2>2. parts = [i \in DOMAIN list |-> IF i = 1 THEN list[i] ELSE <<Comma>> \o list[i]]
      BY <1>3, <2>1 DEF PeerPart
  <2> QED  BY <2>2 DEF joinPeers
<1>7. PICK all : all = head \o bytes
    OBVIOUS
<1>8. PICK at : LaidOut(all, parts, at)
  <2>1. all = head \o FlattenSeq(parts)
      BY <1>6, <1>7
  <2> QED  BY ONLY <1>2, <1>5, <2>1, n \in Nat \ {0}, PartsLaidOut
<1>9. /\ at \in [0..n -> Nat] /\ at[0] = 4 /\ at[n] = Len(all)
      /\ \A k \in 1..n : at[k] = at[k - 1] + Len(parts[k]) /\ Holds(all, at[k - 1], parts[k])
    BY <1>5, <1>8 DEF LaidOut
<1>10. \A k \in 0..n : at[k] >= 4 /\ at[k] \in Nat
  <2> DEFINE sizes == [k \in 1..n |-> Len(parts[k])]
  <2>1. ASSUME NEW k \in 1..n PROVE sizes[k] \in Nat /\ at[k] = at[k - 1] + sizes[k]
    <3>1. Len(parts[k]) \in Nat
        BY <1>4, LenProperties
    <3> QED  BY <1>9, <3>1
  <2> HIDE DEF sizes
  <2>2. \A k \in 0..n : at[k] >= 4
      BY <1>9, <2>1, NotBefore
  <2> QED  BY <1>9, <2>2
<1>11. Len(all) = 4 + Len(bytes) /\ Len(all) \in Nat
  <2>1. Len(all) = Len(head) + Len(bytes)
      BY <1>1, <1>2, <1>7, HoldsParts
  <2> QED  BY <1>1, <1>2, <2>1
<1> DEFINE start == [k \in 1..(n + 1) |-> IF k = 1 THEN 1 ELSE at[k - 1] - 2]
<1>12. /\ start \in [1..(n + 1) -> Nat] /\ start[1] = 1
       /\ \A k \in 1..n : start[k + 1] = at[k] - 2
       /\ \A k \in 1..n : k # 1 => start[k] = at[k - 1] - 2
  <2>1. \A k \in 1..(n + 1) : k # 1 => k - 1 \in 0..n
      OBVIOUS
  <2>2. \A k \in 1..n : k + 1 \in 1..(n + 1) /\ k + 1 # 1 /\ (k + 1) - 1 = k
      OBVIOUS
  <2>3. ASSUME NEW k \in 1..(n + 1), k # 1 PROVE at[k - 1] - 2 \in Nat
    <3>1. k - 1 \in 0..n
        BY <2>1, <2>3
    <3>2. PICK b \in Nat : b = at[k - 1] /\ b >= 4
        BY <1>10, <3>1
    <3>3. b - 2 \in Nat
        BY ONLY b \in Nat, <3>2
    <3> QED  BY <3>2, <3>3
  <2>4. start \in [1..(n + 1) -> Nat]
      BY <2>3
  <2>5. start[1] = 1
      BY 1 \in 1..(n + 1)
  <2>6. ASSUME NEW k \in 1..n PROVE start[k + 1] = at[k] - 2 /\ (k # 1 => start[k] = at[k - 1] - 2)
    <3>1. k \in 1..(n + 1)
        OBVIOUS
    <3> QED  BY <2>2, <3>1
  <2> QED  BY <2>4, <2>5, <2>6
<1> HIDE DEF start
<1>13. start[n + 1] = Len(bytes) + 2
  <2>1. n \in 1..n
      OBVIOUS
  <2>2. start[n + 1] = at[n] - 2 /\ at[n] = Len(all)
      BY <1>9, <1>12, <2>1
  <2>3. PICK size \in Nat : size = Len(bytes)
      BY <1>1
  <2>4. at[n] = 4 + size
      BY ONLY <1>11, <2>2, <2>3
  <2>5. start[n + 1] = (4 + size) - 2
      BY ONLY <2>2, <2>4
  <2>6. (4 + size) - 2 = size + 2
      OBVIOUS
  <2> QED  BY ONLY <2>3, <2>5, <2>6
<1>14. ASSUME NEW k \in 1..n
       PROVE  /\ start[k] >= 1 /\ start[k + 1] = start[k] + Len(list[k]) + 1
              /\ Holds(bytes, start[k] - 1, list[k])
              /\ k # 1 => bytes[start[k] - 1] = Comma
  <2>1. PICK skip : skip = IF k = 1 THEN 0 ELSE 1
      OBVIOUS
  <2>2. PICK part : part = parts[k]
      OBVIOUS
  <2>3. PICK text : text = list[k]
      OBVIOUS
  <2>4. /\ part \in Seq(Byte) /\ Len(part) \in Nat /\ text \in Seq(Byte) /\ Len(text) \in Nat
        /\ Len(part) = skip + Len(text) /\ Holds(part, skip, text)
        /\ k # 1 => part[1] = Comma
    <3>1. part = PeerPart(list, k)
        BY <1>4, <2>2
    <3>2. /\ part \in Seq(Byte) /\ Len(part) \in Nat
          /\ list[k] \in Seq(Byte) /\ Len(list[k]) \in Nat
          /\ Len(part) = skip + Len(list[k]) /\ Holds(part, skip, list[k])
          /\ k # 1 => part[1] = Comma
        BY ONLY list \in Seq(Seq(Byte)), n \in Nat, n = Len(list), k \in 1..n,
                <2>1, <3>1, PeerPartHolds, ZenonT(60)
    <3> QED  BY <2>3, <3>2, Zenon
  <2>5. PICK before \in Nat : before = at[k - 1] /\ before >= 4
    <3>1. k - 1 \in 0..n
        OBVIOUS
    <3> QED  BY <1>10, <3>1
  <2>6. at[k] = before + Len(part) /\ Holds(all, before, part)
      BY <1>9, <2>2, <2>5
  <2>7. start[k] = before - 3 + skip
    <3>1. k = 1 => at[k - 1] = 4
        BY <1>9
    <3> QED  BY <1>12, <2>1, <2>5, <3>1
  <2>8. start[k + 1] = before + Len(part) - 2
      BY <1>12, <2>6
  <2>9. skip \in {0, 1} /\ before >= 4
      BY <2>1, <2>5
  <2>10. start[k] >= 1 /\ start[k + 1] = start[k] + Len(text) + 1
    <3>1. PICK size \in Nat : size = Len(text)
        BY <2>4
    <3>2. Len(part) = skip + size
        BY <2>4, <3>1
    <3>3. PICK s : s = start[k]
        OBVIOUS
    <3>4. s = before - 3 + skip /\ start[k + 1] = before + (skip + size) - 2
        BY ONLY <2>7, <2>8, <3>2, <3>3
    <3>5. s >= 1 /\ before + (skip + size) - 2 = s + size + 1
      <4>1. s = before - 3 + skip
          BY <3>4
      <4> QED  BY ONLY before \in Nat, size \in Nat, <2>9, <4>1
    <3> QED  BY <3>1, <3>3, <3>4, <3>5
  <2>11. Holds(all, before + skip, text)
      BY ONLY before \in Nat, <1>11, <2>4, <2>5, <2>6, <2>9, HoldsWithin
  <2>12. PICK offset \in Nat : offset = before - 4 + skip
      BY <2>5, <2>9
  <2>13. before + skip = 4 + offset /\ start[k] - 1 = offset
    <3>1. PICK s : s = start[k]
        OBVIOUS
    <3>2. s = before - 3 + skip
        BY <2>7, <3>1
    <3>3. before + skip = 4 + offset /\ s - 1 = offset
        BY ONLY before \in Nat, <2>9, <2>12, <3>2
    <3> QED  BY <3>1, <3>3
  <2>14. Holds(bytes, offset, text)
    <3>1. PICK place : place = before + skip
        OBVIOUS
    <3>2. Holds(all, place, text) /\ place = 4 + offset
        BY <2>11, <2>13, <3>1
    <3> QED  BY ONLY <1>1, <1>2, <1>7, <2>4, <3>2, offset \in Nat, HeldBehind, ZenonT(60)
  <2>15. ASSUME k # 1 PROVE bytes[start[k] - 1] = Comma
    <3>1. Len(part) >= 1 /\ part[1] = Comma
        BY <2>1, <2>4, <2>15
    <3>2. PICK space \in Nat : space = before - 4
        BY <2>5
    <3>3. PICK place : place = 4 + space
        OBVIOUS
    <3>4. place = before
        BY ONLY before \in Nat, <2>5, <3>2, <3>3
    <3>5. Holds(bytes, space, part)
        BY <1>1, <1>2, <1>7, <2>4, <2>6, <3>3, <3>4, HeldBehind
    <3>6. bytes[space + 1] = part[1]
        BY <2>4, <3>1, <3>5 DEF Holds
    <3>7. start[k] - 1 = space + 1
      <4>1. PICK s : s = start[k]
          OBVIOUS
      <4>2. s = before - 3 + 1
          BY <2>1, <2>7, <2>15, <4>1
      <4>3. s - 1 = space + 1
          BY ONLY before \in Nat, <3>2, <4>2
      <4> QED  BY <4>1, <4>3
    <3> QED  BY <3>1, <3>6, <3>7
  <2> QED  BY <2>3, <2>10, <2>13, <2>14, <2>15
<1>15. ASSUME NEW k \in 1..(n - 1) PROVE bytes[start[k + 1] - 1] = Comma
  <2>1. k + 1 \in 1..n /\ k + 1 # 1
      OBVIOUS
  <2> QED  BY <1>14, <2>1
<1>16. PeersAt(bytes, list, n, start)
    BY <1>12, <1>13, <1>14, <1>15 DEF PeersAt
<1> QED  BY <1>1, <1>16

\* The texts are there, and no comma is in them.
PeersNamed(list, n) ==
    \A k \in 1..n : /\ list[k] \in Seq(Byte) /\ Len(list[k]) \in Nat /\ Len(list[k]) > 0
                    /\ \A j \in 1..Len(list[k]) : list[k][j] # Comma

LEMMA PeerWhole ==
    ASSUME NEW bytes \in Seq(Byte), NEW list, NEW n \in Nat, NEW start, PeersAt(bytes, list, n, start),
           PeersNamed(list, n), NEW k \in 1..n
    PROVE  /\ start[k] \in 1..Len(bytes) /\ PeerEnd(bytes, start[k]) + 1 = start[k + 1]
           /\ PeerText(bytes, start[k]) = list[k]
<1>1. PICK length \in Nat : length = Len(bytes)
    BY LenProperties
<1>2. PICK text \in Seq(Byte) : text = list[k]
    BY DEF PeersNamed
<1>3. PICK size \in Nat : size = Len(text) /\ size > 0 /\ \A j \in 1..size : text[j] # Comma
    BY <1>2 DEF PeersNamed
<1>4. PICK here \in Nat : here = start[k] /\ here >= 1
  <2>1. k \in 1..(n + 1)
      OBVIOUS
  <2> QED  BY <2>1 DEF PeersAt
<1>5. start[k + 1] = here + size + 1
    BY <1>2, <1>3, <1>4 DEF PeersAt
<1>6. PICK offset \in Nat : offset = here - 1
    BY ONLY here \in Nat, <1>4
<1>7. Holds(bytes, offset, text)
    BY <1>2, <1>4, <1>6 DEF PeersAt
<1>8. offset + size <= length /\ \A i \in 1..size : bytes[offset + i] = text[i]
    BY <1>1, <1>3, <1>7 DEF Holds
<1>9. PICK e : e = PeerEnd(bytes, here)
    OBVIOUS
<1>10. /\ e \in here..(length + 1)
       /\ e <= length => bytes[e] = Comma
       /\ \A j \in here..length : bytes[j] = Comma => e <= j
  <2>1. here <= length + 1
      BY ONLY here \in Nat, size \in Nat, length \in Nat, offset \in Nat, <1>6, <1>8
  <2> QED  BY <1>1, <1>9, <2>1, PeerEndFound
<1>11. e >= here + size
  <2> SUFFICES ASSUME ~(e >= here + size) PROVE FALSE
      OBVIOUS
  <2>1. PICK i \in 1..size : e = offset + i
    <3>1. e \in Nat
        BY ONLY here \in Nat, length \in Nat, <1>10
    <3>2. e - offset \in 1..size /\ e = offset + (e - offset)
      <4>1. here >= 1 /\ offset = here - 1 /\ here <= e
          BY <1>4, <1>6, <1>10
      <4> QED  BY ONLY <3>1, <4>1, here \in Nat, size \in Nat, offset \in Nat, ~(e >= here + size)
    <3> QED  BY <3>2
  <2>2. bytes[e] = text[i] /\ text[i] # Comma
      BY <1>3, <1>8, <2>1
  <2>3. e <= length
      BY ONLY <2>1, <1>8, offset \in Nat, size \in Nat, length \in Nat, i \in 1..size
  <2> QED  BY <1>10, <2>2, <2>3
<1>12. e <= here + size
  <2>1. CASE k = n
    <3>1. start[n + 1] = length + 2
        BY <1>1 DEF PeersAt
    <3>2. here + size + 1 = length + 2
        BY <1>5, <2>1, <3>1
    <3> QED  BY ONLY <1>10, <3>2, here \in Nat, size \in Nat, length \in Nat
  <2>2. CASE k # n
    <3>1. k \in 1..(n - 1) /\ k + 1 \in 1..n
        BY ONLY <2>2, k \in 1..n, n \in Nat
    <3>2. PICK there \in Nat : there = here + size
        BY ONLY here \in Nat, size \in Nat
    <3>3. start[k + 1] - 1 = there
      <4>1. (here + size + 1) - 1 = here + size
          BY ONLY here \in Nat, size \in Nat
      <4> QED  BY <1>5, <3>2, <4>1
    <3>4. bytes[there] = Comma
        BY <3>1, <3>3 DEF PeersAt
    <3>5. there <= length
      <4>1. Holds(bytes, there, list[k + 1]) /\ Len(list[k + 1]) \in Nat
          BY <3>1, <3>3 DEF PeersAt, PeersNamed
      <4>2. PICK more \in Nat : more = Len(list[k + 1])
          BY <4>1
      <4>3. there + more <= length
          BY <1>1, <4>1, <4>2 DEF Holds
      <4> QED  BY ONLY <4>3, there \in Nat, more \in Nat, length \in Nat
    <3>6. there \in here..length
        BY ONLY <3>2, <3>5, there \in Nat, here \in Nat, size \in Nat, length \in Nat
    <3> QED  BY <1>10, <3>2, <3>4, <3>6
  <2> QED  BY <2>1, <2>2
<1>13. e = here + size
    BY ONLY <1>10, <1>11, <1>12, here \in Nat, size \in Nat, length \in Nat
<1>14. SubSeq(bytes, here, e - 1) = text
  <2>1. PICK last \in Nat : last = e - 1
      BY ONLY <1>3, <1>4, <1>13, here \in Nat, size \in Nat
  <2>2. PICK part : part = SubSeq(bytes, here, last)
      OBVIOUS
  <2>3. last <= length /\ here <= last /\ here > 0
    <3>1. size > 0 /\ here >= 1 /\ e = here + size /\ last = e - 1 /\ offset = here - 1
          /\ offset + size <= length
        BY <1>3, <1>4, <1>6, <1>8, <1>13, <2>1
    <3> QED  BY ONLY <3>1, here \in Nat, size \in Nat, length \in Nat, last \in Nat, offset \in Nat
  <2>4. /\ part \in Seq(Byte) /\ Len(part) = IF here <= last THEN last - here + 1 ELSE 0
        /\ \A i \in 1..(last - here + 1) : part[i] = bytes[here + i - 1]
      BY ONLY <1>1, <2>2, <2>3, bytes \in Seq(Byte), here \in Nat, last \in Nat, SubSeqOf, SMTT(30)
  <2>5. last - here + 1 = size
      BY ONLY <1>13, <2>1, here \in Nat, size \in Nat
  <2>6. ASSUME NEW i \in 1..size PROVE part[i] = text[i]
    <3>1. here + i - 1 = offset + i
        BY ONLY <1>6, here \in Nat, i \in 1..size
    <3> QED  BY <1>8, <2>4, <2>5, <3>1
  <2>7. part = text
      BY ONLY <1>3, <2>3, <2>4, <2>5, <2>6, text \in Seq(Byte), SeqEqual
  <2> QED  BY <2>1, <2>2, <2>7
<1>15. here \in 1..length /\ e + 1 = here + size + 1
  <2>1. size > 0 /\ here >= 1 /\ offset = here - 1 /\ offset + size <= length
      BY <1>3, <1>4, <1>6, <1>8
  <2>2. here \in 1..length
      BY ONLY <2>1, here \in Nat, size \in Nat, length \in Nat, offset \in Nat
  <2> QED  BY <1>13, <2>2
<1> QED  BY <1>1, <1>2, <1>4, <1>5, <1>9, <1>14, <1>15 DEF PeerText

\* The texts from the k-th on
PeersBehind(rest, list, k, n) ==
    /\ rest \in Seq(Seq(Byte)) /\ Len(rest) = n + 1 - k
    /\ \A i \in 1..(n + 1 - k) : rest[i] = list[k - 1 + i]

LEMMA PeerBefore ==
    ASSUME NEW list, NEW n \in Nat, NEW k \in 1..n, NEW text \in Seq(Byte), text = list[k],
           NEW rest, PeersBehind(rest, list, k + 1, n)
    PROVE  PeersBehind(<<text>> \o rest, list, k, n)
<1>1. PICK one : one = <<text>> /\ one \in Seq(Seq(Byte)) /\ Len(one) = 1 /\ one[1] = text
  <2>1. <<text>> \in Seq(Seq(Byte)) /\ Len(<<text>>) = 1 /\ <<text>>[1] = text
      OBVIOUS
  <2> QED  BY <2>1
<1>2. rest \in Seq(Seq(Byte)) /\ Len(rest) = n - k /\ \A i \in 1..(n - k) : rest[i] = list[k + i]
  <2>1. n + 1 - (k + 1) = n - k /\ \A i \in 1..(n - k) : (k + 1) - 1 + i = k + i
      OBVIOUS
  <2> QED  BY <2>1 DEF PeersBehind
<1>3. PICK both : both = one \o rest
    OBVIOUS
<1>4. /\ both \in Seq(Seq(Byte)) /\ Len(both) = Len(one) + Len(rest)
      /\ \A i \in 1..(Len(one) + Len(rest)) : both[i] = IF i <= Len(one) THEN one[i]
                                                        ELSE rest[i - Len(one)]
  <2>1. /\ one \o rest \in Seq(Seq(Byte)) /\ Len(one \o rest) = Len(one) + Len(rest)
        /\ \A i \in 1..(Len(one) + Len(rest)) : (one \o rest)[i] = IF i <= Len(one) THEN one[i]
                                                                  ELSE rest[i - Len(one)]
    <3>1. PICK T : T = Seq(Byte)
        OBVIOUS
    <3>2. PICK tail \in Seq(T) : tail = rest
        BY <1>2, <3>1
    <3>3. PICK first \in Seq(T) : first = one
        BY <1>1, <3>1
    <3>4. /\ first \o tail \in Seq(T) /\ Len(first \o tail) = Len(first) + Len(tail)
          /\ \A i \in 1..(Len(first) + Len(tail)) :
                (first \o tail)[i] = IF i <= Len(first) THEN first[i] ELSE tail[i - Len(first)]
        BY ONLY ConcatProperties, first \in Seq(T), tail \in Seq(T)
    <3> QED  BY ONLY <3>1, <3>2, <3>3, <3>4, Zenon
  <2> QED  BY ONLY <1>3, <2>1, Zenon
<1>5. Len(both) = n + 1 - k
    BY ONLY <1>1, <1>2, <1>4, n \in Nat, k \in 1..n
<1>6. ASSUME NEW i \in 1..(n + 1 - k) PROVE both[i] = list[k - 1 + i]
  <2>1. both[i] = IF i <= 1 THEN one[i] ELSE rest[i - 1]
    <3>1. 1 + (n - k) = n + 1 - k
        OBVIOUS
    <3> QED  BY <1>1, <1>2, <1>4, <3>1
  <2>2. CASE i = 1
    <3>1. k - 1 + i = k
        BY <2>2
    <3> QED  BY <1>1, <2>1, <2>2, <3>1
  <2>3. CASE i # 1
    <3>1. i - 1 \in 1..(n - k) /\ k + (i - 1) = k - 1 + i /\ ~(i <= 1)
        BY <2>3
    <3> QED  BY <1>2, <2>1, <3>1
  <2> QED  BY <2>2, <2>3
<1> QED  BY <1>1, <1>3, <1>4, <1>5, <1>6 DEF PeersBehind

\* A list of names joined with commas is split where it was joined: parsePeersCsv undoes
\* the join of the peers in a result (cards/js/synap2p).
THEOREM PeersSplit ==
    ASSUME NEW list \in Seq(Seq(Byte)), NEW n \in Nat \ {0}, n = Len(list), PeersNamed(list, n),
           NEW bytes, bytes = joinPeers(list)
    PROVE  parsePeersCsv(bytes) = list /\ Len(bytes) > 0
<1>1. PICK start : bytes \in Seq(Byte) /\ PeersAt(bytes, list, n, start)
    BY PeersPlaced
<1>2. PICK length \in Nat : length = Len(bytes)
    BY <1>1, LenProperties
<1>3. PICK f : IsPeers(f, bytes, 1) /\ parsePeersCsv(bytes) = f[1]
    BY <1>2, PeersUnfolded
<1>4. \A i \in 1..(length + 2) : f[i] = PeersFrom(f, bytes, i)
    BY <1>2, <1>3, Zenon DEF IsPeers
<1> DEFINE S == {m \in Nat : m <= n => PeersBehind(f[start[n + 1 - m]], list, n + 1 - m, n)}
<1>5. 0 \in S
  <2>1. start[n + 1] = length + 2 /\ n + 1 - 0 = n + 1
      BY <1>1, <1>2 DEF PeersAt
  <2>2. f[length + 2] = << >>
    <3>1. length + 2 \in 1..(length + 2) /\ length + 2 > length
        OBVIOUS
    <3> QED  BY <1>2, <1>4, <3>1 DEF PeersFrom
  <2>3. PeersBehind(<< >>, list, n + 1, n)
    <3>1. n + 1 - (n + 1) = 0
        OBVIOUS
    <3> QED  BY <3>1 DEF PeersBehind
  <2> QED  BY <2>1, <2>2, <2>3
<1>6. ASSUME NEW m \in Nat, m \in S PROVE m + 1 \in S
  <2> SUFFICES ASSUME m + 1 <= n
               PROVE  PeersBehind(f[start[n + 1 - (m + 1)]], list, n + 1 - (m + 1), n)
      OBVIOUS
  <2>1. PICK k \in 1..n : k = n + 1 - (m + 1) /\ k + 1 = n + 1 - m
    <3>1. n - m \in 1..n /\ n - m = n + 1 - (m + 1) /\ (n - m) + 1 = n + 1 - m
        OBVIOUS
    <3> QED  BY <3>1
  <2>2. PeersBehind(f[start[k + 1]], list, k + 1, n)
    <3>1. m <= n
        OBVIOUS
    <3> QED  BY <1>6, <2>1, <3>1
  <2>3. PICK here : here = start[k]
      OBVIOUS
  <2>4. /\ here \in 1..length /\ PeerEnd(bytes, here) + 1 = start[k + 1]
        /\ PeerText(bytes, here) = list[k]
    <3>1. n \in Nat
        OBVIOUS
    <3> QED  BY ONLY <1>1, <1>2, <2>3, <3>1, PeersNamed(list, n), k \in 1..n, PeerWhole
  <2>5. PICK text \in Seq(Byte) : text = list[k] /\ text # << >>
    <3>1. list[k] \in Seq(Byte) /\ Len(list[k]) # 0
        BY DEF PeersNamed
    <3>2. list[k] # << >>
        BY <3>1, EmptySeq
    <3> QED  BY <3>1, <3>2
  <2>6. f[here] = <<text>> \o f[start[k + 1]]
    <3>1. here \in 1..(length + 2) /\ ~(here > length)
        BY ONLY <2>4, length \in Nat
    <3>2. f[here] = PeersFrom(f, bytes, here)
        BY <1>4, <3>1
    <3>3. PICK next : next = PeerEnd(bytes, here) + 1
        OBVIOUS
    <3>4. f[here] = IF here > Len(bytes) THEN << >>
                    ELSE IF PeerText(bytes, here) = << >> THEN f[next]
                         ELSE <<PeerText(bytes, here)>> \o f[next]
        BY <3>2, <3>3, Zenon DEF PeersFrom
    <3> QED  BY ONLY <1>2, <2>4, <2>5, <3>1, <3>3, <3>4
  <2>7. PICK rest : rest = f[start[k + 1]]
      OBVIOUS
  <2>8. PeersBehind(<<text>> \o rest, list, k, n)
    <3>1. n \in Nat
        OBVIOUS
    <3> QED  BY ONLY <2>2, <2>5, <2>7, <3>1, k \in 1..n, text \in Seq(Byte), PeerBefore
  <2> QED  BY <2>1, <2>3, <2>6, <2>7, <2>8
<1> HIDE DEF S
<1>7. n \in S
  <2>1. \A m \in Nat : m \in S
      BY <1>5, <1>6, SetInduction
  <2> QED  BY <2>1
<1>8. PeersBehind(f[1], list, 1, n)
  <2>1. PeersBehind(f[start[n + 1 - n]], list, n + 1 - n, n)
      BY <1>7 DEF S
  <2>2. n + 1 - n = 1 /\ start[1] = 1
      BY <1>1 DEF PeersAt
  <2> QED  BY <2>1, <2>2
<1>9. f[1] = list
  <2>1. n + 1 - 1 = n /\ \A i \in 1..n : 1 - 1 + i = i
      OBVIOUS
  <2>2. PICK all : all = f[1]
      OBVIOUS
  <2>3. all \in Seq(Seq(Byte)) /\ Len(all) = n /\ \A i \in 1..n : all[i] = list[i]
      BY <1>8, <2>1, <2>2 DEF PeersBehind
  <2>4. all = list
      BY ONLY <2>3, n = Len(list), list \in Seq(Seq(Byte)), SeqEqual
  <2> QED  BY <2>2, <2>4
<1>10. length > 0
  <2>1. 1 \in 1..n /\ n \in Nat
      OBVIOUS
  <2>2. start[1] \in 1..Len(bytes)
      BY ONLY <1>1, <2>1, PeersNamed(list, n), PeerWhole
  <2> QED  BY <1>2, <2>2
<1> QED  BY <1>2, <1>3, <1>9, <1>10

--------------------------------------------------------------------------------
(***************************************************************************)
(* What the library makes of an answer of the node.                        *)
(***************************************************************************)
\* What a success of the node carries behind its status
Carried(name, r) ==
    IF "data" \notin DOMAIN r THEN << >>
    ELSE IF CardOf[name].returns = "peers" THEN joinPeers(r.data) ELSE r.data

WithStatus(data) == <<1>> \o data

LEMMA CarriedTyped ==
    ASSUME NEW name \in CardNames, NEW r \in Results[name]
    PROVE  Carried(name, r) \in Seq(Byte)
<1>1. CASE "data" \notin DOMAIN r
  <2>1. << >> \in Seq(Byte)
      OBVIOUS
  <2> QED  BY <1>1, <2>1 DEF Carried
<1>2. CASE "data" \in DOMAIN r /\ CardOf[name].returns = "peers"
  <2>1. r.data \in Seq(Seq(Byte))
      BY <1>2, ResultsAssumption
  <2>2. joinPeers(r.data) \in Seq(Byte)
      BY <2>1, PeersTyped
  <2> QED  BY <1>2, <2>2 DEF Carried
<1>3. CASE "data" \in DOMAIN r /\ CardOf[name].returns # "peers"
  <2>1. r.data \in Seq(Byte)
      BY <1>3, ResultsAssumption
  <2> QED  BY <1>3, <2>1 DEF Carried
<1> QED  BY <1>1, <1>2, <1>3

LEMMA NodeSuccess ==
    ASSUME Answered, ask.name \in CardNames, answer.kind = "done"
    PROVE  \E r \in Results[ask.name] :
              /\ answer.result = [r EXCEPT !.id = ask.fields.id]
              /\ reply = OpcodeFrame(OP[ask.name], ask.fields.id, WithStatus(Carried(ask.name, r)))
<1>1. verdict.target # "samsara" /\ ServedName = ask.name
  <2>1. ask.name \notin Operations
      BY OpcodeTables
  <2> QED  BY <2>1 DEF Answered
<1>2. PICK id \in Id : id = ask.fields.id /\ id = verdict.id
    BY MessageTyped DEF Answered
<1>3. PICK opcode \in Byte : opcode = OP[ask.name] /\ opcode = verdict.opcode /\ opcode = CardOf[ask.name].opcode
  <2>1. OP[ask.name] \in Byte /\ CardOf[ask.name].opcode = OP[ask.name]
      BY OpcodesTyped, OpcodeTables DEF Names
  <2> QED  BY <2>1 DEF Answered
<1>4. PICK r \in Results[ask.name] :
        /\ answer.result = [r EXCEPT !.id = id]
        /\ "data" \in DOMAIN r => reply = DataBytes(CardOf[ask.name], id, r.data)
        /\ "data" \notin DOMAIN r => reply = buildSuccessResponse(opcode, id)
    BY <1>1, <1>2, <1>3 DEF Answered, Replied, Success
<1>5. PICK data \in Seq(Byte) : data = Carried(ask.name, r)
    BY CarriedTyped
<1>6. reply = buildSuccessDataResponse(opcode, id, data)
  <2>1. CASE "data" \in DOMAIN r
      BY <1>3, <1>4, <1>5, <2>1 DEF DataBytes, Carried
  <2>2. CASE "data" \notin DOMAIN r
      BY <1>4, <1>5, <2>2 DEF buildSuccessResponse, Carried
  <2> QED  BY <2>1, <2>2
<1>7. reply = OpcodeFrame(opcode, id, WithStatus(data))
    BY ONLY <1>6, opcode \in Byte, id \in Id, data \in Seq(Byte), NodeAnswer DEF WithStatus
<1> QED  BY <1>2, <1>3, <1>4, <1>5, <1>7

\* The status is a byte of its own, and what is behind it is the payload.
LEMMA StatusRead ==
    ASSUME NEW opcode \in Byte, NEW id \in Id, NEW data \in Seq(Byte),
           NEW bytes, bytes = OpcodeFrame(opcode, id, WithStatus(data)),
           NEW read, read = parseStatusResponse(bytes)
    PROVE  read = [opcode |-> opcode, id |-> id, status |-> 1, ok |-> TRUE, payload |-> data]
<1>1. PICK one : one = <<1>> /\ one \in Seq(Byte) /\ Len(one) = 1 /\ one[1] = 1
  <2>1. 1 \in Byte
      BY RadixTyped DEF Byte
  <2>2. <<1>> \in Seq(Byte) /\ Len(<<1>>) = 1 /\ <<1>>[1] = 1
      BY <2>1
  <2> QED  BY <2>2
<1>2. PICK payload : payload = one \o data
    OBVIOUS
<1>3. /\ payload \in Seq(Byte) /\ Len(payload) = Len(one) + Len(data)
      /\ Holds(payload, 0, one) /\ Holds(payload, Len(one), data)
    BY ONLY <1>1, <1>2, data \in Seq(Byte), HoldsParts
<1>4. PICK size \in Nat : size = Len(data)
    BY LenProperties
<1>5. /\ Len(payload) = 1 + size /\ Len(payload) \in Nat /\ Holds(payload, 1, data)
      /\ payload[1] = 1
  <2>1. payload[0 + 1] = one[1]
      BY <1>1, <1>3 DEF Holds
  <2>2. Len(payload) = 1 + size /\ Len(payload) \in Nat
      BY ONLY <1>1, <1>3, <1>4, size \in Nat
  <2> QED  BY <1>1, <1>3, <2>1, <2>2
<1>6. bytes = OpcodeFrame(opcode, id, payload)
    BY <1>1, <1>2, Zenon DEF WithStatus
<1>7. /\ bytes \in Seq(Byte) /\ Len(bytes) = 20 + Len(payload)
      /\ Holds(bytes, 4, id) /\ Holds(bytes, 20, payload) /\ U32At(bytes, 0) = opcode
    BY ONLY <1>3, <1>6, opcode \in Byte, id \in Id, OpcodeFrameParts, SMTT(30)
<1>8. Len(bytes) = 21 + size /\ Len(bytes) \in Nat /\ ~(Len(bytes) < 21)
    BY ONLY <1>5, <1>7, size \in Nat
<1>9. Slice(bytes, 4, 20) = id
    BY ONLY <1>7, id \in Id, IdSlice
<1>10. LowByte(bytes) = opcode
    BY ONLY <1>7, opcode \in Byte, LowByteOf
<1>11. bytes[21] = 1
  <2>1. 1 \in 1..Len(payload)
      BY ONLY <1>5, size \in Nat
  <2>2. bytes[20 + 1] = payload[1]
      BY <1>7, <2>1 DEF Holds
  <2> QED  BY <1>5, <2>2
<1>12. SliceFrom(bytes, 21) = data
  <2>1. Holds(bytes, 20 + 1, data)
      BY ONLY <1>4, <1>5, <1>7, <1>8, size \in Nat, HoldsWithin
  <2>2. Holds(bytes, 21, data) /\ Len(bytes) = 21 + Len(data)
      BY ONLY <1>4, <1>8, <2>1
  <2> QED  BY ONLY <1>7, <2>2, data \in Seq(Byte), HoldsRest
<1>13. parseStatusResponse(bytes) =
        [opcode |-> opcode, id |-> id, status |-> 1, ok |-> 1 = 1, payload |-> data]
    BY ONLY <1>8, <1>9, <1>10, <1>11, <1>12 DEF parseStatusResponse, readResultMessage
<1> QED  BY <1>13

\* What a card returns
LEMMA CardReturns ==
    ASSUME NEW name \in CardNames, CardOf[name].returns # "status"
    PROVE  IF name = "GENERATE_CID" THEN CardOf[name].returns = "cid"
           ELSE CardOf[name].returns = "peers"
BY DEF CardOf, CardNames, Card, relay, dial, sub, use, unsub, announce, unannounce, disconnect, pub,
       directMsg, peers, findProviders, generateCid

LEMMA NodeResultRead ==
    ASSUME NEW name \in CardNames, NEW r \in Results[name], NEW opcode \in Byte, NEW id \in Id,
           NEW bytes, bytes = OpcodeFrame(opcode, id, WithStatus(Carried(name, r))),
           NEW result, result = synapResult(CardOf[name], bytes)
    PROVE  /\ result.ok /\ result.opcode = opcode /\ result.id = id
           /\ "data" \in DOMAIN r /\ r.data # << >> =>
                IF name = "GENERATE_CID" THEN result.cid = r.data ELSE result.peers = r.data
<1>1. PICK data \in Seq(Byte) : data = Carried(name, r)
    BY CarriedTyped
<1>2. PICK read : read = parseStatusResponse(bytes)
    OBVIOUS
<1>3. read = [opcode |-> opcode, id |-> id, status |-> 1, ok |-> TRUE, payload |-> data]
  <2>1. bytes = OpcodeFrame(opcode, id, WithStatus(data))
      BY <1>1
  <2> QED  BY ONLY <1>2, <2>1, opcode \in Byte, id \in Id, data \in Seq(Byte), StatusRead
<1>4. /\ read # Thrown /\ read.ok /\ read.opcode = opcode /\ read.id = id /\ read.payload = data
      /\ {"opcode", "id", "ok"} \subseteq DOMAIN read
    BY <1>3 DEF Thrown
<1>5. result = IF CardOf[name].returns = "status" \/ data = << >> THEN read
               ELSE IF CardOf[name].returns = "peers" THEN With(read, "peers", parsePeersCsv(data))
               ELSE With(read, "cid", data)
    BY <1>2, <1>4 DEF synapResult
<1>6. ASSUME NEW field \in {"peers", "cid"}, NEW value
      PROVE  /\ With(read, field, value).ok = read.ok /\ With(read, field, value).opcode = read.opcode
             /\ With(read, field, value).id = read.id /\ With(read, field, value)[field] = value
    BY <1>4 DEF With
<1>7. result.ok = read.ok /\ result.opcode = read.opcode /\ result.id = read.id
    BY <1>5, <1>6
<1>8. ASSUME "data" \in DOMAIN r, r.data # << >>
      PROVE  IF name = "GENERATE_CID" THEN result.cid = r.data ELSE result.peers = r.data
  <2>1. CardOf[name].returns # "status"
    <3>1. DOMAIN r = {"id"} \/ (DOMAIN r = {"id", "data"} /\ CardOf[name].returns # "status")
        BY ResultsAssumption
    <3> QED  BY <1>8, <3>1
  <2>2. CASE name = "GENERATE_CID"
    <3>1. CardOf[name].returns = "cid"
        BY <2>1, <2>2, CardReturns
    <3>2. data = r.data
        BY <1>1, <1>8, <3>1 DEF Carried
    <3>3. result = With(read, "cid", data)
        BY <1>5, <1>8, <3>1, <3>2
    <3> QED  BY <1>6, <2>2, <3>2, <3>3
  <2>3. CASE name # "GENERATE_CID"
    <3>1. CardOf[name].returns = "peers"
        BY <2>1, <2>3, CardReturns
    <3>2. PICK list : list = r.data
        OBVIOUS
    <3>3. /\ list \in Seq(Seq(Byte))
          /\ \A i \in DOMAIN list :
                list[i] # << >> /\ Comma \notin {list[i][j] : j \in DOMAIN list[i]}
        BY <1>8, <3>1, <3>2, ResultsAssumption
    <3>4. PICK n \in Nat : n = Len(list)
        BY <3>3, LenProperties
    <3>5. n \in Nat \ {0}
        BY <1>8, <3>2, <3>3, <3>4, EmptySeq
    <3>6. PeersNamed(list, n)
      <4> SUFFICES ASSUME NEW k \in 1..n
                   PROVE  /\ list[k] \in Seq(Byte) /\ Len(list[k]) \in Nat /\ Len(list[k]) > 0
                          /\ \A j \in 1..Len(list[k]) : list[k][j] # Comma
          BY DEF PeersNamed
      <4>1. DOMAIN list = 1..n
          BY <3>3, <3>4, LenProperties
      <4>2. PICK text \in Seq(Byte) : text = list[k]
        <5>1. list[k] \in Seq(Byte)
            BY <3>3, <3>4, ElementOfSeq
        <5> QED  BY <5>1
      <4>3. text # << >> /\ Comma \notin {text[j] : j \in DOMAIN text}
          BY <3>3, <4>1, <4>2
      <4>4. Len(text) \in Nat /\ DOMAIN text = 1..Len(text)
          BY LenProperties
      <4>5. Len(text) # 0
          BY <4>3, EmptySeq
      <4> QED  BY <4>2, <4>3, <4>4, <4>5
    <3>7. data = joinPeers(list)
        BY <1>1, <1>8, <3>1, <3>2 DEF Carried
    <3>8. parsePeersCsv(data) = list /\ Len(data) > 0
        BY ONLY <3>3, <3>4, <3>5, <3>6, <3>7, PeersSplit
    <3>9. data # << >>
        BY <3>8
    <3>10. result = With(read, "peers", list)
        BY <1>5, <2>1, <3>1, <3>8, <3>9
    <3> QED  BY <1>6, <2>3, <3>2, <3>10
  <2> QED  BY <2>2, <2>3
<1> QED  BY <1>4, <1>7, <1>8

LEMMA LibraryUnderstands == ASSUME ExchangeInv PROVE LibraryReadsAnswers
<1> SUFFICES ASSUME stage = "shown", ask.sender = "library", answer.kind = "done", ~ask.foreign
             PROVE  LET meant == answer.result
                    IN  IF ask.name \in Operations
                        THEN /\ \A f \in DOMAIN meant \ {"cell", "value"} :
                                    f \in DOMAIN shown /\ shown[f] = meant[f]
                             /\ "value" \in DOMAIN meant => shown.value = meant.value
                             /\ "cell" \in DOMAIN meant /\ meant.cell # Null
                                    => shown.cell = meant.cell
                        ELSE /\ shown.ok /\ shown.opcode = verdict.opcode /\ shown.id = meant.id
                             /\ "data" \in DOMAIN meant /\ meant.data # << >> =>
                                   IF ask.name = "GENERATE_CID" THEN shown.cid = meant.data
                                   ELSE shown.peers = meant.data
    BY DEF LibraryReadsAnswers
<1>1. /\ verdict # None /\ Replied /\ Asked /\ verdict = classifyFrame(frame)
      /\ shown = LibraryReads
    BY DEF ExchangeInv
<1>2. Answered
  <2>1. verdict.target # "unknown"
      BY <1>1 DEF Replied
  <2> QED  BY <1>1, <2>1, WholeAnswered
<1>3. CASE ask.name \in Operations
  <2>1. IsResult(ask.name, answer.result) /\ reply = ResultBytes(ask.name, answer.result)
      BY <1>2, <1>3, IdFirstReply DEF IdFirst
  <2>2. shown = Result(ask.name, reply)
    <3>1. ask.name \notin {"EVENT_PUBSUB", "EVENT_DIRECT_MSG", "EVENT_PEER_FOUND"}
        BY <1>3, Operation
    <3> QED  BY <1>1, <1>3, <3>1 DEF LibraryReads
  <2>3. PICK r : r = answer.result
      OBVIOUS
  <2>4. /\ \A f \in DOMAIN r \ {"cell", "value"} : f \in DOMAIN shown /\ shown[f] = r[f]
        /\ "value" \in DOMAIN r => shown.value = r.value
        /\ "cell" \in DOMAIN r /\ r.cell # Null => shown.cell = r.cell
      BY ONLY <1>3, <2>1, <2>2, <2>3, ResultRead
  <2> QED  BY <1>3, <2>3, <2>4
<1>4. CASE ask.name \notin Operations
  <2>1. ask.name \in CardNames
      BY <1>1, <1>4 DEF Asked, Names
  <2>2. shown = synapResult(CardOf[ask.name], reply)
    <3>1. ask.name \notin {"EVENT_PUBSUB", "EVENT_DIRECT_MSG", "EVENT_PEER_FOUND"}
        BY <2>1 DEF CardNames
    <3> QED  BY <1>1, <1>4, <3>1 DEF LibraryReads
  <2>3. PICK r \in Results[ask.name] :
          /\ answer.result = [r EXCEPT !.id = ask.fields.id]
          /\ reply = OpcodeFrame(OP[ask.name], ask.fields.id, WithStatus(Carried(ask.name, r)))
      BY <1>2, <2>1, NodeSuccess
  <2>4. PICK id \in Id : id = ask.fields.id
      BY <1>1, MessageTyped
  <2>5. PICK opcode \in Byte : opcode = OP[ask.name]
      BY <2>1, OpcodesTyped DEF Names
  <2>6. /\ shown.ok /\ shown.opcode = opcode /\ shown.id = id
        /\ "data" \in DOMAIN r /\ r.data # << >> =>
             IF ask.name = "GENERATE_CID" THEN shown.cid = r.data ELSE shown.peers = r.data
    <3>1. reply = OpcodeFrame(opcode, id, WithStatus(Carried(ask.name, r)))
        BY <2>3, <2>4, <2>5
    <3>2. PICK name \in CardNames : name = ask.name
        BY <2>1
    <3>3. r \in Results[name] /\ reply = OpcodeFrame(opcode, id, WithStatus(Carried(name, r)))
          /\ shown = synapResult(CardOf[name], reply)
        BY <2>2, <3>1, <3>2
    <3>4. /\ shown.ok /\ shown.opcode = opcode /\ shown.id = id
          /\ "data" \in DOMAIN r /\ r.data # << >> =>
               IF name = "GENERATE_CID" THEN shown.cid = r.data ELSE shown.peers = r.data
        BY ONLY <3>3, name \in CardNames, opcode \in Byte, id \in Id, NodeResultRead
    <3> QED  BY <3>2, <3>4
  <2>7. "id" \in DOMAIN r
      BY <2>1, <2>3, ResultsAssumption
  <2>8. /\ DOMAIN answer.result = DOMAIN r /\ answer.result.id = id
        /\ "data" \in DOMAIN r => answer.result.data = r.data
      BY <2>3, <2>4, <2>7
  <2>9. verdict.opcode = opcode
      BY <1>2, <2>5 DEF Answered
  <2> QED  BY <1>4, <2>6, <2>8, <2>9
<1> QED  BY <1>3, <1>4

--------------------------------------------------------------------------------
\* Whoever reads it, an answer or an event is understood as it was meant, but for the ids
\* that the page takes for an opcode (the result readers of cards/js,
\* inspectIncomingFrame of cards/index.html).
THEOREM AnswersAreUnderstood == Spec => []AnswersUnderstood
<1>1. ExchangeInv /\ EventInv => AnswersUnderstood
    BY LibraryUnderstands, PageUnderstands, EventsRead DEF AnswersUnderstood
<1> QED  BY <1>1, ExchangeInvariant, EventInvariant, PTL
================================================================================
