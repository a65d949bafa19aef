------------------------------ MODULE PageFrames -------------------------------
(***************************************************************************)
(* The frames of cards/index.html: the payload each card composes and what *)
(* the page makes of a frame it receives.  The page has code of its own    *)
(* for both and does not use cards/js.                                     *)
(***************************************************************************)
EXTENDS Bytes, SequencesExt

SynapOps ==
    {"RELAY", "DIAL", "SUB", "USE", "PUB", "PEERS", "UNSUB", "ANNOUNCE", "UNANNOUNCE",
     "FIND_PROVIDERS", "DIRECT_MSG", "DISCONNECT", "GENERATE_CID",
     "EVENT_PUBSUB", "EVENT_DIRECT_MSG", "EVENT_PEER_FOUND"}

OP ==
    [name \in SynapOps \cup
             {"CREATE_DB", "DELETE_DB", "WRITE", "READ", "READ_FREE", "DELETE", "READ_CELL",
              "DIFERIR", "CRUZAR"} |->
        CASE name = "RELAY" -> 1             [] name = "DIAL" -> 2
          [] name = "SUB" -> 3               [] name = "USE" -> 4
          [] name = "PUB" -> 5               [] name = "PEERS" -> 6
          [] name = "UNSUB" -> 7             [] name = "ANNOUNCE" -> 8
          [] name = "UNANNOUNCE" -> 9        [] name = "FIND_PROVIDERS" -> 10
          [] name = "DIRECT_MSG" -> 11       [] name = "DISCONNECT" -> 12
          [] name = "GENERATE_CID" -> 13     [] name = "EVENT_PUBSUB" -> 14
          [] name = "EVENT_DIRECT_MSG" -> 15 [] name = "EVENT_PEER_FOUND" -> 16
          [] name = "CREATE_DB" -> 32        [] name = "DELETE_DB" -> 33
          [] name = "WRITE" -> 34            [] name = "READ" -> 35
          [] name = "READ_FREE" -> 36        [] name = "DELETE" -> 37
          [] name = "READ_CELL" -> 38        [] name = "DIFERIR" -> 39
          [] OTHER -> 40]

KNOWN_OPCODES == {OP[name] : name \in DOMAIN OP}
\* Wrong: stops before the last request
RequestOpsShort == OP["RELAY"]..(OP["GENERATE_CID"] - 1)

RequestOps == OP["RELAY"]..OP["GENERATE_CID"]
SamsaraOps == OP["CREATE_DB"]..OP["CRUZAR"]

NoId == << >>

--------------------------------------------------------------------------------
(***************************************************************************)
(* What the cards send.                                                    *)
(***************************************************************************)
concat(parts) == FlattenSeq(parts)

synapPayload(name, f) ==
    CASE name \in {"RELAY", "DIAL"} -> f.addr
      [] name \in {"SUB", "USE", "UNSUB"} -> f.topic
      [] name = "PUB" -> f.topic \o <<124>> \o f.message
      [] name = "PEERS" -> << >>
      [] name \in {"ANNOUNCE", "UNANNOUNCE", "FIND_PROVIDERS"} -> f.cid
      [] name = "DIRECT_MSG" -> concat(<<u16Bytes(Len(f.peerId)), f.peerId, f.data>>)
      [] name = "DISCONNECT" -> f.peerId
      [] OTHER -> f.data

samsaraPayload(name, f) ==
    CASE name = "CREATE_DB" ->
            concat(<<LengthOf(f.dbName), LengthOf(f.secret), u32Bytes(f.dbSize),
                     u32Bytes(f.genome), f.dbName, f.secret>>)
      [] name \in {"DELETE_DB", "READ_CELL"} ->
            concat(<<u32Bytes(f.cellIndex), LengthOf(f.dbName), LengthOf(f.secret),
                     f.dbName, f.secret>>)
      [] name = "WRITE" ->
            concat(<<u32Bytes(f.cellIndex), LengthOf(f.dbName), LengthOf(f.key),
                     LengthOf(f.value), LengthOf(f.secret),
                     f.dbName, f.key, f.value, f.secret>>)
      [] name \in {"READ", "DELETE"} ->
            concat(<<u32Bytes(f.cellIndex), LengthOf(f.dbName), LengthOf(f.key),
                     LengthOf(f.secret), f.dbName, f.key, f.secret>>)
      [] name = "READ_FREE" ->
            concat(<<LengthOf(f.dbName), LengthOf(f.key), f.dbName, f.key>>)
      [] name = "DIFERIR" ->
            concat(<<LengthOf(f.dbName), u32Bytes(f.cellIndex), LengthOf(f.secret),
                     u32Bytes(f.childGenome), u32Bytes(f.x), u32Bytes(f.y), u32Bytes(f.z),
                     f.childSalt, LengthOf(f.childSecret),
                     f.dbName, f.secret, f.childSecret>>)
      [] OTHER ->
            concat(<<LengthOf(f.dbName), u32Bytes(f.cellIndexA), u32Bytes(f.cellIndexB),
                     LengthOf(f.secretA), LengthOf(f.secretB),
                     u32Bytes(f.x), u32Bytes(f.y), u32Bytes(f.z), LengthOf(f.childSecret),
                     f.dbName, f.secretA, f.secretB, f.childSecret>>)

buildRequestFrame(opcode, id, payload) == concat(<<u32Bytes(opcode), id, payload>>)

buildFrame(name, f) ==
    buildRequestFrame(OP[name], f.id,
        IF OP[name] \in SamsaraOps THEN samsaraPayload(name, f) ELSE synapPayload(name, f))

--------------------------------------------------------------------------------
(***************************************************************************)
(* What the page makes of a frame: the request it shows it under, the id   *)
(* whose entry it takes out of `pending', whether it reports success, and  *)
(* the bytes it shows as data.                                             *)
(***************************************************************************)
Shown(title, id, ok, data) == [title |-> title, consumes |-> id, ok |-> ok, data |-> data]

\* The low byte of the first number, whatever the other three are
frameOpcode(frame) == U32At(frame, 0) % Radix

isOpcodeFrame(frame) == Len(frame) >= 4 /\ frameOpcode(frame) \in KNOWN_OPCODES

extractResponseId(frame) ==
    CASE Len(frame) < 20 -> NoId
      [] Len(frame) >= 20 /\ isOpcodeFrame(frame) -> Slice(frame, 4, 20)
      [] OTHER -> Slice(frame, 0, 16)

parseDirectMsgPayload(payload) ==
    IF Len(payload) < 2 \/ 2 + U16At(payload, 0) > Len(payload) THEN << >>
    ELSE SliceFrom(payload, 2 + U16At(payload, 0))

\* No entry is taken out for an event, nor for a frame that begins as one of Samsara.
parseSynapOpcodeFrame(frame, opcode) ==
    LET id      == Slice(frame, 4, 20)
        payload == SliceFrom(frame, 20)
    IN  CASE Len(frame) < 20 -> Shown(opcode, NoId, FALSE, << >>)
          [] Len(frame) >= 20 /\ opcode \in RequestOps ->
                Shown(opcode, id, payload # << >> /\ payload[1] = 1, SliceFrom(payload, 1))
          [] Len(frame) >= 20 /\ opcode = OP["EVENT_DIRECT_MSG"] ->
                Shown(opcode, NoId, FALSE, parseDirectMsgPayload(payload))
          [] Len(frame) >= 20 /\ opcode = OP["EVENT_PEER_FOUND"] ->
                Shown(opcode, NoId, FALSE,
                      IF Len(payload) >= 2 /\ 2 + U16At(payload, 0) <= Len(payload)
                      THEN Slice(payload, 2, 2 + U16At(payload, 0)) ELSE << >>)
          [] OTHER -> Shown(opcode, NoId, FALSE, payload)

parseErrorFrame(frame, opcodeHint) ==
    Shown(opcodeHint, NoId, FALSE, SliceFrom(frame, 20))

\* A status other than 0 and 1 makes the frame an error.
parseSamsaraResult(frame, opcode) ==
    LET status == U32At(frame, 16)
    IN  CASE Len(frame) < 20 -> Shown(opcode, NoId, FALSE, << >>)
          [] Len(frame) >= 20 /\ status \notin {0, 1} -> parseErrorFrame(frame, opcode)
          [] OTHER -> Shown(opcode, NoId, status = 1,
                    CASE opcode \in {OP["CREATE_DB"], OP["DELETE_DB"], OP["WRITE"], OP["DELETE"]} -> << >>
                      [] opcode = OP["READ"] -> SliceFrom(frame, 24)
                      [] OTHER -> SliceFrom(frame, 20))

\* `pending' maps the ids of requests to their opcodes.
inspectIncomingFrame(frame, pending) ==
    LET id   == extractResponseId(frame)
        hint == IF id \in DOMAIN pending THEN pending[id] ELSE 0
    IN  CASE frame = << >> -> Shown(0, NoId, FALSE, << >>)
          [] frame # << >> /\ isOpcodeFrame(frame) -> parseSynapOpcodeFrame(frame, frameOpcode(frame))
          [] OTHER -> [(IF hint \in SamsaraOps THEN parseSamsaraResult(frame, hint)
                        ELSE parseErrorFrame(frame, hint)) EXCEPT !.consumes = id]
================================================================================
