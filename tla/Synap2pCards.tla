----------------------------- MODULE Synap2pCards ------------------------------
(***************************************************************************)
(* cards/js/synap2p/*.js: requests to the Synap2P node, its responses and  *)
(* its events.  All start with the opcode and the id.  A card is its       *)
(* opcode, what its request carries and what its response carries; the     *)
(* files of the cards only choose among the functions of their common.js.  *)
(***************************************************************************)
EXTENDS CardCommon

CardNames ==
    {"RELAY", "DIAL", "SUB", "USE", "PUB", "PEERS", "UNSUB", "ANNOUNCE", "UNANNOUNCE",
     "FIND_PROVIDERS", "DIRECT_MSG", "DISCONNECT", "GENERATE_CID"}
EventNames == {"EVENT_PUBSUB", "EVENT_DIRECT_MSG", "EVENT_PEER_FOUND"}

\* NATIVE_OPCODES of synap2p/common.js, which the cards build and answer with
SYNAP2P_OPCODES ==
    [name \in CardNames \cup EventNames |->
        CASE name = "RELAY" -> 1            [] name = "DIAL" -> 2
          [] name = "SUB" -> 3              [] name = "USE" -> 4
          [] name = "PUB" -> 5              [] name = "PEERS" -> 6
          [] name = "UNSUB" -> 7            [] name = "ANNOUNCE" -> 8
          [] name = "UNANNOUNCE" -> 9       [] name = "FIND_PROVIDERS" -> 10
          [] name = "DIRECT_MSG" -> 11      [] name = "DISCONNECT" -> 12
          [] name = "GENERATE_CID" -> 13    [] name = "EVENT_PUBSUB" -> 14
          [] name = "EVENT_DIRECT_MSG" -> 15 [] OTHER -> 16]

\* EXTERNAL_OPCODES of synap2p/common.js, of which each card exports its own: one less
SYNAP2P_EXTERNAL_OPCODES ==
    [name \in CardNames |->
        CASE name = "RELAY" -> 0            [] name = "DIAL" -> 1
          [] name = "SUB" -> 2              [] name = "USE" -> 3
          [] name = "PUB" -> 4              [] name = "PEERS" -> 5
          [] name = "UNSUB" -> 6            [] name = "ANNOUNCE" -> 7
          [] name = "UNANNOUNCE" -> 8       [] name = "FIND_PROVIDERS" -> 9
          [] name = "DIRECT_MSG" -> 10      [] name = "DISCONNECT" -> 11
          [] OTHER -> 12]

Bar == 124    \* "|"
Comma == 44   \* ","

buildSinglePayloadRequest(opcode, payload, id) == buildOpcodeMessage(opcode, <<id, payload>>)

\* readU32(bytes, 0) & 0xff
LowByte(message) == U32At(message, 0) % Radix

parseSinglePayloadRequest(message) ==
    readResultMessage(message, 20,
        [opcode |-> LowByte(message), id |-> Slice(message, 4, 20),
         payload |-> SliceFrom(message, 20)])

--------------------------------------------------------------------------------
(***************************************************************************)
(* Responses: opcode, id, one byte of status, and data if there is any.    *)
(***************************************************************************)
buildSuccessDataResponse(opcode, id, data) ==
    <<0, 0, 0, opcode>> \o id \o <<1>> \o data

buildSuccessResponse(opcode, id) == buildSuccessDataResponse(opcode, id, << >>)

buildErrorResponse(opcode, id) == <<0, 0, 0, opcode>> \o id \o <<0>>

\* Wrong: takes every status but zero for a success
parseStatusResponseLax(message) ==
    readResultMessage(message, 21,
        [opcode |-> LowByte(message), id |-> Slice(message, 4, 20),
         status |-> message[21], ok |-> message[21] # 0, payload |-> SliceFrom(message, 21)])

parseStatusResponse(message) ==
    readResultMessage(message, 21,
        [opcode |-> LowByte(message), id |-> Slice(message, 4, 20),
         status |-> message[21], ok |-> message[21] = 1, payload |-> SliceFrom(message, 21)])

--------------------------------------------------------------------------------
(***************************************************************************)
(* Direct messages carry the peer with its length in 16 bits, then data.   *)
(***************************************************************************)
buildDirectMsgRequest(opcode, peerId, data, id) ==
    buildOpcodeMessage(opcode, <<id, u16Bytes(Len(peerId)), peerId, data>>)

parseDirectMsgRequest(message) ==
    IF Len(message) < 22 THEN Thrown
    ELSE LET peerEnd == 22 + U16At(message, 20)
         IN  readResultMessage(message, peerEnd,
                [opcode |-> LowByte(message), id |-> Slice(message, 4, 20),
                 peerId |-> Slice(message, 22, peerEnd), data |-> SliceFrom(message, peerEnd)])

--------------------------------------------------------------------------------
(***************************************************************************)
(* Texts with separators.                                                  *)
(***************************************************************************)
pubPayloadBytes(topic, message) == topic \o <<Bar>> \o message

splitPubPayload(bytes) ==
    LET separator == SelectInSeq(bytes, LAMBDA byte : byte = Bar)
    IN  IF separator = 0 THEN [topic |-> bytes, message |-> << >>]
        ELSE [topic   |-> SubSeq(bytes, 1, separator - 1),
              message |-> SubSeq(bytes, separator + 1, Len(bytes))]

\* peers.join(",")
joinPeers(list) ==
    FlattenSeq([i \in DOMAIN list |-> IF i = 1 THEN list[i] ELSE <<Comma>> \o list[i]])

\* The texts between the commas, the empty ones left out
parsePeersCsv(bytes) ==
    LET end(i)  == Min({j \in i..Len(bytes) : bytes[j] = Comma} \cup {Len(bytes) + 1})
        text(i) == SubSeq(bytes, i, end(i) - 1)
        from[i \in 1..(Len(bytes) + 2)] ==
            IF i > Len(bytes) THEN << >>
            ELSE IF text(i) = << >> THEN from[end(i) + 1]
                 ELSE <<text(i)>> \o from[end(i) + 1]
    IN  from[1]

--------------------------------------------------------------------------------
(***************************************************************************)
(* The cards.  `carries' is the name readers give to the payload of the    *)
(* request, or says how the request is made up; `returns' is what a        *)
(* success may carry.                                                      *)
(***************************************************************************)
Card(name, carries, returns) ==
    [opcode |-> SYNAP2P_OPCODES[name], carries |-> carries, returns |-> returns]

relay         == Card("RELAY", "addr", "status")
dial          == Card("DIAL", "addr", "status")
sub           == Card("SUB", "topic", "status")
use           == Card("USE", "topic", "status")
unsub         == Card("UNSUB", "topic", "status")
announce      == Card("ANNOUNCE", "cid", "status")
unannounce    == Card("UNANNOUNCE", "cid", "status")
disconnect    == Card("DISCONNECT", "peerId", "status")
pub           == Card("PUB", "topic|message", "status")
directMsg     == Card("DIRECT_MSG", "peer and data", "status")
peers         == Card("PEERS", "nothing", "peers")
findProviders == Card("FIND_PROVIDERS", "cid", "peers")
generateCid   == Card("GENERATE_CID", "data", "cid")

\* index.js
CardOf ==
    [name \in CardNames |->
        CASE name = "RELAY" -> relay           [] name = "DIAL" -> dial
          [] name = "SUB" -> sub               [] name = "USE" -> use
          [] name = "PUB" -> pub               [] name = "PEERS" -> peers
          [] name = "UNSUB" -> unsub           [] name = "ANNOUNCE" -> announce
          [] name = "UNANNOUNCE" -> unannounce [] name = "FIND_PROVIDERS" -> findProviders
          [] name = "DIRECT_MSG" -> directMsg  [] name = "DISCONNECT" -> disconnect
          [] OTHER -> generateCid]

synapReqBytes(card, m) ==
    CASE card.carries = "peer and data" ->
            buildDirectMsgRequest(card.opcode, m.peerId, m.data, m.id)
      [] card.carries = "topic|message" ->
            buildSinglePayloadRequest(card.opcode, pubPayloadBytes(m.topic, m.message), m.id)
      [] card.carries = "nothing" -> buildSinglePayloadRequest(card.opcode, << >>, m.id)
      [] OTHER -> buildSinglePayloadRequest(card.opcode, m[card.carries], m.id)

synapReq(card, message) ==
    LET parsed == parseSinglePayloadRequest(message)
        text   == splitPubPayload(parsed.payload)
    IN  IF card.carries = "peer and data" THEN parseDirectMsgRequest(message)
        ELSE IF parsed = Thrown THEN Thrown
        ELSE CASE card.carries = "nothing" -> parsed
               [] card.carries = "topic|message" ->
                     With(With(parsed, "topic", text.topic), "message", text.message)
               [] OTHER -> With(parsed, card.carries, parsed.payload)

\* What a success carries: peers may be given as a list or as a text.
DataBytes(card, id, data) ==
    buildSuccessDataResponse(card.opcode, id,
        IF card.returns = "peers" THEN joinPeers(data) ELSE data)

synapResult(card, message) ==
    LET parsed == parseStatusResponse(message)
    IN  IF parsed = Thrown \/ card.returns = "status" \/ parsed.payload = << >> THEN parsed
        ELSE IF card.returns = "peers" THEN With(parsed, "peers", parsePeersCsv(parsed.payload))
        ELSE With(parsed, "cid", parsed.payload)

--------------------------------------------------------------------------------
(***************************************************************************)
(* Events, which the node sends unasked.                                   *)
(***************************************************************************)
buildEventPubSub(id, data) ==
    buildOpcodeMessage(SYNAP2P_OPCODES["EVENT_PUBSUB"], <<id, data>>)

parseEventPubSub(message) == parseSinglePayloadRequest(message)

buildEventDirectMsg(id, peerId, data) ==
    buildDirectMsgRequest(SYNAP2P_OPCODES["EVENT_DIRECT_MSG"], peerId, data, id)

parseEventDirectMsg(message) == parseDirectMsgRequest(message)

\* Its id is zero: it belongs to no request.
buildEventPeerFound(peerId) ==
    buildOpcodeMessage(SYNAP2P_OPCODES["EVENT_PEER_FOUND"],
        <<Zeros(16), u16Bytes(Len(peerId)), peerId>>)

\* Bytes after the peer are left alone.
parseEventPeerFound(message) ==
    LET parsed == parseDirectMsgRequest(message)
    IN  IF parsed = Thrown THEN Thrown ELSE Restrict(parsed, {"opcode", "id", "peerId"})
================================================================================
