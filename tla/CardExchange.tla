----------------------------- MODULE CardExchange ------------------------------
(***************************************************************************)
(* One exchange from end to end, byte for byte: a client composes a        *)
(* request, the dispatcher looks at it, the engine it goes to reads it and *)
(* answers, the router finds whose answer that is, and the client reads    *)
(* it.  The client is the page (cards/index.html) or a program that uses   *)
(* the library (cards/js), two separate pieces of code for one format; the *)
(* dispatcher is a third one (dispatch.go).                                *)
(*                                                                         *)
(* The engines are not in the repository.  Their half of the format is in  *)
(* the library, which has the readers of requests and the builders of      *)
(* results, and in the recorded responses beside the sources.              *)
(***************************************************************************)
EXTENDS Dispatch, SamsaraCards, Synap2pCards, PageFrames

Names == Operations \cup CardNames

\* What a request names beside its id
Fields(name) ==
    CASE name = "CREATE_DB" -> {"dbName", "secret", "dbSize", "genome"}
      [] name \in {"DELETE_DB", "READ_CELL"} -> {"cellIndex", "dbName", "secret"}
      [] name = "WRITE" -> {"cellIndex", "dbName", "key", "value", "secret"}
      [] name \in {"READ", "DELETE"} -> {"cellIndex", "dbName", "key", "secret"}
      [] name = "READ_FREE" -> {"dbName", "key"}
      [] name = "DIFERIR" ->
            {"dbName", "cellIndex", "secret", "childGenome", "x", "y", "z", "childSalt",
             "childSecret"}
      [] name = "CRUZAR" ->
            {"dbName", "cellIndexA", "cellIndexB", "secretA", "secretB", "x", "y", "z",
             "childSecret"}
      [] name \in {"RELAY", "DIAL"} -> {"addr"}
      [] name \in {"SUB", "USE", "UNSUB"} -> {"topic"}
      [] name = "PUB" -> {"topic", "message"}
      [] name = "PEERS" -> {}
      [] name \in {"ANNOUNCE", "UNANNOUNCE", "FIND_PROVIDERS"} -> {"cid"}
      [] name = "DIRECT_MSG" -> {"peerId", "data"}
      [] name = "DISCONNECT" -> {"peerId"}
      [] OTHER -> {"data"}

\* What a result of Samsara may name beside its id and its status
ResultFields(name) ==
    CASE name \in {"CREATE_DB", "DELETE_DB", "WRITE", "DELETE"} -> {{}}
      [] name = "READ" -> {{"cellIndex", "value"}}
      [] name = "READ_FREE" -> {{"value"}}
      [] name = "READ_CELL" -> {{"cell"}, {"cell", "value"}}
      [] OTHER -> {{"cellIndex"}}

NumberFields ==
    {"cellIndex", "dbSize", "genome", "childGenome", "x", "y", "z", "cellIndexA", "cellIndexB"}

CONSTANTS
    Messages,  \* name -> the requests that may be composed
    Cuts,      \* (name, message) that may arrive in part
    Results,   \* name -> what the engine may answer with success
    Events     \* what the node may tell unasked

\* The opcodes of the cards are those the dispatcher knows.
ASSUME CardOpcodesAssumption ==
    /\ {SYNAP2P_OPCODES[name] : name \in CardNames} = OpcodeRequestMin..OpcodeRequestMax
    /\ {SYNAP2P_OPCODES[name] : name \in EventNames} = OpcodeEventMin..OpcodeEventMax
    /\ \A name \in Operations :
          EXTERNAL_OPCODES[name] \in OpcodeNamespaceMin..OpcodeNamespaceMax

\* A number may be anything that a form may hold.  A text is bytes, and no text is so
\* long that 32 bits do not hold its length.
ASSUME MessagesAssumption ==
    \A name \in Names : \A m \in Messages[name] :
        /\ DOMAIN m = {"id"} \cup Fields(name)
        /\ \A f \in DOMAIN m \ NumberFields : m[f] \in Seq(Byte) /\ Len(m[f]) < Word
        /\ "childSalt" \in DOMAIN m => IsId(m["childSalt"])

\* A success of Samsara has the status 1, and what the builder of the operation's
\* result takes.  The node gives its data as bytes, or as names of peers, which a list
\* with commas can hold.
ASSUME ResultsAssumption ==
    /\ \A name \in Operations : \A r \in Results[name] :
        /\ DOMAIN r \in {{"id", "status"} \cup told : told \in ResultFields(name)}
        /\ r.status = 1
        /\ "cellIndex" \in DOMAIN r => r.cellIndex \in 0..(Word - 1)
        /\ "value" \in DOMAIN r => r.value \in Seq(Byte)
        /\ "cell" \in DOMAIN r =>
              IF "value" \in DOMAIN r THEN r.cell = Null
              ELSE r.cell \in [{"genome", "x", "y", "z"} -> 0..(Word - 1)]
    /\ \A name \in CardNames : \A r \in Results[name] :
        /\ DOMAIN r = {"id"} \/ (DOMAIN r = {"id", "data"} /\ CardOf[name].returns # "status")
        /\ "data" \in DOMAIN r =>
              IF CardOf[name].returns = "peers"
              THEN /\ r.data \in Seq(Seq(Byte))
                   /\ \A i \in DOMAIN r.data :
                        r.data[i] # << >> /\ Comma \notin {r.data[i][j] : j \in DOMAIN r.data[i]}
              ELSE r.data \in Seq(Byte)

\* The event of a found peer has no id, which is to say zeros.
ASSUME EventsAssumption ==
    \A e \in Events :
        /\ e.name \in EventNames
        /\ DOMAIN e = {"name", "id"} \cup (IF e.name = "EVENT_PUBSUB" THEN {} ELSE {"peerId"})
                        \cup (IF e.name = "EVENT_PEER_FOUND" THEN {} ELSE {"data"})
        /\ \A f \in DOMAIN e \ {"name"} : e[f] \in Seq(Byte)
        /\ IF e.name = "EVENT_PEER_FOUND" THEN e.id = Zeros(16) ELSE IsId(e.id)

VARIABLES
    stage,    \* how far the exchange has come
    ask,      \* who asked what, or the event and who reads it
    frame,    \* the request, as it arrives
    verdict,  \* what the dispatcher makes of it
    parsed,   \* what the engine reads in it
    answer,   \* what the engine means to say
    reply,    \* the bytes it says it in
    shown     \* what the client makes of them

vars == <<stage, ask, frame, verdict, parsed, answer, reply, shown>>

None == [none |-> TRUE]

Init ==
    /\ stage = "idle" /\ ask = None /\ frame = << >> /\ verdict = None
    /\ parsed = None /\ answer = None /\ reply = << >> /\ shown = None

--------------------------------------------------------------------------------
(***************************************************************************)
(* The request.                                                            *)
(***************************************************************************)
ReqFrame(sender, name, m) ==
    CASE sender = "page" -> buildFrame(name, m)
      [] sender = "library" /\ name \in Operations -> ReqBytes(name, m)
      [] OTHER -> synapReqBytes(CardOf[name], m)

\* A builder throws if the id has not 16 bytes.  A request is `foreign' as long as it
\* starts with a number by which the dispatcher does not know its operation.
Compose(sender, name) ==
    /\ stage = "idle"
    /\ \E m \in Messages[name] :
        /\ IsId(m.id)
        /\ ask' = [sender |-> sender, name |-> name, fields |-> m, whole |-> TRUE,
                   foreign |-> sender = "library" /\ name \in Operations]
        /\ frame' = ReqFrame(sender, name, m)
    /\ stage' = "sent"
    /\ UNCHANGED <<verdict, parsed, answer, reply, shown>>

\* The library builds Samsara's requests with the opcodes Samsara has by itself.  The
\* others, by which the dispatcher knows them, are there for the caller to put in.
Renumber ==
    /\ stage = "sent" /\ ask.foreign /\ ask.name \in Operations /\ ask.whole
    /\ frame' = u32Bytes(EXTERNAL_OPCODES[ask.name]) \o SliceFrom(frame, 4)
    /\ ask' = [ask EXCEPT !.foreign = FALSE]
    /\ UNCHANGED <<stage, verdict, parsed, answer, reply, shown>>

\* The cards of Synap2P export others too, though the dispatcher knows their requests by
\* those they are built with.  A caller may put them in all the same.
RenumberSynap ==
    /\ stage = "sent" /\ ask.sender = "library" /\ ask.name \in CardNames
    /\ ask.whole /\ ~ask.foreign
    /\ frame' = u32Bytes(SYNAP2P_EXTERNAL_OPCODES[ask.name]) \o SliceFrom(frame, 4)
    /\ ask' = [ask EXCEPT !.foreign = TRUE]
    /\ UNCHANGED <<stage, verdict, parsed, answer, reply, shown>>

\* Nothing but the bytes themselves says that a frame is complete.
CutShort ==
    /\ stage = "sent" /\ ask.whole /\ <<ask.name, ask.fields>> \in Cuts
    /\ \E length \in 0..(Len(frame) - 1) : frame' = Slice(frame, 0, length)
    /\ ask' = [ask EXCEPT !.whole = FALSE]
    /\ UNCHANGED <<stage, verdict, parsed, answer, reply, shown>>

Dispatch ==
    /\ stage = "sent"
    /\ verdict' = classifyFrame(frame)
    /\ IF verdict'.target = "unknown"
       THEN /\ stage' = "delivered"
            /\ reply' = verdict'.rejection
            /\ answer' = [kind |-> "envelope"]
       ELSE stage' = "accepted" /\ UNCHANGED <<reply, answer>>
    /\ UNCHANGED <<ask, frame, parsed, shown>>

--------------------------------------------------------------------------------
(***************************************************************************)
(* The engine.                                                             *)
(***************************************************************************)
\* What the engine takes the frame for: opcodes alone tell.
ServedName ==
    IF verdict.target = "samsara"
    THEN CHOOSE name \in Operations : EXTERNAL_OPCODES[name] = verdict.opcode
    ELSE CHOOSE name \in CardNames : CardOf[name].opcode = verdict.opcode

EngineReads ==
    /\ stage = "accepted"
    /\ parsed' = IF verdict.target = "samsara" THEN Req(ServedName, frame)
                 ELSE synapReq(CardOf[ServedName], frame)
    /\ stage' = "read"
    /\ UNCHANGED <<ask, frame, verdict, answer, reply, shown>>

\* Samsara answers at once, the node through the router.
Says(kind, result, bytes) ==
    /\ answer' = [kind |-> kind, result |-> result]
    /\ reply' = bytes
    /\ stage' = IF verdict.target = "samsara" THEN "delivered" ELSE "answered"
    /\ UNCHANGED <<ask, frame, verdict, parsed, shown>>

SaysDone ==
    /\ stage = "read" /\ parsed # Thrown
    /\ \E r \in Results[ServedName] :
        LET result == [r EXCEPT !.id = verdict.id]
        IN  Says("done", result,
                CASE verdict.target = "samsara" -> ResultBytes(ServedName, result)
                  [] verdict.target # "samsara" /\ "data" \in DOMAIN r ->
                        DataBytes(CardOf[ServedName], verdict.id, r.data)
                  [] OTHER -> buildSuccessResponse(verdict.opcode, verdict.id))

\* A failure carries nothing but its status.
SaysFailed ==
    /\ stage = "read" /\ parsed # Thrown
    /\ Says("failed", None,
            IF verdict.target = "samsara" THEN verdict.id \o u32Bytes(0)
            ELSE buildErrorResponse(verdict.opcode, verdict.id))

SaysEnvelope ==
    /\ stage = "read"
    /\ Says("envelope", None, errorResult(verdict.id, ErrorCodeNodeProcessFailed, Info))

EventBytes(e) ==
    CASE e.name = "EVENT_PUBSUB" -> buildEventPubSub(e.id, e.data)
      [] e.name = "EVENT_DIRECT_MSG" -> buildEventDirectMsg(e.id, e.peerId, e.data)
      [] OTHER -> buildEventPeerFound(e.peerId)

SaysEvent(reader) ==
    /\ stage = "idle"
    /\ \E e \in Events :
        /\ ask' = [sender |-> reader, name |-> e.name, fields |-> e, whole |-> TRUE,
                   foreign |-> FALSE]
        /\ reply' = EventBytes(e)
    /\ answer' = [kind |-> "event"]
    /\ stage' = "answered"
    /\ UNCHANGED <<frame, verdict, parsed, shown>>

--------------------------------------------------------------------------------
(***************************************************************************)
(* The router and the client.                                              *)
(***************************************************************************)
IsEvent(bytes) == synapOpcodeFromFrame(bytes) /\ isSynapEvent(bytes[4])

\* The only pending request is this one.
routeFrame ==
    /\ stage = "answered"
    /\ stage' = CASE IsEvent(reply) -> "broadcast"
                  [] ~IsEvent(reply) /\ verdict # None
                        /\ synapResponseID(reply) = verdict.id -> "delivered"
                  [] OTHER -> "lost"
    /\ UNCHANGED <<ask, frame, verdict, parsed, answer, reply, shown>>

Remembered == [id \in IF verdict = None THEN {} ELSE {ask.fields.id} |-> OP[ask.name]]

LibraryReads ==
    CASE ask.name \in Operations -> Result(ask.name, reply)
      [] ask.name = "EVENT_PUBSUB" -> parseEventPubSub(reply)
      [] ask.name = "EVENT_DIRECT_MSG" -> parseEventDirectMsg(reply)
      [] ask.name = "EVENT_PEER_FOUND" -> parseEventPeerFound(reply)
      [] OTHER -> synapResult(CardOf[ask.name], reply)

ClientReads ==
    /\ stage \in {"delivered", "broadcast"}
    /\ shown' = IF ask.sender = "page" THEN inspectIncomingFrame(reply, Remembered)
                ELSE LibraryReads
    /\ stage' = "shown"
    /\ UNCHANGED <<ask, frame, verdict, parsed, answer, reply>>

Over == stage \in {"shown", "lost"} /\ UNCHANGED vars

Next ==
    \/ \E sender \in {"page", "library"}, name \in Names : Compose(sender, name)
    \/ \E reader \in {"page", "library"} : SaysEvent(reader)
    \/ Renumber \/ RenumberSynap \/ CutShort \/ Dispatch \/ EngineReads
    \/ SaysDone \/ SaysFailed \/ SaysEnvelope
    \/ routeFrame \/ ClientReads \/ Over

Spec == Init /\ [][Next]_vars

--------------------------------------------------------------------------------
(***************************************************************************)
(* Properties.                                                             *)
(***************************************************************************)
IsRequest == verdict # None

\* A whole request reaches the engine it is for and is taken for what it is.  A Samsara
\* request just as the library makes it never gets to Samsara; and under the opcode
\* that its card exports as the external one (synap2p/common.js:30) a request of
\* Synap2P never gets to its operation.  Either is refused, or the node takes it for
\* something else.
ReachesItsEngine ==
    IsRequest /\ Len(frame) >= 20 =>
        IF ask.foreign
        THEN /\ verdict.target # "samsara"
             /\ ask.name \in CardNames =>
                   IF ask.name = "RELAY" THEN verdict.target = "unknown"
                   ELSE verdict.target = "synap2p" /\ ServedName # ask.name
        ELSE /\ verdict.target = (IF ask.name \in Operations THEN "samsara" ELSE "synap2p")
             /\ ServedName = ask.name

\* A number arrives modulo 2^32, anything that is no number as 0, bytes as they are.
Arrives(f) == parsed[f] = IF f \in NumberFields THEN ToUint32(ask.fields[f]) ELSE ask.fields[f]

TooLong(peerId) == Len(peerId) >= Radix * Radix

\* The engine reads the fields the client meant, whether the page or the library
\* wrote them, and the flags of a genome are the same after bytes and back.  Two
\* texts go in one where a length or a separator cannot tell them apart: a peer of
\* 2^16 bytes and more leaves its end to the data, and a topic with a "|" to the
\* message.
RequestsSurvive ==
    stage = "read" /\ ask.whole /\ ~ask.foreign =>
        /\ parsed # Thrown
        /\ parsed.id = ask.fields.id
        /\ CASE ask.name = "DIRECT_MSG" ->
                  /\ parsed.peerId \o parsed.data = ask.fields.peerId \o ask.fields.data
                  /\ ~TooLong(ask.fields.peerId) => parsed.peerId = ask.fields.peerId
             [] ask.name = "PUB" ->
                  /\ parsed.topic \o <<Bar>> \o parsed.message
                       = ask.fields.topic \o <<Bar>> \o ask.fields.message
                  /\ Bar \notin {ask.fields.topic[i] : i \in DOMAIN ask.fields.topic}
                       => parsed.topic = ask.fields.topic
             [] OTHER -> \A f \in DOMAIN ask.fields :
                            f \in DOMAIN parsed /\ Arrives(f)
        /\ ask.name = "CREATE_DB" =>
              genomeUint32FromDetail(genomeDetailFromUint32(parsed.genome))
                  = parsed.genome % (2 * FlagBits[Len(FlagBits)])

\* A part of a Samsara request is never taken for a request: its lengths tell.
\* Of the node's requests only a direct message can be told to be cut, within
\* the peer that its length speaks of.
PartsRefused ==
    stage = "read" /\ ~ask.whole /\ ~ask.foreign =>
        /\ ask.name \in Operations => parsed = Thrown
        /\ ask.name = "DIRECT_MSG" =>
              (parsed = Thrown)
                  = (Len(frame) < 22 + (Len(ask.fields.peerId) % (Radix * Radix)))

\* The ids with which an envelope is taken for a frame of the node
OpcodeLike(id) ==
    id[1] = 0 /\ id[2] = 0 /\ id[3] = 0 /\ id[4] \in OpcodeRequestMin..OpcodeEventMax

\* The router finds the request of every answer of the node, unless the answer
\* starts with an id that itself starts as a frame of the node: such an envelope
\* is lost, or passed to everybody as an event.
AnswersFound ==
    stage \in {"lost", "broadcast"} /\ answer.kind # "event" =>
        answer.kind = "envelope" /\ OpcodeLike(ask.fields.id)

\* The node takes a Samsara request just as the library makes it for one of its own,
\* and the error it answers with has the end of the id where Samsara has the status.
StatusInId == ask.foreign /\ answer.kind = "failed" /\ U32At(ask.fields.id, 12) = 1

\* What an error says is never taken for a success, however its bytes fall, unless
\* the wrong engine answers and the id ends as a success would.
ErrorsNeverReadAsDone ==
    stage = "shown" /\ answer.kind \in {"failed", "envelope"} =>
        CASE ask.sender = "page" -> ~shown.ok
          [] ask.sender = "library" /\ shown # Thrown ->
                IF ask.name \in Operations THEN shown.status = 1 => StatusInId
                ELSE ~shown.ok
          [] OTHER -> TRUE

\* The library reads what the engine meant.
LibraryReadsAnswers ==
    stage = "shown" /\ ask.sender = "library" /\ answer.kind = "done" /\ ~ask.foreign =>
        LET meant == answer.result
        IN  IF ask.name \in Operations
            THEN /\ \A f \in DOMAIN meant \ {"cell", "value"} :
                        f \in DOMAIN shown /\ shown[f] = meant[f]
                 /\ "value" \in DOMAIN meant => shown.value = meant.value
                 /\ "cell" \in DOMAIN meant /\ meant.cell # Null
                        => shown.cell = meant.cell
            ELSE /\ shown.ok /\ shown.opcode = verdict.opcode /\ shown.id = meant.id
                 /\ "data" \in DOMAIN meant /\ meant.data # << >> =>
                       IF ask.name = "GENERATE_CID" THEN shown.cid = meant.data
                       ELSE shown.peers = meant.data

\* One id in ten has a byte in its fourth place that is an opcode.
Confusable(id) == id[4] \in KNOWN_OPCODES

IdFirst == ask.name \in Operations \/ answer.kind = "envelope"

\* The same four bytes four times over
Repeating(id) == \A i \in 1..12 : id[i + 4] = id[i]

\* The page shows an answer under its request, with its outcome, and takes the
\* request out of its table; but not if the answer starts with an id whose fourth
\* byte is an opcode.  It then looks for the id four bytes further on, where it only
\* finds it again if the id repeats itself.
PageReadsAnswers ==
    stage = "shown" /\ ask.sender = "page" /\ answer.kind # "event" /\ ask.whole =>
        IF IdFirst /\ Confusable(ask.fields.id)
        THEN shown.consumes = ask.fields.id => Repeating(ask.fields.id)
        ELSE /\ shown.title = OP[ask.name] /\ shown.consumes = ask.fields.id
             /\ shown.ok = (answer.kind = "done")
             /\ answer.kind = "done" /\ "value" \in DOMAIN answer.result =>
                    shown.data = answer.result.value

\* Every event reaches its readers as an event, with what it tells, and takes no
\* request out of the page's table; unless it tells of a peer too long to tell.
EventsSurvive ==
    /\ answer # None /\ answer.kind = "event" => stage \in {"answered", "broadcast", "shown"}
    /\ stage = "shown" /\ answer.kind = "event"
          /\ ~("peerId" \in DOMAIN ask.fields /\ TooLong(ask.fields.peerId)) =>
          LET told == IF ask.name = "EVENT_PEER_FOUND" THEN ask.fields.peerId ELSE ask.fields.data
          IN  IF ask.sender = "page"
              THEN /\ shown.title = OP[ask.name] /\ shown.consumes = NoId
                   /\ shown.data = told
              ELSE /\ shown.id = ask.fields.id
                   /\ told = CASE ask.name = "EVENT_PUBSUB" -> shown.payload
                              [] ask.name = "EVENT_DIRECT_MSG" -> shown.data
                              [] OTHER -> shown.peerId

\* Whoever reads it, an answer or an event is understood as it was meant, but for
\* the ids that the page takes for an opcode.
AnswersUnderstood == LibraryReadsAnswers /\ PageReadsAnswers /\ EventsSurvive
================================================================================
