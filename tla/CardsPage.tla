------------------------------- MODULE CardsPage -------------------------------
(***************************************************************************)
(* The page of cards/index.html at work: cards that hold an id each and    *)
(* show the frame they would send, the table of requests that wait for an  *)
(* answer, and a transport, HTTP or a WebSocket that is opened again when  *)
(* it closes.  Between two awaits the script is never interrupted, so an   *)
(* action is what a handler does up to the next one.  What a frame looks   *)
(* like is in PageFrames; here it matters whether an answer begins with    *)
(* its opcode or with its id, and whether the id has an opcode in its      *)
(* fourth byte, which makes the page take the one for the other.           *)
(***************************************************************************)
EXTENDS Naturals

CONSTANTS
    Cards,
    SamsaraCards, \* those whose answers always begin with the id
    SaltedCards,  \* those whose payload has random bytes (diferir)
    Sends,        \* clicks on a button
    Ids,          \* ids that randomBytes(16) may give, never twice the same
    Confusable,   \* those with an opcode in their fourth byte
    Texts,        \* what may be typed in a card
    Salts,        \* random bytes in a payload
    NoCard, NoId, NoSalt

ASSUME CardsAssumption ==
    /\ SamsaraCards \subseteq Cards /\ SaltedCards \subseteq Cards
    /\ Confusable \subseteq Ids
    /\ NoCard \notin Cards /\ NoId \notin Ids /\ NoSalt \notin Salts

VARIABLES
    transport, \* "http" in server mode, "ws" in client mode
    card,     \* card -> its id, what is typed in it, the frame in its preview
    pending,  \* id -> the card whose opcode is remembered for it
    sends,    \* click -> the request it made and what became of it
    socket,   \* the WebSocket
    timers,   \* calls of connectSocket that are due
    reachable \* whether a socket can be opened and kept open

vars == <<transport, card, pending, sends, socket, timers, reachable>>

Frames == [id : Ids, text : Texts, salt : Salts \cup {NoSalt}]
NoFrame == [none |-> TRUE]

Statuses == {"unsent", "flying", "shown", "failed", "refused", "lost"}

\* The card a response is shown under, or what it is taken for instead
Titles == Cards \cup {"none", "response", "misread", "text"}

Unsent == [card |-> NoCard, id |-> NoId, status |-> "unsent", preview |-> NoFrame,
           frame |-> NoFrame, title |-> "none"]

Sent == {s \in Sends : sends[s].status # "unsent"}

SaltsOf(c) == IF c \in SaltedCards THEN Salts ELSE {NoSalt}

\* buildFrame, which draws new random bytes at every call
BuiltFrames(c, id, text) == [id : {id}, text : {text}, salt : SaltsOf(c)]

Init ==
    /\ \E text \in Texts :
        card \in {f \in [Cards -> [id : Ids, text : {text}, preview : Frames]] :
                    /\ \A c \in Cards : f[c].preview \in BuiltFrames(c, f[c].id, text)
                    /\ \A c, d \in Cards : f[c].id = f[d].id => c = d}
    /\ pending = [id \in Ids |-> NoCard]
    /\ sends = [s \in Sends |-> Unsent]
    /\ transport \in {"http", "ws"}
    /\ socket = IF transport = "ws" THEN "connecting" ELSE "closed"
    /\ timers = 0
    /\ reachable \in IF transport = "ws" THEN BOOLEAN ELSE {TRUE}

--------------------------------------------------------------------------------
Fresh(id) ==
    /\ \A c \in Cards : card[c].id # id
    /\ \A s \in Sent : sends[s].id # id

\* Wrong: leaves the old frame in the preview
RenewWithoutPreview(c) ==
    \E id \in {i \in Ids : Fresh(i)} :
        card' = [card EXCEPT ![c] = [@ EXCEPT !.id = id]]

\* Wrong: draws no new id
RenewNothing(c) == card' = card

\* state.id = randomBytes(16); updatePreview()
Renew(c) ==
    \E id \in {i \in Ids : Fresh(i)} : \E preview \in BuiltFrames(c, id, card[c].text) :
        card' = [card EXCEPT ![c] = [@ EXCEPT !.id = id, !.preview = preview]]

\* Wrong: remembers the id in place of the opcode
rememberId(id, c) == [pending EXCEPT ![id] = id]

rememberPending(id, c) == [pending EXCEPT ![id] = c]

\* Wrong: leaves the request in the table
consumeNothing(id) == pending

consumePending(id) == [pending EXCEPT ![id] = NoCard]

\* The oninput handler of a field
Edit(c, text) ==
    /\ text # card[c].text
    /\ \E preview \in BuiltFrames(c, card[c].id, text) :
        card' = [card EXCEPT ![c] = [@ EXCEPT !.text = text, !.preview = preview]]
    /\ UNCHANGED <<transport, pending, sends, socket, timers, reachable>>

\* What a click records of the request it makes; the frame is built anew.
Request(s, c, status) ==
    /\ s \notin Sent
    /\ \E frame \in BuiltFrames(c, card[c].id, card[c].text) :
        sends' = [sends EXCEPT ![s] =
                    [card |-> c, id |-> card[c].id, status |-> status,
                     preview |-> card[c].preview, frame |-> frame, title |-> "none"]]

--------------------------------------------------------------------------------
(***************************************************************************)
(* What inspectIncomingFrame does with a response.                         *)
(***************************************************************************)
Layouts(s) == {"idFirst"} \cup IF sends[s].card \in SamsaraCards THEN {} ELSE {"opcodeFirst"}

\* Wrong: takes any first byte for an opcode
MisreadAll(s, layout) == layout = "idFirst"

Misread(s, layout) == layout = "idFirst" /\ sends[s].id \in Confusable

Inspect(s, layout) ==
    LET id == sends[s].id
    IN  /\ pending' = IF Misread(s, layout) THEN pending ELSE consumePending(id)
        /\ sends' = [sends EXCEPT ![s].status = "shown",
                        ![s].title = CASE Misread(s, layout) -> "misread"
                                       [] layout = "opcodeFirst" -> sends[s].card
                                       [] layout = "idFirst" /\ ~Misread(s, layout) ->
                                            IF pending[id] = NoCard THEN "response"
                                            ELSE pending[id]]

--------------------------------------------------------------------------------
(***************************************************************************)
(* HTTP.  The click waits for the response, and only then has the card a   *)
(* new id.                                                                 *)
(***************************************************************************)
ClickHttp(s, c) ==
    /\ transport = "http"
    /\ Request(s, c, "flying")
    /\ pending' = rememberPending(card[c].id, c)
    /\ UNCHANGED <<transport, card, socket, timers, reachable>>

ResponseHttp(s) ==
    /\ transport = "http" /\ sends[s].status = "flying"
    /\ \E layout \in Layouts(s) : Inspect(s, layout)
    /\ Renew(sends[s].card)
    /\ UNCHANGED <<transport, socket, timers, reachable>>

\* An HTTP error is a response like others; its text is no frame of the program.
TextHttp(s) ==
    /\ transport = "http" /\ sends[s].status = "flying"
    /\ sends' = [sends EXCEPT ![s].status = "shown", ![s].title = "text"]
    /\ Renew(sends[s].card)
    /\ UNCHANGED <<transport, pending, socket, timers, reachable>>

FailHttp(s) ==
    /\ transport = "http" /\ sends[s].status = "flying"
    /\ pending' = consumePending(sends[s].id)
    /\ sends' = [sends EXCEPT ![s].status = "failed"]
    /\ Renew(sends[s].card)
    /\ UNCHANGED <<transport, socket, timers, reachable>>

--------------------------------------------------------------------------------
(***************************************************************************)
(* WebSocket.  Nothing is waited for: the card has a new id at once.       *)
(***************************************************************************)
ClickOpen(s, c) ==
    /\ transport = "ws" /\ socket = "open"
    /\ Request(s, c, "flying")
    /\ pending' = rememberPending(card[c].id, c)
    /\ Renew(c)
    /\ UNCHANGED <<transport, socket, timers, reachable>>

ClickClosed(s, c) ==
    /\ transport = "ws" /\ socket # "open"
    /\ Request(s, c, "refused")
    /\ pending' = consumePending(card[c].id)
    /\ Renew(c)
    /\ UNCHANGED <<transport, socket, timers, reachable>>

MessageWs(s) ==
    /\ transport = "ws" /\ sends[s].status = "flying"
    /\ \E layout \in Layouts(s) : Inspect(s, layout)
    /\ UNCHANGED <<transport, card, socket, timers, reachable>>

OpenWs ==
    /\ socket = "connecting" /\ reachable
    /\ socket' = "open"
    /\ UNCHANGED <<transport, card, pending, sends, timers, reachable>>

\* Wrong: nothing is done when the socket closes
ReconnectNever == timers' = timers

\* Wrong: both the error and the close of a socket call for a new one
ReconnectTwice == timers' = timers + 2

Reconnect == timers' = timers + 1

\* What is on its way is lost with the socket; the table is left as it is.
CloseWs ==
    /\ socket \in {"connecting", "open"} /\ ~reachable
    /\ socket' = "closed"
    /\ sends' = [s \in Sends |-> IF sends[s].status = "flying"
                                 THEN [sends[s] EXCEPT !.status = "lost"] ELSE sends[s]]
    /\ Reconnect
    /\ UNCHANGED <<transport, card, pending, reachable>>

connectSocket ==
    /\ timers > 0
    /\ timers' = timers - 1
    /\ socket' = "connecting"
    /\ UNCHANGED <<transport, card, pending, sends, reachable>>

NetworkChanges ==
    /\ transport = "ws"
    /\ reachable' = ~reachable
    /\ UNCHANGED <<transport, card, pending, sends, socket, timers>>

\* All clicks have been made and answered.
Quiet ==
    /\ transport = "http" /\ Sent = Sends
    /\ \A s \in Sends : sends[s].status # "flying"
    /\ UNCHANGED vars

Next ==
    \/ \E c \in Cards, text \in Texts : Edit(c, text)
    \/ \E s \in Sends, c \in Cards : ClickHttp(s, c) \/ ClickOpen(s, c) \/ ClickClosed(s, c)
    \/ \E s \in Sends : ResponseHttp(s) \/ TextHttp(s) \/ FailHttp(s) \/ MessageWs(s)
    \/ OpenWs \/ CloseWs \/ connectSocket \/ NetworkChanges \/ Quiet

\* A timer fires, and a socket that is being opened opens or closes.
Fairness == WF_vars(OpenWs) /\ WF_vars(CloseWs) /\ WF_vars(connectSocket)

Spec == Init /\ [][Next]_vars
FairSpec == Spec /\ Fairness

--------------------------------------------------------------------------------
(***************************************************************************)
(* Properties.                                                             *)
(***************************************************************************)
TypeOK ==
    /\ transport \in {"http", "ws"}
    /\ card \in [Cards -> [id : Ids, text : Texts, preview : Frames]]
    /\ pending \in [Ids -> Cards \cup {NoCard}]
    /\ sends \in [Sends -> [card : Cards \cup {NoCard}, id : Ids \cup {NoId},
                            status : Statuses, preview : Frames \cup {NoFrame},
                            frame : Frames \cup {NoFrame}, title : Titles]]
    /\ socket \in {"connecting", "open", "closed"}
    /\ timers \in Nat
    /\ reachable \in BOOLEAN

Twins(s, t) == s # t /\ s \in Sent /\ t \in Sent /\ sends[s].id = sends[t].id

\* An id is sent again only by a second click while the first waits for its
\* response over HTTP, never once a request with it is over.
IdsSentAgainOnlyInFlight ==
    [][\A s, t \in Sends :
        s \notin Sent /\ s \in Sent' /\ t \in Sent /\ sends'[s].id = sends[t].id
            => transport = "http" /\ sends[t].status = "flying"
                 /\ sends'[s].card = sends[t].card]_vars

\* A response is shown under the card that asked, unless its id is one the page
\* takes for an opcode, or the same id was sent twice and the response of the
\* other has used up the entry in the table.
ShownUnderItsCard ==
    \A s \in Sends : sends[s].status = "shown" =>
        \/ sends[s].title \in {sends[s].card, "text"}
        \/ sends[s].title = "misread" /\ sends[s].id \in Confusable
        \/ sends[s].title = "response" /\ \E t \in Sends : Twins(s, t)

\* The table forgets no request that is on its way, unless a twin of it is over.
FlyingRemembered ==
    \A s \in Sends : sends[s].status = "flying" =>
        \/ pending[sends[s].id] = sends[s].card
        \/ \E t \in Sends : Twins(s, t) /\ sends[t].status \in {"shown", "failed"}

\* What stays in the table for good was lost with a socket, misread, or answered by
\* something that is no frame.
PendingAccounted ==
    \A id \in Ids : pending[id] # NoCard =>
        \E s \in Sends :
            /\ sends[s].id = id /\ sends[s].card = pending[id]
            /\ sends[s].status \in {"flying", "lost"} \/ sends[s].title \in {"misread", "text"}

\* The table has what is on its way, and what stays in it is accounted for.
PendingMatchesSends == FlyingRemembered /\ PendingAccounted

\* The frame that is sent is the one the card shows when its button is pressed, as
\* the page says ("Cada tarjeta muestra el frame nativo exacto que enviara al
\* presionar su boton."); but a card with random bytes in its payload draws others.
PreviewSentUnlessSalted ==
    \A s \in Sent : sends[s].card \notin SaltedCards => sends[s].frame = sends[s].preview

\* There is never more than one socket, or one about to be made.
OneSocket == timers = 0 \/ (timers = 1 /\ socket = "closed")

\* When the server can be reached for good, the page is connected for good.
ConnectsWhenReachable == <>[]reachable /\ transport = "ws" => <>[](socket = "open")
================================================================================
