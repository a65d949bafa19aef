---------------------------- MODULE CardsPageProofs ----------------------------
(***************************************************************************)
(* The page, for any cards, clicks and ids: which card a response is shown *)
(* under, what the table of pending requests holds, when an id is sent     *)
(* again, and that there is never more than one socket.                    *)
(***************************************************************************)
EXTENDS CardsPage, TLAPS

CardIdsDistinct == \A c, d \in Cards : card[c].id = card[d].id => c = d

\* The preview is the frame of what the card holds now.
PreviewFresh == \A c \in Cards : card[c].preview \in BuiltFrames(c, card[c].id, card[c].text)

\* What a click has recorded
SentOk ==
    /\ \A s \in Sends : sends[s].status = "unsent" => sends[s].title = "none"
    /\ \A s \in Sent : sends[s].card \in Cards /\ sends[s].id \in Ids

\* A request whose id a card still holds is one that this card made and that is not over.
SendOfCard ==
    \A s \in Sent, c \in Cards : sends[s].id = card[c].id =>
        sends[s].card = c /\ sends[s].status = "flying" /\ transport = "http"

\* Requests with one id are of one card.
SameIdSameCard ==
    \A s, t \in Sent : sends[s].id = sends[t].id => sends[s].card = sends[t].card

HttpNoSocket == transport = "http" => socket = "closed" /\ timers = 0

Inductive ==
    /\ TypeOK
    /\ CardIdsDistinct
    /\ PreviewFresh
    /\ SentOk
    /\ SendOfCard
    /\ SameIdSameCard
    /\ HttpNoSocket
    /\ OneSocket
    /\ FlyingRemembered
    /\ PendingAccounted
    /\ ShownUnderItsCard
    /\ PreviewSentUnlessSalted

Requests == [card : Cards \cup {NoCard}, id : Ids \cup {NoId}, status : Statuses,
             preview : Frames \cup {NoFrame}, frame : Frames \cup {NoFrame}, title : Titles]

LEMMA InitInductive == Init => Inductive
<1> SUFFICES ASSUME Init PROVE Inductive
    OBVIOUS
<1>1. PICK text \in Texts :
        card \in {f \in [Cards -> [id : Ids, text : {text}, preview : Frames]] :
                    /\ \A c \in Cards : f[c].preview \in BuiltFrames(c, f[c].id, text)
                    /\ \A c, d \in Cards : f[c].id = f[d].id => c = d}
    BY DEF Init
<1>2. card \in [Cards -> [id : Ids, text : Texts, preview : Frames]]
    BY <1>1
<1>3. CardIdsDistinct /\ PreviewFresh
    BY <1>1 DEF CardIdsDistinct, PreviewFresh
<1>4. sends = [s \in Sends |-> Unsent] /\ Sent = {}
    BY DEF Init, Unsent, Sent
<1>5. Unsent \in Requests
    BY DEF Unsent, Requests, Statuses, Titles
<1>6. TypeOK
    BY <1>2, <1>4, <1>5 DEF Init, TypeOK, Requests
<1>7. SentOk /\ SendOfCard /\ SameIdSameCard /\ PreviewSentUnlessSalted
    BY <1>4 DEF SentOk, SendOfCard, SameIdSameCard, PreviewSentUnlessSalted, Unsent
<1>8. HttpNoSocket /\ OneSocket
    BY DEF Init, HttpNoSocket, OneSocket
<1>9. FlyingRemembered /\ PendingAccounted /\ ShownUnderItsCard
    BY <1>4 DEF Init, FlyingRemembered, PendingAccounted, ShownUnderItsCard, Unsent
<1> QED  BY <1>2, <1>3, <1>6, <1>7, <1>8, <1>9 DEF Inductive

--------------------------------------------------------------------------------
(***************************************************************************)
(* A card: the id that Renew draws is in no card and in no request.        *)
(***************************************************************************)
LEMMA RenewedCard ==
    ASSUME TypeOK, CardIdsDistinct, PreviewFresh, NEW c \in Cards, Renew(c)
    PROVE  /\ card' \in [Cards -> [id : Ids, text : Texts, preview : Frames]]
           /\ Fresh(card'[c].id)
           /\ \A d \in Cards : d # c => card'[d] = card[d]
           /\ CardIdsDistinct' /\ PreviewFresh'
<1>1. PICK id \in Ids : /\ Fresh(id)
                        /\ \E preview \in BuiltFrames(c, id, card[c].text) :
                             card' = [card EXCEPT ![c] = [@ EXCEPT !.id = id, !.preview = preview]]
    BY DEF Renew
<1>2. PICK preview \in BuiltFrames(c, id, card[c].text) :
        card' = [card EXCEPT ![c] = [@ EXCEPT !.id = id, !.preview = preview]]
    BY <1>1
<1>3. card[c] \in [id : Ids, text : Texts, preview : Frames]
    BY DEF TypeOK
<1>4. preview \in Frames
    BY <1>3 DEF BuiltFrames, SaltsOf, Frames
<1>5. card'[c] = [card[c] EXCEPT !.id = id, !.preview = preview]
    BY <1>2 DEF TypeOK
<1>6. /\ card'[c] \in [id : Ids, text : Texts, preview : Frames]
      /\ card'[c].id = id /\ card'[c].preview = preview /\ card'[c].text = card[c].text
    BY <1>3, <1>4, <1>5
<1>7. \A d \in Cards : d # c => card'[d] = card[d]
    BY <1>2 DEF TypeOK
<1>8. card' \in [Cards -> [id : Ids, text : Texts, preview : Frames]]
    BY <1>2, <1>6, <1>7 DEF TypeOK
<1>9. CardIdsDistinct'
    BY <1>1, <1>6, <1>7 DEF CardIdsDistinct, Fresh
<1>10. PreviewFresh'
    BY <1>6, <1>7 DEF PreviewFresh, BuiltFrames, SaltsOf
<1> QED  BY <1>1, <1>6, <1>7, <1>8, <1>9, <1>10

LEMMA EditedCard ==
    ASSUME TypeOK, CardIdsDistinct, PreviewFresh, NEW c \in Cards, NEW text \in Texts,
           Edit(c, text)
    PROVE  /\ card' \in [Cards -> [id : Ids, text : Texts, preview : Frames]]
           /\ \A d \in Cards : card'[d].id = card[d].id
           /\ CardIdsDistinct' /\ PreviewFresh'
<1>1. PICK preview \in BuiltFrames(c, card[c].id, text) :
        card' = [card EXCEPT ![c] = [@ EXCEPT !.text = text, !.preview = preview]]
    BY DEF Edit
<1>2. card[c] \in [id : Ids, text : Texts, preview : Frames]
    BY DEF TypeOK
<1>3. preview \in Frames
    BY <1>2 DEF BuiltFrames, SaltsOf, Frames
<1>4. card'[c] = [card[c] EXCEPT !.text = text, !.preview = preview]
    BY <1>1 DEF TypeOK
<1>5. /\ card'[c] \in [id : Ids, text : Texts, preview : Frames]
      /\ card'[c].id = card[c].id /\ card'[c].preview = preview /\ card'[c].text = text
    BY <1>2, <1>3, <1>4
<1>6. \A d \in Cards : d # c => card'[d] = card[d]
    BY <1>1 DEF TypeOK
<1>7. card' \in [Cards -> [id : Ids, text : Texts, preview : Frames]]
    BY <1>1, <1>5, <1>6 DEF TypeOK
<1>8. \A d \in Cards : card'[d].id = card[d].id
    BY <1>5, <1>6
<1>9. CardIdsDistinct'
    BY <1>8 DEF CardIdsDistinct
<1>10. PreviewFresh'
    BY <1>5, <1>6 DEF PreviewFresh, BuiltFrames, SaltsOf
<1> QED  BY <1>7, <1>8, <1>9, <1>10

--------------------------------------------------------------------------------
(***************************************************************************)
(* A click records what its card holds, and touches no other request.      *)
(***************************************************************************)
Clicked(s, c, status) ==
    /\ s \in Sends /\ c \in Cards /\ s \notin Sent
    /\ sends' \in [Sends -> Requests]
    /\ sends'[s].card = c /\ sends'[s].id = card[c].id
    /\ sends'[s].status = status /\ sends'[s].title = "none"
    /\ sends'[s].preview = card[c].preview
    /\ sends'[s].frame \in BuiltFrames(c, card[c].id, card[c].text)
    /\ \A t \in Sends : t # s => sends'[t] = sends[t]

LEMMA RequestClicks ==
    ASSUME TypeOK, NEW s \in Sends, NEW c \in Cards,
           NEW status \in {"flying", "refused"}, Request(s, c, status)
    PROVE  Clicked(s, c, status)
<1>1. PICK frame \in BuiltFrames(c, card[c].id, card[c].text) :
        sends' = [sends EXCEPT ![s] =
                    [card |-> c, id |-> card[c].id, status |-> status,
                     preview |-> card[c].preview, frame |-> frame, title |-> "none"]]
    BY DEF Request
<1>2. card[c] \in [id : Ids, text : Texts, preview : Frames]
    BY DEF TypeOK
<1>3. frame \in Frames
    BY <1>2 DEF BuiltFrames, SaltsOf, Frames
<1>4. [card |-> c, id |-> card[c].id, status |-> status, preview |-> card[c].preview,
       frame |-> frame, title |-> "none"] \in Requests
    BY <1>2, <1>3 DEF Requests, Statuses, Titles
<1>5. sends \in [Sends -> Requests]
    BY DEF TypeOK, Requests
<1>6. sends'[s] = [card |-> c, id |-> card[c].id, status |-> status,
                   preview |-> card[c].preview, frame |-> frame, title |-> "none"]
    BY <1>1, <1>5
<1>7. \A t \in Sends : t # s => sends'[t] = sends[t]
    BY <1>1, <1>5
<1>8. sends' \in [Sends -> Requests]
    BY <1>1, <1>4, <1>5
<1> QED  BY <1>1, <1>6, <1>7, <1>8 DEF Clicked, Request

\* The id of the card's last request is in the table of a click that is on its way,
\* and out of the table of one that was refused.
LEMMA ClickStep ==
    ASSUME Inductive, NEW s \in Sends, NEW c \in Cards, NEW status \in {"flying", "refused"},
           Clicked(s, c, status),
           \/ status = "flying" /\ pending' = rememberPending(card[c].id, c)
           \/ status = "refused" /\ pending' = consumePending(card[c].id) /\ transport = "ws",
           \/ transport = "http" /\ card' = card
           \/ transport = "ws" /\ Renew(c),
           UNCHANGED <<transport, socket, timers, reachable>>
    PROVE  Inductive'
<1> USE DEF Inductive
<1>1. /\ card' \in [Cards -> [id : Ids, text : Texts, preview : Frames]]
      /\ CardIdsDistinct' /\ PreviewFresh'
  <2>1. CASE card' = card
      BY <2>1 DEF TypeOK, CardIdsDistinct, PreviewFresh, BuiltFrames, SaltsOf
  <2>2. CASE Renew(c)
      BY <2>2, RenewedCard
  <2> QED  BY <2>1, <2>2
<1>2. card[c].id \in Ids /\ sends'[s].id = card[c].id /\ sends'[s].card = c
    BY DEF TypeOK, Clicked
<1>3. \A t \in Sends : t \in Sent' <=> t = s \/ t \in Sent
    BY DEF Sent, Clicked
<1>4. \A t \in Sent : t \in Sends /\ t # s /\ sends'[t] = sends[t]
    BY DEF Sent, Clicked
<1>5. \A id \in Ids : pending'[id] = IF id = card[c].id
                                     THEN IF status = "flying" THEN c ELSE NoCard
                                     ELSE pending[id]
    BY <1>2 DEF TypeOK, rememberPending, consumePending
<1>6. TypeOK'
  <2>1. pending' \in [Ids -> Cards \cup {NoCard}]
      BY DEF TypeOK, rememberPending, consumePending
  <2>2. sends' \in [Sends -> Requests]
      BY DEF Clicked
  <2>3. /\ transport' \in {"http", "ws"} /\ socket' \in {"connecting", "open", "closed"}
        /\ timers' \in Nat /\ reachable' \in BOOLEAN
      BY DEF TypeOK
  <2> QED  BY <1>1, <2>1, <2>2, <2>3 DEF TypeOK, Requests
<1>7. SentOk'
    BY <1>2, <1>3, <1>4 DEF SentOk, Sent, Clicked
<1>8. \A t \in Sent : sends[t].id = card[c].id =>
          sends[t].card = c /\ sends[t].status = "flying" /\ transport = "http"
    BY DEF SendOfCard
<1>9. SendOfCard'
  <2> SUFFICES ASSUME NEW t \in Sends, t \in Sent', NEW d \in Cards, sends'[t].id = card'[d].id
               PROVE  sends'[t].card = d /\ sends'[t].status = "flying" /\ transport = "http"
      BY DEF SendOfCard, Sent
  <2>1. CASE transport = "http"
    <3>1. card' = card /\ status = "flying"
        BY <2>1
    <3>2. CASE t = s
        BY <1>2, <2>1, <3>1, <3>2 DEF CardIdsDistinct, Clicked
    <3>3. CASE t \in Sent
        BY <1>4, <2>1, <3>1, <3>3 DEF SendOfCard
    <3> QED  BY <1>3, <3>2, <3>3
  <2>2. CASE transport = "ws"
    <3>1. Fresh(card'[c].id) /\ \A e \in Cards : e # c => card'[e] = card[e]
        BY <2>2, RenewedCard
    <3>2. sends'[t].id = IF t = s THEN card[c].id ELSE sends[t].id
        BY <1>2 DEF Clicked
    <3>3. CASE d = c
        BY <1>3, <3>1, <3>2, <3>3 DEF Fresh
    <3>4. CASE d # c /\ t = s
        BY <3>1, <3>2, <3>4 DEF CardIdsDistinct
    <3>5. CASE d # c /\ t \in Sent /\ t # s
        BY <2>2, <3>1, <3>2, <3>5 DEF SendOfCard
    <3> QED  BY <1>3, <3>3, <3>4, <3>5
  <2> QED  BY <2>1, <2>2
<1>10. SameIdSameCard'
  <2> SUFFICES ASSUME NEW t \in Sent', NEW u \in Sent', sends'[t].id = sends'[u].id
               PROVE  sends'[t].card = sends'[u].card
      BY DEF SameIdSameCard
  <2>1. t \in Sends /\ u \in Sends
      BY DEF Sent
  <2>2. CASE t \in Sent /\ u \in Sent
      BY <1>4, <2>2 DEF SameIdSameCard
  <2>3. CASE t = s \/ u = s
      BY <1>2, <1>3, <1>4, <1>8, <2>1, <2>3
  <2> QED  BY <1>3, <2>1, <2>2, <2>3
<1>11. HttpNoSocket' /\ OneSocket'
  <2>1. socket' = socket /\ timers' = timers /\ transport' = transport
      OBVIOUS
  <2> QED  BY ONLY <2>1, HttpNoSocket, OneSocket DEF HttpNoSocket, OneSocket
<1>12. FlyingRemembered'
  <2> SUFFICES ASSUME NEW t \in Sends, sends'[t].status = "flying"
               PROVE  \/ pending'[sends'[t].id] = sends'[t].card
                      \/ \E u \in Sends : Twins(t, u)' /\ sends'[u].status \in {"shown", "failed"}
      BY DEF FlyingRemembered
  <2>1. CASE t = s
      BY <1>2, <1>5, <2>1 DEF Clicked
  <2>2. CASE t # s /\ sends[t].id = card[c].id
    <3>1. t \in Sent /\ sends'[t] = sends[t]
        BY <2>2 DEF Sent, Clicked
    <3> QED  BY <1>2, <1>5, <1>8, <2>2, <3>1
  <2>3. CASE t # s /\ sends[t].id # card[c].id
    <3>1. t \in Sent /\ sends'[t] = sends[t] /\ sends[t].id \in Ids
        BY <2>3 DEF Sent, Clicked, SentOk
    <3>2. CASE pending[sends[t].id] = sends[t].card
        BY <1>5, <2>3, <3>1, <3>2
    <3>3. ASSUME NEW u \in Sends, Twins(t, u), sends[u].status \in {"shown", "failed"}
          PROVE  Twins(t, u)' /\ sends'[u].status \in {"shown", "failed"}
        BY <1>3, <1>4, <3>1, <3>3 DEF Twins
    <3> QED  BY <3>1, <3>2, <3>3 DEF FlyingRemembered
  <2> QED  BY <2>1, <2>2, <2>3
<1>13. PendingAccounted'
  <2> SUFFICES ASSUME NEW id \in Ids, pending'[id] # NoCard
               PROVE  \E t \in Sends :
                        /\ sends'[t].id = id /\ sends'[t].card = pending'[id]
                        /\ \/ sends'[t].status \in {"flying", "lost"}
                           \/ sends'[t].title \in {"misread", "text"}
      BY DEF PendingAccounted
  <2>1. CASE id = card[c].id
      BY <1>2, <1>5, <2>1 DEF Clicked
  <2>2. CASE id # card[c].id
    <3>1. PICK t \in Sends :
            /\ sends[t].id = id /\ sends[t].card = pending[id]
            /\ sends[t].status \in {"flying", "lost"} \/ sends[t].title \in {"misread", "text"}
        BY <1>5, <2>2 DEF PendingAccounted
    <3>2. t \in Sent
        BY <3>1 DEF SentOk, Sent
    <3> QED  BY <1>4, <1>5, <2>2, <3>1, <3>2
  <2> QED  BY <2>1, <2>2
<1>14. ShownUnderItsCard'
  <2> SUFFICES ASSUME NEW t \in Sends, sends'[t].status = "shown"
               PROVE  \/ sends'[t].title \in {sends'[t].card, "text"}
                      \/ sends'[t].title = "misread" /\ sends'[t].id \in Confusable
                      \/ sends'[t].title = "response" /\ \E u \in Sends : Twins(t, u)'
      BY DEF ShownUnderItsCard
  <2>1. t # s /\ t \in Sent /\ sends'[t] = sends[t]
      BY DEF Clicked, Sent
  <2>2. ASSUME NEW u \in Sends, Twins(t, u) PROVE Twins(t, u)'
      BY <1>3, <1>4, <2>2 DEF Twins
  <2> QED  BY <2>1, <2>2 DEF ShownUnderItsCard
<1>15. PreviewSentUnlessSalted'
  <2> SUFFICES ASSUME NEW t \in Sends, t \in Sent', sends'[t].card \notin SaltedCards
               PROVE  sends'[t].frame = sends'[t].preview
      BY DEF PreviewSentUnlessSalted, Sent
  <2>1. CASE t = s
    <3>1. /\ sends'[s].frame \in BuiltFrames(c, card[c].id, card[c].text)
          /\ sends'[s].preview \in BuiltFrames(c, card[c].id, card[c].text)
          /\ SaltsOf(c) = {NoSalt}
        BY <2>1 DEF Clicked, PreviewFresh, SaltsOf
    <3> QED  BY <2>1, <3>1 DEF BuiltFrames
  <2>2. CASE t \in Sent
      BY <1>4, <2>2 DEF PreviewSentUnlessSalted
  <2> QED  BY <1>3, <2>1, <2>2
<1> QED
    BY <1>1, <1>6, <1>7, <1>9, <1>10, <1>11, <1>12, <1>13, <1>14, <1>15

--------------------------------------------------------------------------------
(***************************************************************************)
(* The end of a request on its way: its answer, a text or a failure.       *)
(***************************************************************************)
Answered(s) ==
    /\ s \in Sends /\ sends[s].status = "flying"
    /\ sends' \in [Sends -> Requests]
    /\ sends'[s].card = sends[s].card /\ sends'[s].id = sends[s].id
    /\ sends'[s].preview = sends[s].preview /\ sends'[s].frame = sends[s].frame
    /\ sends'[s].status \in {"shown", "failed"}
    /\ \A t \in Sends : t # s => sends'[t] = sends[t]
    /\ \/ pending' = consumePending(sends[s].id)
       \/ pending' = pending /\ sends'[s].title \in {"misread", "text"}
    /\ sends'[s].status = "shown" =>
        \/ sends'[s].title \in {sends[s].card, "text"}
        \/ sends'[s].title = "misread" /\ sends[s].id \in Confusable
        \/ sends'[s].title = "response" /\ \E t \in Sends : Twins(s, t)
    /\ \/ transport = "http" /\ Renew(sends[s].card)
       \/ transport = "ws" /\ card' = card
    /\ UNCHANGED <<transport, socket, timers, reachable>>

\* An entry of the table is of the card that sent the id.
LEMMA PendingOwn ==
    ASSUME Inductive, NEW s \in Sent, pending[sends[s].id] # NoCard
    PROVE  pending[sends[s].id] = sends[s].card
<1>1. sends[s].id \in Ids
    BY DEF Inductive, SentOk
<1>2. PICK t \in Sends :
        /\ sends[t].id = sends[s].id /\ sends[t].card = pending[sends[s].id]
        /\ sends[t].status \in {"flying", "lost"} \/ sends[t].title \in {"misread", "text"}
    BY <1>1 DEF Inductive, PendingAccounted
<1>3. t \in Sent
    BY <1>2 DEF Inductive, SentOk, Sent
<1> QED  BY <1>2, <1>3 DEF Inductive, SameIdSameCard

LEMMA InspectAnswers ==
    ASSUME Inductive, NEW s \in Sends, sends[s].status = "flying", NEW layout \in Layouts(s),
           Inspect(s, layout),
           \/ transport = "http" /\ Renew(sends[s].card)
           \/ transport = "ws" /\ card' = card,
           UNCHANGED <<transport, socket, timers, reachable>>
    PROVE  Answered(s)
<1> DEFINE id == sends[s].id
           title == CASE Misread(s, layout) -> "misread"
                      [] layout = "opcodeFirst" -> sends[s].card
                      [] layout = "idFirst" /\ ~Misread(s, layout) ->
                           IF pending[id] = NoCard THEN "response" ELSE pending[id]
<1>1. s \in Sent /\ sends[s].card \in Cards /\ id \in Ids /\ sends[s] \in Requests
    BY DEF Inductive, TypeOK, Requests, SentOk, Sent
<1>2. sends' = [sends EXCEPT ![s].status = "shown", ![s].title = title]
    BY DEF Inspect
<1>3. sends'[s] = [sends[s] EXCEPT !.status = "shown", !.title = title]
    BY <1>2 DEF Inductive, TypeOK
<1>4. \A t \in Sends : t # s => sends'[t] = sends[t]
    BY <1>2 DEF Inductive, TypeOK
<1>5. Misread(s, layout) => title = "misread" /\ id \in Confusable
    BY DEF Misread
<1>6. ~Misread(s, layout) => \/ title = sends[s].card
                             \/ title = "response" /\ pending[id] = NoCard
  <2>1. layout \in {"idFirst", "opcodeFirst"} /\ "idFirst" # "opcodeFirst"
      BY DEF Layouts
  <2>2. pending[id] # NoCard => pending[id] = sends[s].card
      BY <1>1, PendingOwn
  <2>3. CASE layout = "opcodeFirst"
      BY <2>1, <2>3
  <2>4. CASE layout = "idFirst"
      BY <2>1, <2>2, <2>4
  <2> QED  BY <2>1, <2>3, <2>4
<1>7. pending[id] = NoCard => \E t \in Sends : Twins(s, t)
    BY <1>1, CardsAssumption DEF Inductive, FlyingRemembered
<1>8. title \in Titles
    BY <1>1, <1>5, <1>6 DEF Titles
<1> HIDE DEF title
<1>9. sends'[s] \in Requests /\ sends'[s].status = "shown" /\ sends'[s].title = title
      /\ sends'[s].card = sends[s].card /\ sends'[s].id = sends[s].id
      /\ sends'[s].preview = sends[s].preview /\ sends'[s].frame = sends[s].frame
    BY <1>1, <1>3, <1>8 DEF Requests, Statuses
<1>10. sends' \in [Sends -> Requests]
  <2>1. sends' = [t \in Sends |-> sends'[t]]
      BY <1>2 DEF Inductive, TypeOK
  <2>2. \A t \in Sends : sends'[t] \in Requests
      BY <1>4, <1>9 DEF Inductive, TypeOK, Requests
  <2> QED  BY <2>1, <2>2
<1>11. IF Misread(s, layout) THEN pending' = pending ELSE pending' = consumePending(id)
    BY DEF Inspect
<1> QED  BY <1>4, <1>5, <1>6, <1>7, <1>9, <1>10, <1>11 DEF Answered

LEMMA TextAnswers ==
    ASSUME Inductive, NEW s \in Sends, TextHttp(s) \/ FailHttp(s) PROVE Answered(s)
<1>1. sends[s] \in Requests /\ sends[s].status = "flying" /\ transport = "http"
    BY DEF Inductive, TypeOK, Requests, TextHttp, FailHttp
<1>2. ASSUME TextHttp(s) PROVE Answered(s)
  <2>1. sends'[s] = [sends[s] EXCEPT !.status = "shown", !.title = "text"]
      BY <1>2 DEF Inductive, TypeOK, TextHttp
  <2>2. /\ sends'[s] \in Requests /\ sends'[s].status = "shown" /\ sends'[s].title = "text"
        /\ sends'[s].card = sends[s].card /\ sends'[s].id = sends[s].id
        /\ sends'[s].preview = sends[s].preview /\ sends'[s].frame = sends[s].frame
      BY <1>1, <2>1 DEF Requests, Statuses, Titles
  <2>3. \A t \in Sends : t # s => sends'[t] = sends[t]
      BY <1>2 DEF Inductive, TypeOK, TextHttp
  <2>4. sends' \in [Sends -> Requests]
      BY <1>2, <2>2, <2>3 DEF Inductive, TypeOK, Requests, TextHttp
  <2> QED  BY <1>1, <1>2, <2>2, <2>3, <2>4 DEF Answered, TextHttp
<1>3. ASSUME FailHttp(s) PROVE Answered(s)
  <2>1. sends'[s] = [sends[s] EXCEPT !.status = "failed"]
      BY <1>3 DEF Inductive, TypeOK, FailHttp
  <2>2. /\ sends'[s] \in Requests /\ sends'[s].status = "failed"
        /\ sends'[s].card = sends[s].card /\ sends'[s].id = sends[s].id
        /\ sends'[s].preview = sends[s].preview /\ sends'[s].frame = sends[s].frame
      BY <1>1, <2>1 DEF Requests, Statuses
  <2>3. \A t \in Sends : t # s => sends'[t] = sends[t]
      BY <1>3 DEF Inductive, TypeOK, FailHttp
  <2>4. sends' \in [Sends -> Requests]
      BY <1>3, <2>2, <2>3 DEF Inductive, TypeOK, Requests, FailHttp
  <2> QED  BY <1>1, <1>3, <2>2, <2>3, <2>4 DEF Answered, FailHttp
<1> QED  BY <1>2, <1>3

\* A request that is over leaves the others as they are, and its twins as witnesses of
\* the entry it used up.
LEMMA AnswerStep == ASSUME Inductive, NEW s \in Sends, Answered(s) PROVE Inductive'
<1> USE DEF Inductive
<1>1. /\ s \in Sent /\ sends[s].card \in Cards /\ sends[s].id \in Ids
      /\ card' \in [Cards -> [id : Ids, text : Texts, preview : Frames]]
      /\ CardIdsDistinct' /\ PreviewFresh'
  <2>1. s \in Sent /\ sends[s].card \in Cards /\ sends[s].id \in Ids
      BY DEF Answered, Sent, SentOk
  <2>2. CASE card' = card
      BY <2>1, <2>2 DEF TypeOK, CardIdsDistinct, PreviewFresh, BuiltFrames, SaltsOf
  <2>3. CASE Renew(sends[s].card)
      BY <2>1, <2>3, RenewedCard
  <2> QED  BY <2>1, <2>2, <2>3 DEF Answered
<1>2. Sent' = Sent
    BY <1>1 DEF Sent, Answered
<1>3. \A t \in Sends : /\ sends'[t].card = sends[t].card /\ sends'[t].id = sends[t].id
                       /\ sends'[t].preview = sends[t].preview /\ sends'[t].frame = sends[t].frame
                       /\ t # s => sends'[t] = sends[t]
    BY DEF Answered
<1>4. \A t, u : Twins(t, u)' <=> Twins(t, u)
    BY <1>2, <1>3 DEF Twins, Sent
<1>5. TypeOK'
  <2>1. pending' \in [Ids -> Cards \cup {NoCard}]
      BY DEF TypeOK, Answered, consumePending
  <2>2. sends' \in [Sends -> Requests]
      BY DEF Answered
  <2>3. /\ transport' \in {"http", "ws"} /\ socket' \in {"connecting", "open", "closed"}
        /\ timers' \in Nat /\ reachable' \in BOOLEAN
      BY DEF TypeOK, Answered
  <2> QED  BY <1>1, <2>1, <2>2, <2>3 DEF TypeOK, Requests
<1>6. SentOk'
  <2>1. sends'[s].status # "unsent"
      BY DEF Answered
  <2> QED  BY <1>2, <1>3, <2>1 DEF SentOk, Sent
<1>7. SendOfCard'
  <2> SUFFICES ASSUME NEW t \in Sends, t \in Sent, NEW d \in Cards, sends[t].id = card'[d].id
               PROVE  sends'[t].card = d /\ sends'[t].status = "flying" /\ transport = "http"
      BY <1>2, <1>3 DEF SendOfCard, Sent, Answered
  <2>1. CASE transport = "http" /\ Renew(sends[s].card)
    <3>1. Fresh(card'[sends[s].card].id) /\ \A e \in Cards : e # sends[s].card => card'[e] = card[e]
        BY <1>1, <2>1, RenewedCard
    <3>2. d # sends[s].card
        BY <3>1 DEF Fresh
    <3>3. sends[t].card = d /\ sends[t].status = "flying"
        BY <3>1, <3>2 DEF SendOfCard
    <3> QED  BY <1>3, <2>1, <3>2, <3>3
  <2>2. CASE transport = "ws" /\ card' = card
      BY <2>2 DEF SendOfCard
  <2> QED  BY <2>1, <2>2 DEF Answered
<1>8. SameIdSameCard'
    BY <1>2, <1>3 DEF SameIdSameCard, Sent
<1>9. HttpNoSocket' /\ OneSocket'
  <2>1. socket' = socket /\ timers' = timers /\ transport' = transport
      BY DEF Answered
  <2> QED  BY ONLY <2>1, HttpNoSocket, OneSocket DEF HttpNoSocket, OneSocket
<1>10. FlyingRemembered'
  <2> SUFFICES ASSUME NEW t \in Sends, sends'[t].status = "flying"
               PROVE  \/ pending'[sends[t].id] = sends[t].card
                      \/ \E u \in Sends : Twins(t, u) /\ sends'[u].status \in {"shown", "failed"}
      BY <1>3, <1>4 DEF FlyingRemembered
  <2>1. t # s /\ sends[t].status = "flying" /\ t \in Sent /\ sends[t].id \in Ids
      BY <1>3 DEF Answered, Sent, SentOk
  <2>2. CASE sends[t].id = sends[s].id
    <3>1. Twins(t, s) /\ sends'[s].status \in {"shown", "failed"}
        BY <1>1, <2>1, <2>2 DEF Twins, Answered
    <3> QED  BY <3>1
  <2>3. CASE sends[t].id # sends[s].id
    <3>1. pending'[sends[t].id] = pending[sends[t].id]
        BY <2>1, <2>3 DEF Answered, consumePending, TypeOK
    <3>2. ASSUME NEW u \in Sends, Twins(t, u), sends[u].status \in {"shown", "failed"}
          PROVE  sends'[u].status \in {"shown", "failed"}
        BY <1>3, <2>3, <3>2 DEF Twins
    <3> QED  BY <2>1, <3>1, <3>2 DEF FlyingRemembered
  <2> QED  BY <2>2, <2>3
<1>11. PendingAccounted'
  <2> SUFFICES ASSUME NEW id \in Ids, pending'[id] # NoCard
               PROVE  \E t \in Sends :
                        /\ sends'[t].id = id /\ sends'[t].card = pending'[id]
                        /\ \/ sends'[t].status \in {"flying", "lost"}
                           \/ sends'[t].title \in {"misread", "text"}
      BY DEF PendingAccounted
  <2>1. pending'[id] = pending[id]
      BY DEF Answered, consumePending, TypeOK
  <2>2. PICK t \in Sends :
            /\ sends[t].id = id /\ sends[t].card = pending[id]
            /\ sends[t].status \in {"flying", "lost"} \/ sends[t].title \in {"misread", "text"}
      BY <2>1 DEF PendingAccounted
  <2>3. CASE t = s
    <3>1. pending' # consumePending(sends[s].id)
        BY <2>2, <2>3 DEF consumePending, TypeOK
    <3>2. sends'[s].title \in {"misread", "text"}
        BY <3>1 DEF Answered
    <3> QED  BY <1>3, <2>1, <2>2, <2>3, <3>2
  <2>4. CASE t # s
      BY <1>3, <2>1, <2>2, <2>4
  <2> QED  BY <2>3, <2>4
<1>12. ShownUnderItsCard'
  <2> SUFFICES ASSUME NEW t \in Sends, sends'[t].status = "shown"
               PROVE  \/ sends'[t].title \in {sends[t].card, "text"}
                      \/ sends'[t].title = "misread" /\ sends[t].id \in Confusable
                      \/ sends'[t].title = "response" /\ \E u \in Sends : Twins(t, u)
      BY <1>3, <1>4 DEF ShownUnderItsCard
  <2>1. CASE t = s
      BY <2>1 DEF Answered
  <2>2. CASE t # s
      BY <1>3, <2>2 DEF ShownUnderItsCard
  <2> QED  BY <2>1, <2>2
<1>13. PreviewSentUnlessSalted'
    BY <1>2, <1>3 DEF PreviewSentUnlessSalted, Sent
<1> QED
    BY <1>1, <1>5, <1>6, <1>7, <1>8, <1>9, <1>10, <1>11, <1>12, <1>13

--------------------------------------------------------------------------------
(***************************************************************************)
(* What touches no request: an edit, and the socket.                       *)
(***************************************************************************)
\* The properties of the requests and of the table, which depend on nothing else
RequestsOk ==
    /\ SentOk /\ SameIdSameCard /\ FlyingRemembered /\ PendingAccounted
    /\ ShownUnderItsCard /\ PreviewSentUnlessSalted

LEMMA RequestsUnchanged ==
    ASSUME RequestsOk, UNCHANGED <<pending, sends>> PROVE RequestsOk'
BY DEF RequestsOk, SentOk, SameIdSameCard, FlyingRemembered, PendingAccounted, ShownUnderItsCard,
       PreviewSentUnlessSalted, Sent, Twins

LEMMA EditStep ==
    ASSUME Inductive, NEW c \in Cards, NEW text \in Texts, Edit(c, text) PROVE Inductive'
<1> USE DEF Inductive
<1>1. UNCHANGED <<transport, pending, sends, socket, timers, reachable>>
    BY DEF Edit
<1>2. RequestsOk'
    BY <1>1, RequestsUnchanged DEF RequestsOk
<1>3. /\ card' \in [Cards -> [id : Ids, text : Texts, preview : Frames]]
      /\ \A d \in Cards : card'[d].id = card[d].id
      /\ CardIdsDistinct' /\ PreviewFresh'
    BY EditedCard
<1>4. TypeOK'
    BY <1>1, <1>3 DEF TypeOK
<1>5. SendOfCard'
    BY <1>1, <1>3 DEF SendOfCard, Sent
<1>6. HttpNoSocket' /\ OneSocket'
  <2>1. socket' = socket /\ timers' = timers /\ transport' = transport
      BY <1>1
  <2> QED  BY ONLY <2>1, HttpNoSocket, OneSocket DEF HttpNoSocket, OneSocket
<1> QED  BY <1>2, <1>3, <1>4, <1>5, <1>6 DEF RequestsOk

LEMMA SocketStep ==
    ASSUME Inductive, OpenWs \/ connectSocket \/ NetworkChanges \/ UNCHANGED vars
    PROVE  Inductive'
<1> USE DEF Inductive
<1>1. UNCHANGED <<transport, card, pending, sends>>
    BY DEF OpenWs, connectSocket, NetworkChanges, vars
<1>2. RequestsOk'
    BY <1>1, RequestsUnchanged DEF RequestsOk
<1>3. CardIdsDistinct' /\ PreviewFresh' /\ SendOfCard'
    BY <1>1 DEF CardIdsDistinct, PreviewFresh, BuiltFrames, SaltsOf, SendOfCard, Sent
<1>4. timers \in Nat
    BY DEF TypeOK
<1>5. /\ socket' \in {"connecting", "open", "closed"} /\ timers' \in Nat
      /\ HttpNoSocket' /\ OneSocket'
  <2>1. CASE OpenWs
    <3>1. socket = "connecting" /\ socket' = "open" /\ timers' = timers
        BY <2>1 DEF OpenWs
    <3> QED  BY ONLY <1>1, <1>4, <3>1, HttpNoSocket, OneSocket DEF HttpNoSocket, OneSocket
  <2>2. CASE connectSocket
    <3>1. timers > 0 /\ timers' = timers - 1 /\ socket' = "connecting"
        BY <2>2 DEF connectSocket
    <3> QED  BY ONLY <1>1, <1>4, <3>1, HttpNoSocket, OneSocket DEF HttpNoSocket, OneSocket
  <2>3. CASE socket' = socket /\ timers' = timers
    <3>1. socket \in {"connecting", "open", "closed"}
        BY DEF TypeOK
    <3> QED  BY ONLY <1>1, <1>4, <2>3, <3>1, HttpNoSocket, OneSocket DEF HttpNoSocket, OneSocket
  <2> QED  BY <2>1, <2>2, <2>3 DEF NetworkChanges, vars
<1>6. reachable' \in BOOLEAN
    BY DEF TypeOK, OpenWs, connectSocket, NetworkChanges, vars
<1>7. TypeOK'
    BY <1>1, <1>5, <1>6 DEF TypeOK
<1> QED  BY <1>2, <1>3, <1>5, <1>7 DEF RequestsOk

\* With the socket all that is on its way is lost, and stays in the table.
LEMMA CloseStep == ASSUME Inductive, CloseWs PROVE Inductive'
<1> USE DEF Inductive
<1>1. UNCHANGED <<transport, card, pending, reachable>>
    BY DEF CloseWs
<1>2. timers = 0 /\ timers' = 1 /\ socket' = "closed" /\ transport # "http"
  <2>1. socket # "closed" /\ timers' = timers + 1 /\ socket' = "closed"
      BY DEF CloseWs, Reconnect
  <2> QED  BY ONLY <2>1, HttpNoSocket, OneSocket DEF HttpNoSocket, OneSocket
<1>3. \A t \in Sends :
        /\ sends'[t] \in Requests
        /\ sends'[t].card = sends[t].card /\ sends'[t].id = sends[t].id
        /\ sends'[t].preview = sends[t].preview /\ sends'[t].frame = sends[t].frame
        /\ sends'[t].title = sends[t].title
        /\ sends'[t].status = IF sends[t].status = "flying" THEN "lost" ELSE sends[t].status
  <2> SUFFICES ASSUME NEW t \in Sends
               PROVE  /\ sends'[t] \in Requests
                      /\ sends'[t].card = sends[t].card /\ sends'[t].id = sends[t].id
                      /\ sends'[t].preview = sends[t].preview /\ sends'[t].frame = sends[t].frame
                      /\ sends'[t].title = sends[t].title
                      /\ sends'[t].status = IF sends[t].status = "flying" THEN "lost"
                                            ELSE sends[t].status
      OBVIOUS
  <2>1. sends[t] \in Requests
      BY DEF TypeOK, Requests
  <2>2. sends'[t] = IF sends[t].status = "flying" THEN [sends[t] EXCEPT !.status = "lost"]
                    ELSE sends[t]
      BY DEF CloseWs
  <2> QED  BY <2>1, <2>2 DEF Requests, Statuses
<1>4. sends' \in [Sends -> Requests]
    BY <1>3 DEF CloseWs
<1>5. TypeOK'
    BY <1>1, <1>2, <1>4 DEF TypeOK, Requests
<1>6. Sent' = Sent
    BY <1>3 DEF Sent
<1>7. \A t, u : Twins(t, u)' <=> Twins(t, u)
    BY <1>3, <1>6 DEF Twins, Sent
<1>8. CardIdsDistinct' /\ PreviewFresh'
    BY <1>1 DEF CardIdsDistinct, PreviewFresh, BuiltFrames, SaltsOf
<1>9. SentOk' /\ SameIdSameCard' /\ PreviewSentUnlessSalted'
    BY <1>3, <1>6 DEF SentOk, SameIdSameCard, PreviewSentUnlessSalted, Sent
<1>10. SendOfCard'
    BY <1>1, <1>2, <1>3, <1>6 DEF SendOfCard, Sent
<1>11. HttpNoSocket' /\ OneSocket'
    BY <1>1, <1>2 DEF HttpNoSocket, OneSocket
<1>12. FlyingRemembered'
    BY <1>3 DEF FlyingRemembered
<1>13. PendingAccounted'
  <2> SUFFICES ASSUME NEW id \in Ids, pending[id] # NoCard
               PROVE  \E t \in Sends :
                        /\ sends'[t].id = id /\ sends'[t].card = pending[id]
                        /\ \/ sends'[t].status \in {"flying", "lost"}
                           \/ sends'[t].title \in {"misread", "text"}
      BY <1>1 DEF PendingAccounted
  <2>1. PICK t \in Sends :
            /\ sends[t].id = id /\ sends[t].card = pending[id]
            /\ sends[t].status \in {"flying", "lost"} \/ sends[t].title \in {"misread", "text"}
      BY DEF PendingAccounted
  <2> QED  BY <1>3, <2>1
<1>14. ShownUnderItsCard'
    BY <1>3, <1>7 DEF ShownUnderItsCard
<1> QED
    BY <1>5, <1>8, <1>9, <1>10, <1>11, <1>12, <1>13, <1>14

--------------------------------------------------------------------------------
(***************************************************************************)
(* The actions, each as one of these steps.                                *)
(***************************************************************************)
LEMMA ClickActions ==
    ASSUME Inductive, NEW s \in Sends, NEW c \in Cards,
           ClickHttp(s, c) \/ ClickOpen(s, c) \/ ClickClosed(s, c)
    PROVE  Inductive' /\ \E status \in {"flying", "refused"} : Clicked(s, c, status)
<1>1. ASSUME ClickHttp(s, c) PROVE Clicked(s, c, "flying") /\ Inductive'
  <2>1. Clicked(s, c, "flying")
      BY <1>1, RequestClicks DEF Inductive, ClickHttp
  <2> QED  BY <1>1, <2>1, ClickStep DEF ClickHttp
<1>2. ASSUME ClickOpen(s, c) PROVE Clicked(s, c, "flying") /\ Inductive'
  <2>1. Clicked(s, c, "flying")
      BY <1>2, RequestClicks DEF Inductive, ClickOpen
  <2> QED  BY <1>2, <2>1, ClickStep DEF ClickOpen
<1>3. ASSUME ClickClosed(s, c) PROVE Clicked(s, c, "refused") /\ Inductive'
  <2>1. Clicked(s, c, "refused")
      BY <1>3, RequestClicks DEF Inductive, ClickClosed
  <2> QED  BY <1>3, <2>1, ClickStep DEF ClickClosed
<1> QED  BY <1>1, <1>2, <1>3

LEMMA AnswerActions ==
    ASSUME Inductive, NEW s \in Sends,
           ResponseHttp(s) \/ TextHttp(s) \/ FailHttp(s) \/ MessageWs(s)
    PROVE  Answered(s)
<1>1. ASSUME ResponseHttp(s) PROVE Answered(s)
  <2>1. PICK layout \in Layouts(s) : Inspect(s, layout)
      BY <1>1 DEF ResponseHttp
  <2> QED  BY <1>1, <2>1, InspectAnswers DEF ResponseHttp
<1>2. ASSUME MessageWs(s) PROVE Answered(s)
  <2>1. PICK layout \in Layouts(s) : Inspect(s, layout)
      BY <1>2 DEF MessageWs
  <2> QED  BY <1>2, <2>1, InspectAnswers DEF MessageWs
<1> QED  BY <1>1, <1>2, TextAnswers

LEMMA StepInductive == Inductive /\ [Next]_vars => Inductive'
<1> SUFFICES ASSUME Inductive, [Next]_vars PROVE Inductive'
    OBVIOUS
<1>1. ASSUME NEW c \in Cards, NEW text \in Texts, Edit(c, text) PROVE Inductive'
    BY <1>1, EditStep
<1>2. ASSUME NEW s \in Sends, NEW c \in Cards,
             ClickHttp(s, c) \/ ClickOpen(s, c) \/ ClickClosed(s, c)
      PROVE  Inductive'
    BY <1>2, ClickActions
<1>3. ASSUME NEW s \in Sends, ResponseHttp(s) \/ TextHttp(s) \/ FailHttp(s) \/ MessageWs(s)
      PROVE  Inductive'
    BY <1>3, AnswerActions, AnswerStep
<1>4. CASE OpenWs \/ connectSocket \/ NetworkChanges \/ UNCHANGED vars
    BY <1>4, SocketStep
<1>5. CASE CloseWs
    BY <1>5, CloseStep
<1> QED  BY <1>1, <1>2, <1>3, <1>4, <1>5 DEF Next, Quiet

LEMMA InductiveAlways == Spec => []Inductive
BY InitInductive, StepInductive, PTL DEF Spec

--------------------------------------------------------------------------------
(***************************************************************************)
(* The theorems.                                                           *)
(***************************************************************************)
\* The state of the page is well-typed, whatever is clicked and whatever comes back.
THEOREM TypeCorrect == Spec => []TypeOK
<1>1. Inductive => TypeOK
    BY DEF Inductive
<1> QED  BY <1>1, InductiveAlways, PTL

\* A response is shown under the card that asked, but for confusable ids and twins.
THEOREM ShownRight == Spec => []ShownUnderItsCard
<1>1. Inductive => ShownUnderItsCard
    BY DEF Inductive
<1> QED  BY <1>1, InductiveAlways, PTL

\* pending has the card of every request on its way, or a twin of it is over; and
\* what else is in it is of a request that was lost, misread, or answered by a text.
THEOREM TableMatches == Spec => []PendingMatchesSends
<1>1. Inductive => PendingMatchesSends
    BY DEF Inductive, PendingMatchesSends
<1> QED  BY <1>1, InductiveAlways, PTL

\* The frame sent is the frame shown, for a card without random bytes in its payload.
THEOREM SentAsShown == Spec => []PreviewSentUnlessSalted
<1>1. Inductive => PreviewSentUnlessSalted
    BY DEF Inductive
<1> QED  BY <1>1, InductiveAlways, PTL

\* connectSocket is never due while a socket is open, or due twice.
THEOREM SocketUnique == Spec => []OneSocket
<1>1. Inductive => OneSocket
    BY DEF Inductive
<1> QED  BY <1>1, InductiveAlways, PTL

\* A second click sends an id again only while the first waits over HTTP.
THEOREM IdsReused == Spec => IdsSentAgainOnlyInFlight
<1> DEFINE Reused(s, t) ==
        s \notin Sent /\ s \in Sent' /\ t \in Sent /\ sends'[s].id = sends[t].id
            => transport = "http" /\ sends[t].status = "flying"
                 /\ sends'[s].card = sends[t].card
<1>1. Inductive /\ [Next]_vars => [\A s, t \in Sends : Reused(s, t)]_vars
  <2> SUFFICES ASSUME Inductive, Next, NEW s \in Sends, NEW t \in Sends, s \notin Sent, s \in Sent',
                      t \in Sent, sends'[s].id = sends[t].id
               PROVE  transport = "http" /\ sends[t].status = "flying"
                        /\ sends'[s].card = sends[t].card
      OBVIOUS
  <2>1. ASSUME NEW u \in Sends, NEW c \in Cards,
               ClickHttp(u, c) \/ ClickOpen(u, c) \/ ClickClosed(u, c)
        PROVE  transport = "http" /\ sends[t].status = "flying" /\ sends'[s].card = sends[t].card
    <3>1. PICK status \in {"flying", "refused"} : Clicked(u, c, status)
        BY <2>1, ClickActions
    <3>2. s = u
        BY <3>1 DEF Clicked, Sent
    <3>3. sends'[s].card = c /\ sends'[s].id = card[c].id
        BY <3>1, <3>2 DEF Clicked
    <3>4. sends[t].id = card[c].id
        BY <3>3
    <3>5. sends[t].card = c /\ sends[t].status = "flying" /\ transport = "http"
        BY <3>4 DEF Inductive, SendOfCard
    <3> QED  BY <3>3, <3>5
  <2>2. ASSUME NEW u \in Sends, ResponseHttp(u) \/ TextHttp(u) \/ FailHttp(u) \/ MessageWs(u)
        PROVE  FALSE
    <3>1. Answered(u)
        BY <2>2, AnswerActions
    <3> QED  BY <3>1 DEF Answered, Sent
  <2>3. CASE CloseWs
      BY <2>3 DEF CloseWs, Sent
  <2>4. ASSUME sends' = sends PROVE FALSE
      BY <2>4 DEF Sent
  <2> QED
      BY <2>1, <2>2, <2>3, <2>4 DEF Next, Edit, OpenWs, connectSocket, NetworkChanges, Quiet, vars
<1> QED  BY <1>1, InductiveAlways, PTL DEF Spec, IdsSentAgainOnlyInFlight
================================================================================
