---------------------------- MODULE MCCardExchange -----------------------------
(***************************************************************************)
(* The messages of CardExchange for TLC.  All fields of a message have     *)
(* values of different lengths and contents, and then one field at a time  *)
(* takes each of the values that may be difficult.                         *)
(***************************************************************************)
EXTENDS CardExchange, TLC

Id(fourth) == [i \in 1..16 |-> IF i = 4 THEN fourth ELSE 60 + i]
PlainId == Id(50)

\* A fourth byte that is an opcode of the node, of an event, of Samsara; an id that
\* begins as a response of the node or as an event, or ends as a success; zero; one that
\* repeats what a success goes on with; and one that is too short.
OddIds ==
    {Id(5), Id(14), Id(35), Zeros(3) \o SubSeq(Id(13), 4, 16),
     Zeros(3) \o SubSeq(Id(15), 4, 16), SubSeq(PlainId, 1, 12) \o <<0, 0, 0, 1>>,
     Zeros(16), [i \in 1..16 |-> IF i % 4 = 0 THEN 1 ELSE 0], SubSeq(PlainId, 1, 15)}

Numbers == [cellIndex |-> 258, dbSize |-> 16, genome |-> 1023, childGenome |-> 64,
            x |-> 7, y |-> 8, z |-> 9, cellIndexA |-> 3, cellIndexB |-> 4]
OddNumbers == {0, -1, Word - 1, Word, Radix, NaN}

Texts == [dbName |-> <<1, 2>>, key |-> <<3>>, value |-> <<4, 5, 6>>,
          secret |-> <<7, 8, 9, 10>>, secretA |-> <<11>>, secretB |-> <<12, 13>>,
          childSecret |-> <<14, 15, 16>>, addr |-> <<17, 18>>, topic |-> <<20, 21>>,
          cid |-> <<22, 23>>, peerId |-> <<24, 25, 26>>, message |-> <<27>>,
          data |-> <<28, 29>>]
OddTexts == {<< >>, <<1>>, <<65, 124, 44>>, Zeros(17)}

\* At the last length of 16 bits, and past it
LongTexts == {[i \in 1..(Radix * Radix - 1) |-> 90], [i \in 1..(Radix * Radix) |-> 91]}

Plain(name) ==
    ("id" :> PlainId) @@
    [f \in Fields(name) |->
        CASE f = "childSalt" -> [i \in 1..16 |-> 30 + i]
          [] f \in DOMAIN Numbers -> Numbers[f]
          [] OTHER -> Texts[f]]

Odd(name, f) ==
    CASE f = "id" -> OddIds
      [] f = "childSalt" -> {Zeros(16)}
      [] f = "genome" -> OddNumbers \cup {2 ^ bit : bit \in 0..11}
      [] f \in DOMAIN Numbers -> OddNumbers
      [] f = "peerId" /\ name = "DIRECT_MSG" -> OddTexts \cup LongTexts
      [] OTHER -> OddTexts

MCMessages ==
    [name \in Names |->
        {Plain(name)} \cup
        UNION {{[Plain(name) EXCEPT ![f] = value] : value \in Odd(name, f)} :
               f \in {"id"} \cup Fields(name)}]

MCCuts == {<<name, Plain(name)>> : name \in Names}

Status == [id |-> Zeros(16), status |-> 1]
Values == {<<1, 2, 3>>, << >>, <<0, 0, 0, 1>>, Zeros(15), Zeros(16)}
Cell == [genome |-> 1023, x |-> 1, y |-> 2, z |-> Word - 1]

MCResults ==
    [name \in Names |->
        CASE name \in {"CREATE_DB", "DELETE_DB", "WRITE", "DELETE"} -> {Status}
          [] name = "READ" -> {Status @@ [cellIndex |-> 5, value |-> v] : v \in Values}
          [] name = "READ_FREE" -> {Status @@ [value |-> v] : v \in Values}
          [] name = "READ_CELL" ->
                {Status @@ [cell |-> Null, value |-> v] : v \in Values}
                    \cup {Status @@ [cell |-> Cell]}
          [] name \in {"DIFERIR", "CRUZAR"} -> {Status @@ [cellIndex |-> Radix]}
          [] name \in {"PEERS", "FIND_PROVIDERS"} ->
                {[id |-> Zeros(16), data |-> d] : d \in {<< >>, <<<<1, 2>>>>, <<<<1>>, <<3, 4>>>>}}
          [] name = "GENERATE_CID" ->
                {[id |-> Zeros(16), data |-> d] : d \in {<< >>, <<1, 2>>, <<44>>}}
          [] OTHER -> {[id |-> Zeros(16)]}]

MCEvents ==
    {[name |-> "EVENT_PUBSUB", id |-> id, data |-> d] :
        id \in {PlainId, Id(35), Zeros(16)}, d \in {<<1, 2>>, << >>}}
    \cup {[name |-> "EVENT_DIRECT_MSG", id |-> PlainId, peerId |-> p, data |-> d] :
            p \in {<<5, 6>>, << >>}, d \in {<<1, 2>>, << >>}}
    \cup {[name |-> "EVENT_PEER_FOUND", id |-> Zeros(16), peerId |-> p] : p \in {<<5, 6>>, << >>}}
================================================================================
