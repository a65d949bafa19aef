---------------------------- MODULE RequestService -----------------------------
(***************************************************************************)
(* What the server promises to a client that POSTs synap2p frames, without *)
(* pending table, channels, router or timers: a request that is let in is  *)
(* given exactly one reply, and the reply is truthful.                     *)
(***************************************************************************)
CONSTANTS Calls, Ids, ReadAs, NoCall

VARIABLES
    id,      \* id[c]: the id of the request of call c
    phase,   \* phase[c]: outside the server, inside it, or replied to
    taken,   \* the calls whose frame the node has accepted
    reply    \* reply[c]: the reply given to c

serviceVars == <<id, phase, taken, reply>>

Phases == {"idle", "open", "replied"}

Init ==
    /\ id \in [Calls -> Ids]
    /\ phase = [c \in Calls |-> "idle"]
    /\ taken = {}
    /\ reply = [c \in Calls |-> [code |-> "none", by |-> NoCall]]

Submit(c) ==
    /\ phase[c] = "idle"
    /\ phase' = [phase EXCEPT ![c] = "open"]
    /\ UNCHANGED <<id, taken, reply>>

Conclude(c, code, by) ==
    /\ phase' = [phase EXCEPT ![c] = "replied"]
    /\ reply' = [reply EXCEPT ![c] = [code |-> code, by |-> by]]
    /\ UNCHANGED <<id, taken>>

\* A duplicate is refused only while a request with the same id is inside.
RefuseDuplicate(c) ==
    /\ phase[c] = "idle"
    /\ \E d \in Calls \ {c} : id[d] = id[c] /\ phase[d] = "open"
    /\ Conclude(c, "duplicate", c)

NodeTakes(c) ==
    /\ phase[c] = "open"
    /\ c \notin taken
    /\ taken' = taken \cup {c}
    /\ UNCHANGED <<id, phase, reply>>

\* The reply is what the node answered to a request with this id, or with one that
\* can be read as this one.
GiveAnswer(c) ==
    /\ phase[c] = "open"
    /\ c \in taken
    /\ \E d \in taken : id[c] \in ReadAs[id[d]] /\ Conclude(c, "answer", d)

\* The node has the request but the wait for its answer is over.
GiveTimeout(c) ==
    /\ phase[c] = "open"
    /\ c \in taken
    /\ Conclude(c, "timeout", c)

\* The node would not take the request.
GiveNodeFailed(c) ==
    /\ phase[c] = "open"
    /\ c \notin taken
    /\ Conclude(c, "nodeFailed", c)

Give(c) == GiveAnswer(c) \/ GiveTimeout(c) \/ GiveNodeFailed(c)

Next == \E c \in Calls :
    Submit(c) \/ RefuseDuplicate(c) \/ NodeTakes(c) \/ Give(c)

(***************************************************************************)
(* Every request let in is replied to.                                     *)
(***************************************************************************)
Spec == Init /\ [][Next]_serviceVars
             /\ \A c \in Calls : WF_serviceVars(Give(c))
================================================================================
