----------------------------- MODULE ClientBridge ------------------------------
(***************************************************************************)
(* Client mode: each WebSocket connection is served by a goroutine that    *)
(* reads frames one by one (handleClientWebSocket).  A synap2p frame is    *)
(* registered and given to the node without waiting (DispatchToSession);   *)
(* the router writes the answer to the connection itself, and writes every *)
(* event to all the connections.  Writes to one connection are serialised  *)
(* by wsSession.mu.                                                        *)
(***************************************************************************)
EXTENDS SynapBridge, FiniteSets

CONSTANTS
    Sessions,   \* connections, each a wsSession of its own
    NoSession,  \* absence of a session
    Stallable,  \* the connections whose peer may stop reading
    MaxFrames   \* bound: MaxFrames[s] is how many frames s ever carries

\* The i-th frame of a connection is a call of its own.
ASSUME CallsAssumption ==
    Calls = UNION {{s} \X (1..MaxFrames[s]) : s \in Sessions}
ASSUME NoSessionAssumption == NoSession \notin Sessions
ASSUME StallableAssumption == Stallable \subseteq Sessions
ASSUME MaxFramesAssumption == MaxFrames \in [Sessions -> Nat]

VARIABLES
    sessions,       \* bridge.sessions
    conn,           \* conn[s]: the connection, as its peer and the network leave it
    wsPc,           \* wsPc[s]: where the goroutine of s is
    turn,           \* turn[s]: how many frames it has read
    locked,         \* locked[s]: s.mu is held
    inbox,          \* inbox[s]: the frames of the node the peer has been sent
    routerTo,       \* the session writeBinary is called for by the router
    routerWriting,  \* the router holds the lock of routerTo
    broadcastTo     \* the rest of the snapshot broadcast is going through

sessionVars == <<sessions, conn, wsPc, turn, locked, inbox>>
deliveryVars == <<routerTo, routerWriting, broadcastTo>>
vars == <<bridgeVars, sessionVars, deliveryVars>>

\* A stalled peer has stopped reading, so that a write to it blocks.
ConnStates == {"none", "open", "stalled", "gone"}

WsPcs == {"new", "joining", "reading", "processing", "failed", "responding",
          "writing", "leaving", "closing", "closed"}

Init ==
    /\ BridgeInit
    /\ sessions = {}
    /\ conn = [s \in Sessions |-> "none"]
    /\ wsPc = [s \in Sessions |-> "new"]
    /\ turn = [s \in Sessions |-> 0]
    /\ locked = [s \in Sessions |-> FALSE]
    /\ inbox = [s \in Sessions |-> << >>]
    /\ routerTo = NoSession
    /\ routerWriting = FALSE
    /\ broadcastTo = {}

SessionOf(c) == c[1]
Current(s) == <<s, turn[s]>>
Upcoming(s) == <<s, turn[s] + 1>>

\* The bridge variables that no step of a session changes
routerVars == <<frameId, events, emitted, ctxDone,
                routerPc, routerFrame, routerTarget, deliveryVars>>

Goto(s, from, to) ==
    /\ wsPc[s] = from
    /\ wsPc' = [wsPc EXCEPT ![s] = to]

--------------------------------------------------------------------------------
(***************************************************************************)
(* The goroutine of one connection.                                        *)
(***************************************************************************)
Upgrade(s) ==
    /\ Goto(s, "new", "joining")
    /\ conn' = [conn EXCEPT ![s] = "open"]
    /\ UNCHANGED <<routerVars, pending, asked, sessions, turn, locked, inbox>>

addSession(s) ==
    /\ Goto(s, "joining", "reading")
    /\ sessions' = sessions \cup {s}
    /\ UNCHANGED <<routerVars, pending, asked, conn, turn, locked, inbox>>

\* ReadMessage may hand out a frame that arrived before the connection broke.
ReadFrame(s) ==
    /\ turn[s] < MaxFrames[s]
    /\ turn' = [turn EXCEPT ![s] = @ + 1]
    /\ UNCHANGED <<routerVars, asked, sessions, conn, locked, inbox>>

\* A frame for Samsara, or one classifyFrame rejects: answered on the spot.
ReadLocal(s) ==
    /\ Goto(s, "reading", "responding")
    /\ ReadFrame(s)
    /\ UNCHANGED pending

\* A frame for the node: DispatchToSession begins by registering it.
ReadRegister(s) ==
    /\ Goto(s, "reading", "processing")
    /\ ReadFrame(s)
    /\ registerPending(Upcoming(s))

ReadRefuse(s) ==
    /\ Goto(s, "reading", "responding")
    /\ ReadFrame(s)
    /\ registerRefused(Upcoming(s))

ProcessAccepts(s) ==
    /\ Goto(s, "processing", "reading")
    /\ asked' = asked \cup {Current(s)}
    /\ UNCHANGED <<routerVars, pending, sessions, conn, turn, locked, inbox>>

ProcessFails(s) ==
    /\ Goto(s, "processing", "failed")
    /\ UNCHANGED <<routerVars, pending, asked, sessions, conn, turn, locked, inbox>>

\* Wrong: reports the failure and leaves the entry in
DropFailedLeaks(s) ==
    /\ Goto(s, "failed", "responding")
    /\ UNCHANGED <<routerVars, pending, asked, sessions, conn, turn, locked, inbox>>

DropFailed(s) ==
    /\ Goto(s, "failed", "responding")
    /\ removePending(Current(s))
    /\ UNCHANGED <<routerVars, asked, sessions, conn, turn, locked, inbox>>

\* writeBinary, for a response made without the node
LockToRespond(s) ==
    /\ Goto(s, "responding", "writing")
    /\ ~locked[s]
    /\ locked' = [locked EXCEPT ![s] = TRUE]
    /\ UNCHANGED <<routerVars, pending, asked, sessions, conn, turn, inbox>>

\* Wrong: returns with the lock held
WriteResponseKeepsLock(s) ==
    /\ Goto(s, "writing", "reading")
    /\ conn[s] # "stalled"
    /\ UNCHANGED <<routerVars, pending, asked, sessions, conn, turn, locked, inbox>>

\* WriteMessage returns when the peer takes the bytes or is found gone.
WriteResponse(s) ==
    /\ Goto(s, "writing", "reading")
    /\ conn[s] # "stalled"
    /\ locked' = [locked EXCEPT ![s] = FALSE]
    /\ UNCHANGED <<routerVars, pending, asked, sessions, conn, turn, inbox>>

\* ReadMessage fails: the connection broke.
ReadBroken(s) ==
    /\ conn[s] = "gone"
    /\ Goto(s, "reading", "leaving")
    /\ UNCHANGED <<routerVars, pending, asked, sessions, conn, turn, locked, inbox>>

\* ReadMessage fails: a close frame, or bytes that are no WebSocket frame.
ReadClosed(s) ==
    /\ Goto(s, "reading", "leaving")
    /\ UNCHANGED <<routerVars, pending, asked, sessions, conn, turn, locked, inbox>>

\* Wrong: leaves the bridge without sweeping the table
removeSessionOnly(s) ==
    /\ Goto(s, "leaving", "closing")
    /\ sessions' = sessions \ {s}
    /\ UNCHANGED <<routerVars, pending, asked, conn, turn, locked, inbox>>

removeSession(s) ==
    /\ Goto(s, "leaving", "closing")
    /\ sessions' = sessions \ {s}
    /\ pending' = [k \in Ids |->
                     IF Registered(k) /\ SessionOf(pending[k]) = s THEN NoCall ELSE pending[k]]
    /\ UNCHANGED <<routerVars, asked, conn, turn, locked, inbox>>

CloseConn(s) ==
    /\ Goto(s, "closing", "closed")
    /\ conn' = [conn EXCEPT ![s] = "gone"]
    /\ UNCHANGED <<routerVars, pending, asked, sessions, turn, locked, inbox>>

\* What s does of itself, given that the node returns from Process
SessionStep(s) ==
    \/ addSession(s)
    \/ ProcessAccepts(s)
    \/ ProcessFails(s)
    \/ DropFailed(s)
    \/ LockToRespond(s)
    \/ WriteResponse(s)
    \/ ReadBroken(s)
    \/ removeSession(s)
    \/ CloseConn(s)

\* What s does when its peer sends something
SessionReads(s) == ReadLocal(s) \/ ReadRegister(s) \/ ReadRefuse(s) \/ ReadClosed(s)

--------------------------------------------------------------------------------
(***************************************************************************)
(* The peers and the network (external).                                   *)
(***************************************************************************)
SetConn(s, from, to) ==
    /\ conn[s] \in from
    /\ conn' = [conn EXCEPT ![s] = to]
    /\ UNCHANGED <<bridgeVars, sessions, wsPc, turn, locked, inbox, deliveryVars>>

Stall(s)      == s \in Stallable /\ SetConn(s, {"open"}, "stalled")
Resume(s)     == SetConn(s, {"stalled"}, "open")
Disconnect(s) == SetConn(s, {"open", "stalled"}, "gone")

Peer(s) == Stall(s) \/ Resume(s) \/ Disconnect(s)

--------------------------------------------------------------------------------
(***************************************************************************)
(* The router's deliveries.  writeBinary is called outside bridge.mu: the  *)
(* session may have left the bridge since its entry was popped, or since   *)
(* broadcast took its snapshot.                                            *)
(***************************************************************************)
RouteToSession ==
    /\ RouteAnswer
    /\ routerTo' = SessionOf(pending[Key(routerFrame)])
    /\ UNCHANGED <<sessionVars, routerWriting, broadcastTo>>

\* broadcast calls writeBinary for the next session of its snapshot, in the
\* order the map gives them, or returns.
WriteNext(snapshot) ==
    \/ /\ snapshot = {}
       /\ ReturnToSelect
       /\ routerTo' = NoSession
       /\ broadcastTo' = {}
    \/ /\ \E s \in snapshot : routerTo' = s /\ broadcastTo' = snapshot \ {s}
       /\ routerPc' = "broadcast"
       /\ UNCHANGED <<routerFrame, routerTarget>>

Broadcast ==
    /\ routerPc = "route"
    /\ routerFrame.kind = "event"
    /\ WriteNext(sessions)
    /\ UNCHANGED <<frameId, pending, asked, events, emitted, ctxDone,
                   sessionVars, routerWriting>>

\* Wrong: writes without the lock of the session
RouterTakesLock ==
    /\ routerPc \in {"send", "broadcast"}
    /\ ~routerWriting
    /\ locked' = [locked EXCEPT ![routerTo] = TRUE]
    /\ routerWriting' = TRUE
    /\ UNCHANGED <<bridgeVars, sessions, conn, wsPc, turn, inbox, routerTo, broadcastTo>>

RouterLock ==
    /\ routerPc \in {"send", "broadcast"}
    /\ ~routerWriting
    /\ ~locked[routerTo]
    /\ locked' = [locked EXCEPT ![routerTo] = TRUE]
    /\ routerWriting' = TRUE
    /\ UNCHANGED <<bridgeVars, sessions, conn, wsPc, turn, inbox, routerTo, broadcastTo>>

\* Wrong: skips a peer that is slow
RouterWriteSkips ==
    /\ routerWriting
    /\ \/ /\ conn[routerTo] = "open"
          /\ inbox' = [inbox EXCEPT ![routerTo] = Append(@, routerFrame)]
       \/ /\ conn[routerTo] \in {"stalled", "gone"}
          /\ UNCHANGED inbox
    /\ locked' = [locked EXCEPT ![routerTo] = FALSE]
    /\ routerWriting' = FALSE
    /\ WriteNext(broadcastTo)
    /\ UNCHANGED <<frameId, pending, asked, events, emitted, ctxDone,
                   sessions, conn, wsPc, turn>>

\* An error of WriteMessage is ignored.
RouterWrite ==
    /\ routerWriting
    /\ \/ /\ conn[routerTo] = "open"
          /\ inbox' = [inbox EXCEPT ![routerTo] = Append(@, routerFrame)]
       \/ /\ conn[routerTo] = "gone"
          /\ UNCHANGED inbox
    /\ locked' = [locked EXCEPT ![routerTo] = FALSE]
    /\ routerWriting' = FALSE
    /\ WriteNext(broadcastTo)
    /\ UNCHANGED <<frameId, pending, asked, events, emitted, ctxDone,
                   sessions, conn, wsPc, turn>>

RouterStep ==
    \/ (RouterReceive \/ RouterStop \/ RouteNowhere) /\ UNCHANGED <<sessionVars, deliveryVars>>
    \/ RouteToSession
    \/ Broadcast
    \/ RouterLock
    \/ RouterWrite

Finished ==
    /\ routerPc = "stopped"
    /\ \A s \in Sessions : wsPc[s] = "closed"
    /\ UNCHANGED vars

Next ==
    \/ \E s \in Sessions : Upgrade(s) \/ SessionReads(s) \/ SessionStep(s) \/ Peer(s)
    \/ RouterStep
    \/ (NodeNext \/ Cancel) /\ UNCHANGED <<sessionVars, deliveryVars>>
    \/ Finished

(***************************************************************************)
(* Goroutines keep running and Process returns.  Nothing is assumed of the *)
(* peers: one may never send, never read again, or never go away.          *)
(***************************************************************************)
Fairness ==
    /\ \A s \in Sessions : WF_vars(SessionStep(s))
    /\ WF_vars(RouterStep)

Spec == Init /\ [][Next]_vars /\ Fairness

--------------------------------------------------------------------------------
TypeOK ==
    /\ BridgeTypeOK
    /\ sessions \subseteq Sessions
    /\ conn \in [Sessions -> ConnStates]
    /\ wsPc \in [Sessions -> WsPcs]
    /\ turn \in [Sessions -> Nat]
    /\ \A s \in Sessions : turn[s] <= MaxFrames[s]
    /\ locked \in [Sessions -> BOOLEAN]
    /\ inbox \in [Sessions -> Seq(Frame)]
    /\ routerTo \in Sessions \cup {NoSession}
    /\ routerWriting \in BOOLEAN
    /\ broadcastTo \subseteq Sessions

(***************************************************************************)
(* Every entry belongs to a session that is still in the bridge, and is a  *)
(* frame that session has read: removeSession leaves nothing behind        *)
(* (synap_bridge.go:100) and nothing registers for a session that left.    *)
(* An entry that outlived its session would stay for ever, as nothing      *)
(* times it out, and refuse its id to every later connection.              *)
(***************************************************************************)
OwnersConnected ==
    \A k \in Ids : Registered(k) =>
        LET c == pending[k] IN
        /\ frameId[c] = k
        /\ SessionOf(c) \in sessions
        /\ c[2] <= turn[SessionOf(c)]

(***************************************************************************)
(* Every entry waits for the answer to a frame the node has taken, but for *)
(* the one frame a session is handing to it: if Process fails the entry    *)
(* goes before the session reads on (synap_bridge.go:83), although it is   *)
(* taken out by id and the router or another session may have been at that *)
(* id since.  An entry for a frame the node never took would refuse its id *)
(* while the connection lasts, as nothing would answer it.                 *)
(***************************************************************************)
EntriesAwaited ==
    \A k \in Ids : Registered(k) =>
        LET c == pending[k]
            s == SessionOf(c)
        IN  c \notin asked => wsPc[s] \in {"processing", "failed"} /\ c = Current(s)

(***************************************************************************)
(* The router and the goroutine of a connection never write to it at the   *)
(* same time (server.go:360): the WebSocket library allows one writer.     *)
(***************************************************************************)
WriteExclusive ==
    \A s \in Sessions : ~(wsPc[s] = "writing" /\ routerWriting /\ routerTo = s)

\* The answers the peer of s has been sent in which the router read the id k
AnswersFor(s, k) ==
    {i \in 1..Len(inbox[s]) : inbox[s][i].kind = "answer" /\ Key(inbox[s][i]) = k}

\* The frames with id k that s has read
FramesWith(s, k) == {i \in 1..turn[s] : frameId[<<s, i>>] = k}

(***************************************************************************)
(* A peer is sent answers only to ids it has itself used, as the router    *)
(* reads them, and no more of them than it sent frames with the id,        *)
(* however often the node answers and whoever else uses the id: popPending *)
(* takes the entry out with its lookup (synap_bridge.go:150).              *)
(***************************************************************************)
OneAnswerPerFrame ==
    \A s \in Sessions : \A k \in Ids :
        Cardinality(AnswersFor(s, k)) <= Cardinality(FramesWith(s, k))

(***************************************************************************)
(* From the first event a peer is sent on, it is sent every event, once    *)
(* and in the order the node made them: a broadcast waits for a slow peer  *)
(* rather than skip it (synap_bridge.go:168).                              *)
(***************************************************************************)
EventsWithoutGaps ==
    \A s \in Sessions : \A i, j \in 1..Len(inbox[s]) :
        /\ i < j
        /\ inbox[s][i].kind = "event" /\ inbox[s][j].kind = "event"
        /\ \A m \in i + 1..j - 1 : inbox[s][m].kind # "event"
        => inbox[s][j].num = inbox[s][i].num + 1

(***************************************************************************)
(* A connection that is gone is noticed: its session leaves the bridge,    *)
(* its entries are swept and its goroutine ends, even if the router was    *)
(* writing to it (server.go:287).                                          *)
(***************************************************************************)
GoneIsSwept ==
    \A s \in Sessions :
        (conn[s] = "gone") ~>
            /\ wsPc[s] = "closed"
            /\ s \notin sessions
            /\ \A k \in Ids : Registered(k) => SessionOf(pending[k]) # s

(***************************************************************************)
(* Only a peer that has stopped reading can keep the router away from its  *)
(* select (server.go:363 sets no write deadline): when in the end no peer  *)
(* is stalled, the router comes back again and again, or has stopped.      *)
(***************************************************************************)
RouterFreeUnlessStalled ==
    <>[](\A s \in Sessions : conn[s] # "stalled") =>
        []<>(routerPc \in {"select", "stopped"})

(***************************************************************************)
(* While the program runs, the wait for an answer of the node ends, as the *)
(* comment on request_timeout in config.client.production.yaml says.       *)
(* DispatchToSession starts no timer (synap_bridge.go:75).                 *)
(***************************************************************************)
WsRequestSettles ==
    \A c \in Calls : (pending[frameId[c]] = c /\ ~ctxDone) ~>
                        (pending[frameId[c]] # c \/ ctxDone)
================================================================================
