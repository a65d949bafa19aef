-------------------------- MODULE ClientBridgeProofs ---------------------------
(***************************************************************************)
(* Client mode, for any number of connections, frames and events: typing,  *)
(* the exclusion of writers, that no entry outlives its session or the     *)
(* refusal of its frame, that a frame is answered at most once, and that   *)
(* events have no gaps.                                                    *)
(***************************************************************************)
EXTENDS ClientBridge, FiniteSetTheorems, TLAPS

\* The program counters between addSession and removeSession
Inside == {"reading", "processing", "failed", "responding", "writing", "leaving"}

\* The lock of a connection is held while one of the two that take it writes.
LockHeld ==
    \A s \in Sessions :
        locked[s] <=> wsPc[s] = "writing" \/ (routerWriting /\ routerTo = s)

\* The router is delivering exactly when it has a destination.
RouterAims ==
    /\ routerPc \in {"send", "broadcast"} <=> routerTo \in Sessions
    /\ routerWriting => routerPc \in {"send", "broadcast"}

\* A session that dispatches has read a frame.
Begun == \A s \in Sessions : wsPc[s] \in {"processing", "failed"} => turn[s] >= 1

\* bridge.sessions holds the sessions that are between their two calls.
Membership == \A s \in Sessions : s \in sessions <=> wsPc[s] \in Inside

Inductive ==
    /\ TypeOK
    /\ LockHeld
    /\ WriteExclusive
    /\ RouterAims
    /\ Begun
    /\ Membership
    /\ OwnersConnected
    /\ EntriesAwaited

--------------------------------------------------------------------------------
(***************************************************************************)
(* A call is a session and a number, and a session's next frame is a call. *)
(***************************************************************************)
LEMMA CallParts ==
    /\ \A c \in Calls : SessionOf(c) \in Sessions /\ c[2] \in Nat
    /\ \A s \in Sessions : \A i \in 1..MaxFrames[s] :
         <<s, i>> \in Calls /\ SessionOf(<<s, i>>) = s
<1>1. \A s \in Sessions : MaxFrames[s] \in Nat
    BY MaxFramesAssumption
<1>2. ASSUME NEW c \in Calls PROVE SessionOf(c) \in Sessions /\ c[2] \in Nat
  <2>1. PICK s \in Sessions : c \in {s} \X (1..MaxFrames[s])
      BY CallsAssumption
  <2>2. c[1] = s /\ c[2] \in 1..MaxFrames[s]
      BY <2>1
  <2> QED  BY <1>1, <2>2 DEF SessionOf
<1>3. ASSUME NEW s \in Sessions, NEW i \in 1..MaxFrames[s]
      PROVE  <<s, i>> \in Calls /\ SessionOf(<<s, i>>) = s
    BY CallsAssumption DEF SessionOf
<1> QED  BY <1>2, <1>3

LEMMA FramesTyped ==
    /\ \A c \in Calls, k \in Ids : Answer(c, k) \in Frame
    /\ \A n \in 0..MaxEvents : Event(n) \in Frame
    /\ Short \in Frame
BY MaxEventsAssumption DEF Answer, Event, Short, Frame

(***************************************************************************)
(* The frame the router routes is a frame, and an answer's key is an id.   *)
(***************************************************************************)
LEMMA RoutedKey ==
    ASSUME TypeOK, RouteAnswer
    PROVE  /\ Key(routerFrame) \in Ids
           /\ pending[Key(routerFrame)] \in Calls
<1>1. Key(routerFrame) \in Ids
    BY DEF TypeOK, BridgeTypeOK, RouteAnswer, Frame, Key
<1> QED  BY <1>1 DEF TypeOK, BridgeTypeOK, RouteAnswer, Registered

(***************************************************************************)
(* What NodeAnswer emits is an answer, with an id it can be read with.     *)
(***************************************************************************)
LEMMA AnswerEmitted ==
    ASSUME BridgeTypeOK, NodeAnswer
    PROVE  \E c \in Calls, k \in Ids : Answer(c, k) \in Frame /\ Emit(Answer(c, k))
<1>1. PICK c \in asked : \E k \in ReadAs[frameId[c]] : Emit(Answer(c, k))
    BY DEF NodeAnswer
<1>2. c \in Calls /\ frameId[c] \in Ids
    BY DEF BridgeTypeOK
<1>3. PICK k \in ReadAs[frameId[c]] : Emit(Answer(c, k))
    BY <1>1
<1>4. k \in Ids
    BY <1>2, ReadAsAssumption
<1> QED  BY <1>2, <1>3, <1>4, FramesTyped

(***************************************************************************)
(* Reading a frame moves one session on by one, within its bound.          *)
(***************************************************************************)
LEMMA TurnAdvances ==
    ASSUME TypeOK, NEW s \in Sessions, ReadFrame(s)
    PROVE  /\ turn[s] \in Nat /\ turn'[s] = turn[s] + 1
           /\ turn[s] + 1 \in 1..MaxFrames[s]
           /\ \A t \in Sessions : t # s => turn'[t] = turn[t]
           /\ turn' \in [Sessions -> Nat]
           /\ \A t \in Sessions : turn'[t] <= MaxFrames[t] /\ turn[t] <= turn'[t]
<1>1. /\ turn \in [Sessions -> Nat] /\ turn[s] < MaxFrames[s]
      /\ \A t \in Sessions : turn[t] <= MaxFrames[t]
      /\ turn' = [turn EXCEPT ![s] = turn[s] + 1]
    BY DEF TypeOK, ReadFrame
<1>2. turn[s] \in Nat /\ MaxFrames[s] \in Nat
    BY <1>1, MaxFramesAssumption
<1>3. turn' \in [Sessions -> Nat] /\ turn'[s] = turn[s] + 1
    BY <1>1, <1>2
<1>4. \A t \in Sessions : t # s => turn'[t] = turn[t]
    BY <1>1
<1> QED  BY <1>1, <1>2, <1>3, <1>4

LEMMA InitInductive == Init => Inductive
<1> SUFFICES ASSUME Init PROVE Inductive
    OBVIOUS
<1>1. << >> \in Seq(Frame)
    OBVIOUS
<1>2. frameId \in [Calls -> Ids] /\ pending \in [Ids -> Calls \cup {NoCall}]
    BY DEF Init, BridgeInit
<1>3. asked \subseteq Calls /\ emitted \in 0..MaxEvents
    BY MaxEventsAssumption DEF Init, BridgeInit
<1>4. events \in Seq(Frame) /\ routerFrame \in Frame
    BY <1>1, FramesTyped DEF Init, BridgeInit
<1>5. BridgeTypeOK
    BY <1>2, <1>3, <1>4 DEF Init, BridgeInit, BridgeTypeOK
<1>6. turn \in [Sessions -> Nat] /\ \A s \in Sessions : turn[s] <= MaxFrames[s]
    BY MaxFramesAssumption DEF Init
<1>7. TypeOK
    BY <1>1, <1>5, <1>6 DEF Init, TypeOK, ConnStates, WsPcs
<1>8. LockHeld /\ WriteExclusive /\ RouterAims
    BY NoSessionAssumption DEF Init, BridgeInit, LockHeld, WriteExclusive, RouterAims
<1>9. Begun /\ Membership /\ OwnersConnected /\ EntriesAwaited
    BY DEF Init, BridgeInit, Begun, Membership, Inside, OwnersConnected, EntriesAwaited, Registered
<1> QED  BY <1>7, <1>8, <1>9 DEF Inductive

--------------------------------------------------------------------------------
(***************************************************************************)
(* Typing is preserved by every step.                                      *)
(***************************************************************************)
LEMMA StepTyped == Inductive /\ [Next]_vars => TypeOK'
<1> SUFFICES ASSUME Inductive, [Next]_vars PROVE TypeOK'
    OBVIOUS
<1> USE DEF Inductive, TypeOK, BridgeTypeOK
<1>1. ASSUME NEW s \in Sessions, Upgrade(s) PROVE TypeOK'
    BY <1>1 DEF Upgrade, Goto, routerVars, deliveryVars, WsPcs, ConnStates
<1>2. ASSUME NEW s \in Sessions, SessionReads(s) PROVE TypeOK'
  <2>1. CASE ReadClosed(s)
      BY <2>1 DEF ReadClosed, Goto, routerVars, deliveryVars, WsPcs
  <2>2. CASE ReadLocal(s) \/ ReadRegister(s) \/ ReadRefuse(s)
    <3>1. /\ turn' \in [Sessions -> Nat]
          /\ \A t \in Sessions : turn'[t] <= MaxFrames[t]
          /\ Upcoming(s) \in Calls
        BY <2>2, TurnAdvances, CallParts DEF ReadLocal, ReadRegister, ReadRefuse, Upcoming
    <3>2. pending' \in [Ids -> Calls \cup {NoCall}]
        BY <2>2, <3>1 DEF ReadLocal, ReadRegister, ReadRefuse, registerPending, registerRefused
    <3> QED
        BY <2>2, <3>1, <3>2 DEF ReadLocal, ReadRegister, ReadRefuse, ReadFrame, Goto,
                                routerVars, deliveryVars, WsPcs
  <2> QED  BY <1>2, <2>1, <2>2 DEF SessionReads
<1>3. ASSUME NEW s \in Sessions, ProcessAccepts(s) PROVE TypeOK'
  <2>1. Current(s) \in Calls
    <3>1. turn[s] \in 1..MaxFrames[s]
        BY <1>3, MaxFramesAssumption DEF ProcessAccepts, Goto, Begun
    <3> QED  BY <3>1, CallParts DEF Current
  <2> QED  BY <1>3, <2>1 DEF ProcessAccepts, Goto, routerVars, deliveryVars, WsPcs
<1>4. ASSUME NEW s \in Sessions, addSession(s) \/ ProcessFails(s) \/ LockToRespond(s)
                                \/ WriteResponse(s) \/ ReadBroken(s) \/ CloseConn(s)
      PROVE  TypeOK'
    BY <1>4 DEF addSession, ProcessFails, LockToRespond, WriteResponse, ReadBroken,
                CloseConn, Goto, routerVars, deliveryVars, WsPcs, ConnStates
<1>5. ASSUME NEW s \in Sessions, DropFailed(s) \/ removeSession(s) PROVE TypeOK'
    BY <1>5 DEF DropFailed, removeSession, removePending, Goto, routerVars, deliveryVars, WsPcs
<1>6. ASSUME NEW s \in Sessions, Peer(s) PROVE TypeOK'
    BY <1>6 DEF Peer, Stall, Resume, Disconnect, SetConn, bridgeVars, deliveryVars, ConnStates
<1>7. ASSUME RouterReceive, UNCHANGED <<sessionVars, deliveryVars>> PROVE TypeOK'
  <2>1. events' \in Seq(Frame) /\ routerFrame' \in Frame
      BY <1>7 DEF RouterReceive
  <2> QED  BY <1>7, <2>1 DEF RouterReceive, sessionVars, deliveryVars
<1>8. ASSUME RouterStop \/ RouteNowhere, UNCHANGED <<sessionVars, deliveryVars>> PROVE TypeOK'
    BY <1>8, FramesTyped DEF RouterStop, RouteNowhere, ReturnToSelect, sessionVars, deliveryVars
<1>9. ASSUME RouteToSession PROVE TypeOK'
  <2>1. Key(routerFrame) \in Ids /\ pending[Key(routerFrame)] \in Calls
      BY <1>9, RoutedKey DEF RouteToSession
  <2> QED  BY <1>9, <2>1, CallParts DEF RouteToSession, RouteAnswer, sessionVars
<1>10. ASSUME Broadcast PROVE TypeOK'
    BY <1>10, FramesTyped DEF Broadcast, WriteNext, ReturnToSelect, sessionVars
<1>11. ASSUME RouterLock PROVE TypeOK'
    BY <1>11 DEF RouterLock, bridgeVars
<1>12. ASSUME RouterWrite PROVE TypeOK'
  <2>1. inbox' \in [Sessions -> Seq(Frame)]
    <3>1. routerTo \in Sessions
        BY <1>12 DEF RouterWrite, RouterAims
    <3>2. Append(inbox[routerTo], routerFrame) \in Seq(Frame)
        BY <3>1
    <3>3. PICK sent \in Seq(Frame) : inbox' = inbox \/ inbox' = [inbox EXCEPT ![routerTo] = sent]
        BY <1>12, <3>2 DEF RouterWrite
    <3> QED  BY <3>3
  <2>2. locked' \in [Sessions -> BOOLEAN]
      BY <1>12 DEF RouterWrite
  <2> QED  BY <1>12, <2>1, <2>2, FramesTyped DEF RouterWrite, WriteNext, ReturnToSelect
<1>13. ASSUME NodeNext, UNCHANGED <<sessionVars, deliveryVars>> PROVE TypeOK'
  <2>1. events' \in Seq(Frame) /\ emitted' \in 0..MaxEvents
    <3>1. CASE NodeAnswer
        BY <3>1, AnswerEmitted DEF NodeAnswer, Emit
    <3>2. CASE NodeEvent
      <4>1. emitted + 1 \in 0..MaxEvents
          BY <3>2, MaxEventsAssumption DEF NodeEvent
      <4> QED  BY <3>2, <4>1, FramesTyped DEF NodeEvent, Emit
    <3>3. CASE NodeShort
        BY <3>3, FramesTyped DEF NodeShort, Emit
    <3> QED  BY <1>13, <3>1, <3>2, <3>3 DEF NodeNext
  <2> QED
      BY <1>13, <2>1 DEF NodeNext, NodeAnswer, NodeEvent, NodeShort, sessionVars, deliveryVars
<1>14. ASSUME Cancel, UNCHANGED <<sessionVars, deliveryVars>> PROVE TypeOK'
    BY <1>14 DEF Cancel, sessionVars, deliveryVars
<1>15. ASSUME Finished \/ UNCHANGED vars PROVE TypeOK'
    BY <1>15 DEF Finished, vars, bridgeVars, sessionVars, deliveryVars
<1> QED
    BY <1>1, <1>2, <1>3, <1>4, <1>5, <1>6, <1>7, <1>8, <1>9, <1>10, <1>11, <1>12, <1>13,
       <1>14, <1>15
    DEF Next, SessionStep, RouterStep

(***************************************************************************)
(* The lock is taken only when free and given back by its holder; the      *)
(* router keeps its destination while it writes.                           *)
(***************************************************************************)
LEMMA StepLocks == Inductive /\ [Next]_vars => (LockHeld /\ WriteExclusive /\ RouterAims)'
<1> SUFFICES ASSUME Inductive, [Next]_vars PROVE (LockHeld /\ WriteExclusive /\ RouterAims)'
    OBVIOUS
<1> USE DEF Inductive, TypeOK, BridgeTypeOK, LockHeld, WriteExclusive, RouterAims
<1>1. ASSUME NEW s \in Sessions, Upgrade(s) \/ SessionReads(s)
      PROVE  (LockHeld /\ WriteExclusive /\ RouterAims)'
    BY <1>1 DEF Upgrade, SessionReads, ReadLocal, ReadRegister, ReadRefuse, ReadClosed, ReadFrame,
                Goto, routerVars, deliveryVars
<1>2. ASSUME NEW s \in Sessions, LockToRespond(s) \/ WriteResponse(s)
      PROVE  (LockHeld /\ WriteExclusive /\ RouterAims)'
  <2>1. UNCHANGED <<routerPc, deliveryVars>> /\ \A t \in Sessions \ {s} : wsPc'[t] = wsPc[t]
      BY <1>2 DEF LockToRespond, WriteResponse, Goto, routerVars
  <2>2. \A t \in Sessions \ {s} : locked'[t] <=> locked[t]
      BY <1>2 DEF LockToRespond, WriteResponse
  <2>3. \/ ~locked[s] /\ wsPc'[s] = "writing" /\ locked'[s]
        \/ wsPc[s] = "writing" /\ wsPc'[s] = "reading" /\ ~locked'[s]
      BY <1>2 DEF LockToRespond, WriteResponse, Goto
  <2> QED  BY <2>1, <2>2, <2>3 DEF deliveryVars
<1>3. ASSUME NEW s \in Sessions, addSession(s) \/ ProcessAccepts(s) \/ ProcessFails(s)
                \/ DropFailed(s) \/ ReadBroken(s) \/ removeSession(s) \/ CloseConn(s)
      PROVE  (LockHeld /\ WriteExclusive /\ RouterAims)'
    BY <1>3 DEF addSession, ProcessAccepts, ProcessFails, DropFailed, ReadBroken, removeSession,
                CloseConn, Goto, routerVars, deliveryVars
<1>4. ASSUME NEW s \in Sessions, Peer(s) PROVE (LockHeld /\ WriteExclusive /\ RouterAims)'
    BY <1>4 DEF Peer, Stall, Resume, Disconnect, SetConn, bridgeVars, deliveryVars
<1>5. ASSUME RouterReceive \/ RouterStop \/ RouteNowhere, UNCHANGED <<sessionVars, deliveryVars>>
      PROVE  (LockHeld /\ WriteExclusive /\ RouterAims)'
    BY <1>5 DEF RouterReceive, RouterStop, RouteNowhere, ReturnToSelect, sessionVars, deliveryVars
<1>6. ASSUME RouteToSession PROVE (LockHeld /\ WriteExclusive /\ RouterAims)'
  <2>1. SessionOf(pending[Key(routerFrame)]) \in Sessions
      BY <1>6, RoutedKey, CallParts DEF RouteToSession
  <2> QED  BY <1>6, <2>1 DEF RouteToSession, RouteAnswer, sessionVars
<1>7. ASSUME Broadcast PROVE (LockHeld /\ WriteExclusive /\ RouterAims)'
    BY <1>7, NoSessionAssumption DEF Broadcast, WriteNext, ReturnToSelect, sessionVars
<1>8. ASSUME RouterLock PROVE (LockHeld /\ WriteExclusive /\ RouterAims)'
    BY <1>8 DEF RouterLock, bridgeVars
<1>9. ASSUME RouterWrite PROVE (LockHeld /\ WriteExclusive /\ RouterAims)'
    BY <1>9, NoSessionAssumption DEF RouterWrite, WriteNext, ReturnToSelect
<1>10. ASSUME NodeNext \/ Cancel, UNCHANGED <<sessionVars, deliveryVars>>
       PROVE  (LockHeld /\ WriteExclusive /\ RouterAims)'
    BY <1>10 DEF NodeNext, NodeAnswer, NodeEvent, NodeShort, Cancel, sessionVars, deliveryVars
<1>11. ASSUME Finished \/ UNCHANGED vars PROVE (LockHeld /\ WriteExclusive /\ RouterAims)'
    BY <1>11 DEF Finished, vars, bridgeVars, sessionVars, deliveryVars
<1> QED
    BY <1>1, <1>2, <1>3, <1>4, <1>5, <1>6, <1>7, <1>8, <1>9, <1>10, <1>11
    DEF Next, SessionStep, RouterStep

(***************************************************************************)
(* Only a session's own goroutine moves it in and out of the bridge.       *)
(***************************************************************************)
LEMMA StepMembers == Inductive /\ [Next]_vars => (Begun /\ Membership)'
<1> SUFFICES ASSUME Inductive, [Next]_vars PROVE (Begun /\ Membership)'
    OBVIOUS
<1> USE DEF Inductive, TypeOK, Begun, Membership, Inside
<1>1. ASSUME NEW s \in Sessions, Upgrade(s) \/ SessionReads(s) PROVE (Begun /\ Membership)'
  <2>1. \A t \in Sessions \ {s} : turn'[t] = turn[t]
      BY <1>1 DEF Upgrade, SessionReads, ReadLocal, ReadRegister, ReadRefuse, ReadClosed, ReadFrame
  <2>2. sessions' = sessions /\ \A t \in Sessions \ {s} : wsPc'[t] = wsPc[t]
      BY <1>1 DEF Upgrade, SessionReads, ReadLocal, ReadRegister, ReadRefuse, ReadClosed,
                  ReadFrame, Goto
  <2>3. wsPc'[s] \in Inside <=> wsPc[s] \in Inside
      BY <1>1 DEF Upgrade, SessionReads, ReadLocal, ReadRegister, ReadRefuse, ReadClosed, Goto
  <2>4. wsPc'[s] \in {"processing", "failed"} => turn'[s] >= 1
    <3>1. wsPc'[s] \in {"processing", "failed"} => ReadFrame(s)
        BY <1>1 DEF Upgrade, SessionReads, ReadLocal, ReadRegister, ReadRefuse, ReadClosed, Goto
    <3> QED  BY <3>1, TurnAdvances
  <2>5. Membership'
      BY <2>2, <2>3
  <2> QED  BY <2>1, <2>2, <2>4, <2>5
<1>2. ASSUME NEW s \in Sessions, SessionStep(s) PROVE (Begun /\ Membership)'
    BY <1>2 DEF SessionStep, addSession, ProcessAccepts, ProcessFails, DropFailed, LockToRespond,
                WriteResponse, ReadBroken, removeSession, CloseConn, Goto
<1>3. ASSUME UNCHANGED <<sessions, wsPc, turn>> PROVE (Begun /\ Membership)'
    BY <1>3
<1> QED
    BY <1>1, <1>2, <1>3
    DEF Next, Peer, Stall, Resume, Disconnect, SetConn, RouterStep, RouteToSession, Broadcast,
        RouterLock, RouterWrite, Finished, vars, sessionVars

(***************************************************************************)
(* A session registers only while it is in the bridge, and takes all its   *)
(* entries with it, in one critical section, when it leaves.               *)
(***************************************************************************)
LEMMA StepOwners == Inductive /\ [Next]_vars => OwnersConnected'
<1> SUFFICES ASSUME Inductive, [Next]_vars, NEW k \in Ids, pending'[k] # NoCall
             PROVE  (/\ frameId[pending[k]] = k
                     /\ SessionOf(pending[k]) \in sessions
                     /\ pending[k][2] <= turn[SessionOf(pending[k])])'
    BY DEF OwnersConnected, Registered
<1> DEFINE Owned == /\ frameId[pending[k]] = k
                    /\ SessionOf(pending[k]) \in sessions
                    /\ pending[k][2] <= turn[SessionOf(pending[k])]
<1>1. ASSUME pending'[k] = pending[k], frameId' = frameId, sessions \subseteq sessions',
             \A s \in Sessions : turn[s] <= turn'[s] /\ turn[s] \in Nat /\ turn'[s] \in Nat
      PROVE  Owned'
  <2>1. pending[k] \in Calls /\ Owned
      BY <1>1 DEF Inductive, TypeOK, BridgeTypeOK, OwnersConnected, Registered
  <2>2. SessionOf(pending[k]) \in Sessions /\ pending[k][2] \in Nat
      BY <2>1, CallParts
  <2>3. turn[SessionOf(pending[k])] <= turn'[SessionOf(pending[k])]
      BY <1>1, <2>2
  <2> QED  BY <1>1, <2>1, <2>2, <2>3 DEF SessionOf
<1> USE DEF Inductive, TypeOK, BridgeTypeOK
<1>2. ASSUME NEW s \in Sessions, ReadRegister(s) PROVE Owned'
  <2>1. /\ turn'[s] = turn[s] + 1 /\ turn[s] + 1 \in 1..MaxFrames[s]
        /\ \A t \in Sessions : turn[t] <= turn'[t] /\ turn[t] \in Nat /\ turn'[t] \in Nat
      BY <1>2, TurnAdvances DEF ReadRegister
  <2>2. /\ s \in sessions
        /\ pending' = [pending EXCEPT ![frameId[Upcoming(s)]] = Upcoming(s)]
        /\ frameId' = frameId /\ sessions' = sessions
      BY <1>2 DEF ReadRegister, ReadFrame, registerPending, Goto, routerVars, Membership, Inside
  <2>3. Upcoming(s) \in Calls /\ SessionOf(Upcoming(s)) = s /\ Upcoming(s)[2] = turn[s] + 1
      BY <2>1, CallParts DEF Upcoming
  <2>4. CASE k = frameId[Upcoming(s)]
    <3>1. pending'[k] = Upcoming(s)
        BY <2>2, <2>4
    <3> QED  BY <2>1, <2>2, <2>3, <2>4, <3>1 DEF SessionOf
  <2>5. CASE k # frameId[Upcoming(s)]
      BY <1>1, <2>1, <2>2, <2>5
  <2> QED  BY <2>4, <2>5
<1>3. ASSUME NEW s \in Sessions, ReadLocal(s) \/ ReadRefuse(s) PROVE Owned'
  <2>1. \A t \in Sessions : turn[t] <= turn'[t] /\ turn[t] \in Nat /\ turn'[t] \in Nat
      BY <1>3, TurnAdvances DEF ReadLocal, ReadRefuse
  <2> QED  BY <1>1, <1>3, <2>1 DEF ReadLocal, ReadRefuse, ReadFrame, registerRefused, routerVars
<1>4. ASSUME NEW s \in Sessions, Upgrade(s) \/ ReadClosed(s) \/ addSession(s) \/ ProcessAccepts(s)
                \/ ProcessFails(s) \/ LockToRespond(s) \/ WriteResponse(s) \/ ReadBroken(s)
                \/ CloseConn(s) \/ Peer(s)
      PROVE  Owned'
  <2>1. UNCHANGED <<pending, frameId, turn>> /\ sessions \subseteq sessions'
      BY <1>4 DEF Upgrade, ReadClosed, addSession, ProcessAccepts, ProcessFails, LockToRespond,
                WriteResponse, ReadBroken, CloseConn, Peer, Stall, Resume, Disconnect, SetConn,
                routerVars, bridgeVars
  <2> QED  BY <1>1, <2>1
<1>5. ASSUME NEW s \in Sessions, DropFailed(s) PROVE Owned'
    BY <1>1, <1>5 DEF DropFailed, removePending, routerVars
<1>6. ASSUME NEW s \in Sessions, removeSession(s) PROVE Owned'
  <2>1. pending'[k] = pending[k] /\ SessionOf(pending[k]) # s
      BY <1>6 DEF removeSession, Registered
  <2>2. UNCHANGED <<frameId, turn>> /\ sessions' = sessions \ {s}
      BY <1>6 DEF removeSession, routerVars
  <2> QED  BY <2>1, <2>2 DEF OwnersConnected, Registered, SessionOf
<1>7. ASSUME RouteToSession PROVE Owned'
  <2>1. Key(routerFrame) \in Ids
      BY <1>7, RoutedKey DEF RouteToSession
  <2> QED  BY <1>1, <1>7, <2>1 DEF RouteToSession, RouteAnswer, sessionVars
<1>8. ASSUME UNCHANGED <<pending, frameId, sessions, turn>> PROVE Owned'
    BY <1>1, <1>8
<1> QED
    BY <1>2, <1>3, <1>4, <1>5, <1>6, <1>7, <1>8
    DEF Next, SessionReads, SessionStep, RouterStep, RouterReceive, RouterStop, RouteNowhere,
        Broadcast, RouterLock, RouterWrite, NodeNext, NodeAnswer, NodeEvent, NodeShort, Cancel,
        Finished, vars, bridgeVars, sessionVars

(***************************************************************************)
(* An entry that is not asked for belongs to the frame its session is      *)
(* dispatching: the session leaves that point only with the frame taken by *)
(* the node, or by way of DropFailed, which empties the id of the frame.   *)
(***************************************************************************)
LEMMA StepAwaited == Inductive /\ [Next]_vars => EntriesAwaited'
<1> DEFINE Dispatching(c) == /\ wsPc[SessionOf(c)] \in {"processing", "failed"}
                             /\ c = Current(SessionOf(c))
<1> SUFFICES ASSUME Inductive, [Next]_vars, NEW k \in Ids, NEW c, pending'[k] = c,
                    c # NoCall, c \notin asked'
             PROVE  Dispatching(c)'
    BY DEF EntriesAwaited, Registered
<1>1. ASSUME pending'[k] = pending[k], asked \subseteq asked'
      PROVE  /\ c \in Calls /\ SessionOf(c) \in Sessions /\ Dispatching(c)
             /\ frameId[c] = k
  <2>1. c \in Calls /\ SessionOf(c) \in Sessions
      BY <1>1, CallParts DEF Inductive, TypeOK, BridgeTypeOK
  <2>2. frameId[c] = k /\ Dispatching(c)
      BY <1>1 DEF Inductive, OwnersConnected, EntriesAwaited, Registered
  <2> QED  BY <2>1, <2>2
<1>2. ASSUME pending'[k] = pending[k], asked \subseteq asked', UNCHANGED <<wsPc, turn>>
      PROVE  Dispatching(c)'
    BY <1>1, <1>2 DEF Current, SessionOf
<1> USE DEF Inductive, TypeOK, BridgeTypeOK
<1>3. ASSUME NEW s \in Sessions, ReadRegister(s) PROVE Dispatching(c)'
  <2>1. /\ turn' = [turn EXCEPT ![s] = turn[s] + 1] /\ turn[s] \in Nat
        /\ wsPc[s] = "reading" /\ wsPc' = [wsPc EXCEPT ![s] = "processing"]
        /\ pending' = [pending EXCEPT ![frameId[Upcoming(s)]] = Upcoming(s)]
        /\ asked' = asked
      BY <1>3 DEF ReadRegister, ReadFrame, registerPending, Goto
  <2>2. CASE c = Upcoming(s)
      BY <2>1, <2>2 DEF Upcoming, Current, SessionOf
  <2>3. CASE c # Upcoming(s)
    <3>1. pending'[k] = pending[k]
        BY <2>1, <2>3
    <3>2. SessionOf(c) \in Sessions /\ Dispatching(c)
        BY <1>1, <2>1, <3>1
    <3>3. SessionOf(c) # s
        BY <2>1, <3>2
    <3> QED  BY <2>1, <3>2, <3>3 DEF Current, SessionOf
  <2> QED  BY <2>2, <2>3
<1>4. ASSUME NEW s \in Sessions, ReadLocal(s) \/ ReadRefuse(s) PROVE Dispatching(c)'
  <2>1. /\ wsPc[s] = "reading" /\ wsPc' = [wsPc EXCEPT ![s] = "responding"]
        /\ turn' = [turn EXCEPT ![s] = turn[s] + 1]
        /\ pending' = pending /\ asked' = asked
      BY <1>4 DEF ReadLocal, ReadRefuse, ReadFrame, registerRefused, Goto
  <2>2. SessionOf(c) \in Sessions /\ Dispatching(c)
      BY <1>1, <2>1
  <2> QED  BY <2>1, <2>2 DEF Current, SessionOf
<1>5. ASSUME NEW s \in Sessions, Upgrade(s) \/ ReadClosed(s) \/ addSession(s)
                \/ LockToRespond(s) \/ WriteResponse(s) \/ ReadBroken(s) \/ CloseConn(s)
      PROVE  Dispatching(c)'
  <2>1. /\ wsPc[s] \notin {"processing", "failed"}
        /\ \A t \in Sessions : t # s => wsPc'[t] = wsPc[t]
        /\ UNCHANGED <<pending, asked, turn>>
      BY <1>5 DEF Upgrade, ReadClosed, addSession, LockToRespond, WriteResponse, ReadBroken,
                CloseConn, Goto
  <2>2. SessionOf(c) \in Sessions /\ Dispatching(c)
      BY <1>1, <2>1
  <2> QED  BY <2>1, <2>2 DEF Current, SessionOf
<1>6. ASSUME NEW s \in Sessions, ProcessAccepts(s) PROVE Dispatching(c)'
  <2>1. /\ wsPc' = [wsPc EXCEPT ![s] = "reading"]
        /\ asked' = asked \cup {Current(s)} /\ UNCHANGED <<pending, turn>>
      BY <1>6 DEF ProcessAccepts, Goto
  <2>2. SessionOf(c) \in Sessions /\ Dispatching(c)
      BY <1>1, <2>1
  <2>3. SessionOf(c) # s
      BY <2>1, <2>2
  <2> QED  BY <2>1, <2>2, <2>3 DEF Current, SessionOf
<1>7. ASSUME NEW s \in Sessions, ProcessFails(s) PROVE Dispatching(c)'
  <2>1. /\ wsPc' = [wsPc EXCEPT ![s] = "failed"] /\ UNCHANGED <<pending, asked, turn>>
      BY <1>7 DEF ProcessFails, Goto
  <2>2. SessionOf(c) \in Sessions /\ Dispatching(c)
      BY <1>1, <2>1
  <2> QED  BY <2>1, <2>2 DEF Current, SessionOf
<1>8. ASSUME NEW s \in Sessions, DropFailed(s) PROVE Dispatching(c)'
  <2>1. /\ pending' = [pending EXCEPT ![frameId[Current(s)]] = NoCall]
        /\ wsPc' = [wsPc EXCEPT ![s] = "responding"] /\ UNCHANGED <<asked, turn>>
      BY <1>8 DEF DropFailed, removePending, Goto
  <2>2. k # frameId[Current(s)] /\ pending'[k] = pending[k]
      BY <2>1
  <2>3. SessionOf(c) \in Sessions /\ Dispatching(c) /\ frameId[c] = k
      BY <1>1, <2>1, <2>2
  <2>4. SessionOf(c) # s
      BY <2>2, <2>3
  <2> QED  BY <2>1, <2>3, <2>4 DEF Current, SessionOf
<1>9. ASSUME NEW s \in Sessions, removeSession(s) PROVE Dispatching(c)'
  <2>1. /\ wsPc[s] = "leaving" /\ wsPc' = [wsPc EXCEPT ![s] = "closing"]
        /\ pending'[k] = pending[k] /\ UNCHANGED <<asked, turn>>
      BY <1>9 DEF removeSession, Goto
  <2>2. SessionOf(c) \in Sessions /\ Dispatching(c)
      BY <1>1, <2>1
  <2> QED  BY <2>1, <2>2 DEF Current, SessionOf
<1>10. ASSUME NEW s \in Sessions, Peer(s) PROVE Dispatching(c)'
    BY <1>2, <1>10 DEF Peer, Stall, Resume, Disconnect, SetConn, bridgeVars
<1>11. ASSUME RouteToSession PROVE Dispatching(c)'
  <2>1. Key(routerFrame) \in Ids
      BY <1>11, RoutedKey DEF RouteToSession
  <2>2. pending'[k] = pending[k] /\ UNCHANGED <<asked, wsPc, turn>>
      BY <1>11, <2>1 DEF RouteToSession, RouteAnswer, sessionVars
  <2> QED  BY <1>2, <2>2
<1>12. ASSUME UNCHANGED <<pending, asked, wsPc, turn>> PROVE Dispatching(c)'
    BY <1>2, <1>12
<1> QED
    BY <1>3, <1>4, <1>5, <1>6, <1>7, <1>8, <1>9, <1>10, <1>11, <1>12
    DEF Next, SessionReads, SessionStep, RouterStep, RouterReceive, RouterStop, RouteNowhere,
        Broadcast, RouterLock, RouterWrite, NodeNext, NodeAnswer, NodeEvent, NodeShort, Cancel,
        Finished, vars, bridgeVars, sessionVars

--------------------------------------------------------------------------------
(***************************************************************************)
(* Inductive holds in every reachable state.                               *)
(***************************************************************************)
THEOREM InductiveHolds == Spec => []Inductive
<1>1. Inductive /\ [Next]_vars => Inductive'
    BY StepTyped, StepLocks, StepMembers, StepOwners, StepAwaited DEF Inductive
<1> QED  BY InitInductive, <1>1, PTL DEF Spec

(***************************************************************************)
(* Every variable keeps its type.                                          *)
(***************************************************************************)
THEOREM TypeCorrect == Spec => []TypeOK
BY InductiveHolds, PTL DEF Inductive

(***************************************************************************)
(* A connection never has two writers.                                     *)
(***************************************************************************)
THEOREM OneWriter == Spec => []WriteExclusive
BY InductiveHolds, PTL DEF Inductive

(***************************************************************************)
(* No entry outlives the session that registered it.                       *)
(***************************************************************************)
THEOREM EntriesSwept == Spec => []OwnersConnected
BY InductiveHolds, PTL DEF Inductive

(***************************************************************************)
(* No entry outlives the refusal of its frame by the node.                 *)
(***************************************************************************)
THEOREM EntriesAnswerable == Spec => []EntriesAwaited
BY InductiveHolds, PTL DEF Inductive
--------------------------------------------------------------------------------
(***************************************************************************)
(* Client mode: a peer is sent no more answers than it sent frames, for    *)
(* any number of connections and frames.  Each frame a connection reads    *)
(* pays for at most one entry of the table; the entry becomes the delivery *)
(* the router is at, and the delivery becomes the answer.                  *)
(***************************************************************************)

\* The router delivers an answer to one session, an event to the rest of a snapshot.
RouterCarries ==
    /\ routerPc = "send" => routerFrame.kind = "answer"
    /\ routerPc = "broadcast" => routerFrame.kind = "event"
    /\ routerPc # "broadcast" => broadcastTo = {}

\* An answer with id k is on its way to s.
Answering(s, k) == routerPc = "send" /\ routerTo = s /\ Key(routerFrame) = k

\* s waits for an answer with id k.
Waiting(s, k) == Registered(k) /\ SessionOf(pending[k]) = s

Count(owed) == IF owed THEN 1 ELSE 0

Sum(s, k) ==
    Cardinality(AnswersFor(s, k)) + Count(Answering(s, k)) + Count(Waiting(s, k))

Budget == \A s \in Sessions, k \in Ids : Sum(s, k) <= Cardinality(FramesWith(s, k))

--------------------------------------------------------------------------------
(***************************************************************************)
(* The two sets that are counted are finite, and grow by their next index. *)
(***************************************************************************)
AnswersIn(received, k) ==
    {i \in 1..Len(received) : received[i].kind = "answer" /\ Key(received[i]) = k}

LEMMA Counted ==
    ASSUME TypeOK, NEW s \in Sessions, NEW k \in Ids
    PROVE  /\ IsFiniteSet(AnswersFor(s, k)) /\ Cardinality(AnswersFor(s, k)) \in Nat
           /\ IsFiniteSet(FramesWith(s, k)) /\ Cardinality(FramesWith(s, k)) \in Nat
<1>1. Len(inbox[s]) \in Nat /\ turn[s] \in Nat
    BY DEF TypeOK
<1>2. ASSUME NEW n \in Nat PROVE IsFiniteSet(1..n)
    BY FS_Interval
<1>3. AnswersFor(s, k) \subseteq 1..Len(inbox[s]) /\ FramesWith(s, k) \subseteq 1..turn[s]
    BY DEF AnswersFor, FramesWith
<1>4. IsFiniteSet(AnswersFor(s, k)) /\ IsFiniteSet(FramesWith(s, k))
    BY <1>1, <1>2, <1>3, FS_Subset
<1> QED  BY <1>4, FS_CardinalityType

LEMMA AnswerAdds ==
    ASSUME NEW received \in Seq(Frame), NEW f \in Frame, NEW k
    PROVE  /\ AnswersIn(Append(received, f), k) =
                AnswersIn(received, k) \cup
                    (IF f.kind = "answer" /\ Key(f) = k THEN {Len(received) + 1} ELSE {})
           /\ Len(received) + 1 \notin AnswersIn(received, k)
<1> DEFINE longer == Append(received, f)
<1>1. /\ Len(received) \in Nat /\ Len(longer) = Len(received) + 1
      /\ longer[Len(received) + 1] = f
      /\ \A i \in 1..Len(received) : longer[i] = received[i]
    OBVIOUS
<1> HIDE DEF longer
<1>2. 1..Len(longer) = (1..Len(received)) \cup {Len(received) + 1}
    BY <1>1
<1>3. Len(received) + 1 \notin 1..Len(received)
    BY <1>1
<1>4. AnswersIn(longer, k) =
        AnswersIn(received, k) \cup
            (IF f.kind = "answer" /\ Key(f) = k THEN {Len(received) + 1} ELSE {})
    BY <1>1, <1>2, <1>3 DEF AnswersIn
<1> QED  BY <1>3, <1>4 DEF AnswersIn, longer

LEMMA FramesGrow ==
    ASSUME TypeOK, NEW s \in Sessions, NEW k \in Ids, ReadFrame(s)
    PROVE  Cardinality(FramesWith(s, k))' =
             Cardinality(FramesWith(s, k)) + Count(frameId[Upcoming(s)] = k)
<1>1. turn[s] \in Nat /\ turn'[s] = turn[s] + 1 /\ frameId' = frameId
    BY TurnAdvances DEF ReadFrame, routerVars
<1>2. 1..turn'[s] = (1..turn[s]) \cup {turn[s] + 1} /\ turn[s] + 1 \notin 1..turn[s]
    BY <1>1
<1>3. FramesWith(s, k)' =
        FramesWith(s, k) \cup (IF frameId[Upcoming(s)] = k THEN {turn[s] + 1} ELSE {})
    BY <1>1, <1>2 DEF FramesWith, Upcoming
<1>4. turn[s] + 1 \notin FramesWith(s, k)
    BY <1>2 DEF FramesWith
<1>5. IsFiniteSet(FramesWith(s, k)) /\ Cardinality(FramesWith(s, k)) \in Nat
    BY Counted
<1>6. CASE frameId[Upcoming(s)] = k
  <2>1. FramesWith(s, k)' = FramesWith(s, k) \cup {turn[s] + 1}
      BY <1>3, <1>6
  <2> QED  BY <1>4, <1>5, <1>6, <2>1, FS_AddElement DEF Count
<1>7. CASE frameId[Upcoming(s)] # k
  <2>1. FramesWith(s, k)' = FramesWith(s, k)
      BY <1>3, <1>7
  <2> QED  BY <1>5, <1>7, <2>1 DEF Count
<1> QED  BY <1>6, <1>7

(***************************************************************************)
(* What is on its way to s under k keeps within the budget when neither    *)
(* end of the account moves.                                               *)
(***************************************************************************)
LEMMA AccountKept ==
    ASSUME TypeOK, NEW s \in Sessions, NEW k \in Ids,
           Sum(s, k) <= Cardinality(FramesWith(s, k)),
           frameId' = frameId, inbox'[s] = inbox[s], turn'[s] = turn[s],
           Count(Answering(s, k))' + Count(Waiting(s, k))' <=
             Count(Answering(s, k)) + Count(Waiting(s, k))
    PROVE  Sum(s, k)' <= Cardinality(FramesWith(s, k))'
<1>1. AnswersFor(s, k)' = AnswersFor(s, k) /\ FramesWith(s, k)' = FramesWith(s, k)
    BY DEF AnswersFor, FramesWith, Key
<1>2. Cardinality(AnswersFor(s, k)) \in Nat /\ Cardinality(FramesWith(s, k)) \in Nat
    BY Counted
<1>3. \A owed : Count(owed) \in Nat
    BY DEF Count
<1> QED  BY <1>1, <1>2, <1>3 DEF Sum

--------------------------------------------------------------------------------
(***************************************************************************)
(* The frame under delivery keeps its kind, and an answer has one receiver.*)
(***************************************************************************)
LEMMA InitCarries == Init => RouterCarries
BY DEF Init, BridgeInit, RouterCarries

LEMMA StepCarries == Inductive /\ RouterCarries /\ [Next]_vars => RouterCarries'
<1> SUFFICES ASSUME Inductive, RouterCarries, [Next]_vars PROVE RouterCarries'
    OBVIOUS
<1> USE DEF RouterCarries
<1>1. ASSUME NEW s \in Sessions, Upgrade(s) \/ SessionReads(s) \/ SessionStep(s) \/ Peer(s)
      PROVE  RouterCarries'
  <2>1. UNCHANGED <<routerPc, routerFrame, broadcastTo>>
      BY <1>1 DEF Upgrade, SessionReads, ReadLocal, ReadRegister, ReadRefuse, ReadClosed, ReadFrame,
                  SessionStep, addSession, ProcessAccepts, ProcessFails, DropFailed, LockToRespond,
                  WriteResponse, ReadBroken, removeSession, CloseConn, Peer, Stall, Resume,
                  Disconnect, SetConn, routerVars, bridgeVars, deliveryVars
  <2> QED  BY <2>1
<1>2. ASSUME RouterReceive \/ RouterStop \/ RouteNowhere, UNCHANGED <<sessionVars, deliveryVars>>
      PROVE  RouterCarries'
    BY <1>2 DEF RouterReceive, RouterStop, RouteNowhere, ReturnToSelect, deliveryVars
<1>3. ASSUME RouteToSession PROVE RouterCarries'
    BY <1>3 DEF RouteToSession, RouteAnswer
<1>4. ASSUME Broadcast PROVE RouterCarries'
    BY <1>4 DEF Broadcast, WriteNext, ReturnToSelect
<1>5. ASSUME RouterLock PROVE RouterCarries'
    BY <1>5 DEF RouterLock, bridgeVars
<1>6. ASSUME RouterWrite PROVE RouterCarries'
    BY <1>6 DEF RouterWrite, WriteNext, ReturnToSelect, Inductive, RouterAims
<1>7. ASSUME NodeNext \/ Cancel, UNCHANGED <<sessionVars, deliveryVars>> PROVE RouterCarries'
    BY <1>7 DEF NodeNext, NodeAnswer, NodeEvent, NodeShort, Cancel, deliveryVars
<1>8. ASSUME Finished \/ UNCHANGED vars PROVE RouterCarries'
    BY <1>8 DEF Finished, vars, bridgeVars, deliveryVars
<1> QED  BY <1>1, <1>2, <1>3, <1>4, <1>5, <1>6, <1>7, <1>8 DEF Next, RouterStep

--------------------------------------------------------------------------------
(***************************************************************************)
(* The account, step by step.                                              *)
(***************************************************************************)
LEMMA InitBudget == Init => Budget
<1> SUFFICES ASSUME Init, NEW s \in Sessions, NEW k \in Ids
             PROVE  Sum(s, k) <= Cardinality(FramesWith(s, k))
    BY DEF Budget
<1>1. TypeOK
    BY InitInductive DEF Inductive
<1>2. AnswersFor(s, k) = {}
    BY DEF Init, AnswersFor
<1>3. ~Answering(s, k) /\ ~Waiting(s, k)
    BY DEF Init, BridgeInit, Answering, Waiting, Registered
<1>4. Sum(s, k) = 0
    BY <1>2, <1>3, FS_EmptySet DEF Sum, Count
<1> QED  BY <1>1, <1>4, Counted

LEMMA ReadBudget ==
    ASSUME Inductive, Budget, NEW s \in Sessions, NEW k \in Ids, NEW t \in Sessions,
           ReadLocal(t) \/ ReadRegister(t) \/ ReadRefuse(t)
    PROVE  Sum(s, k)' <= Cardinality(FramesWith(s, k))'
<1> USE DEF Inductive
<1>1. ReadFrame(t) /\ UNCHANGED <<frameId, inbox, routerPc, routerTo, routerFrame>>
    BY DEF ReadLocal, ReadRegister, ReadRefuse, ReadFrame, routerVars, deliveryVars
<1>2. Count(Answering(s, k))' = Count(Answering(s, k)) /\ AnswersFor(s, k)' = AnswersFor(s, k)
    BY <1>1 DEF Answering, Key, AnswersFor, Count
<1>3. Upcoming(t) \in Calls /\ SessionOf(Upcoming(t)) = t
    BY <1>1, TurnAdvances, CallParts DEF Upcoming
<1>4. \/ pending' = pending
      \/ ~Registered(frameId[Upcoming(t)])
         /\ pending' = [pending EXCEPT ![frameId[Upcoming(t)]] = Upcoming(t)]
    BY DEF ReadLocal, ReadRegister, ReadRefuse, registerPending, registerRefused
<1>5. Waiting(s, k)' => Waiting(s, k) \/ (s = t /\ k = frameId[Upcoming(t)] /\ ~Registered(k))
    BY <1>3, <1>4 DEF Waiting, Registered, TypeOK, BridgeTypeOK
<1>6. CASE s = t
  <2>1. Count(Waiting(s, k))' <= Count(Waiting(s, k)) + Count(frameId[Upcoming(s)] = k)
      BY <1>5, <1>6 DEF Count, Waiting
  <2>2. /\ Cardinality(FramesWith(s, k))' =
             Cardinality(FramesWith(s, k)) + Count(frameId[Upcoming(s)] = k)
        /\ Cardinality(AnswersFor(s, k)) \in Nat /\ Cardinality(FramesWith(s, k)) \in Nat
      BY <1>1, <1>6, FramesGrow, Counted
  <2>3. Sum(s, k) <= Cardinality(FramesWith(s, k)) /\ \A owed : Count(owed) \in Nat
      BY DEF Budget, Count
  <2> QED  BY <1>2, <2>1, <2>2, <2>3 DEF Sum
<1>7. CASE s # t
  <2>1. Count(Waiting(s, k))' <= Count(Waiting(s, k))
      BY <1>5, <1>7 DEF Count
  <2>2. turn'[s] = turn[s] /\ inbox'[s] = inbox[s]
      BY <1>1, <1>7, TurnAdvances
  <2>3. \A owed : Count(owed) \in Nat
      BY DEF Count
  <2>4. Count(Answering(s, k))' + Count(Waiting(s, k))' <=
          Count(Answering(s, k)) + Count(Waiting(s, k))
      BY <1>2, <2>1, <2>3
  <2> QED  BY <1>1, <2>2, <2>4, AccountKept DEF Budget
<1> QED  BY <1>6, <1>7

LEMMA DeliverBudget ==
    ASSUME Inductive, RouterCarries, Budget, NEW s \in Sessions, NEW k \in Ids, RouterWrite
    PROVE  Sum(s, k)' <= Cardinality(FramesWith(s, k))'
<1> USE DEF Inductive
<1>1. UNCHANGED <<frameId, turn, pending>> /\ ~Answering(s, k)'
    BY DEF RouterWrite, WriteNext, ReturnToSelect, Answering, RouterCarries, RouterAims
<1>2. Count(Waiting(s, k))' = Count(Waiting(s, k)) /\ Count(Answering(s, k))' = 0
    BY <1>1 DEF Waiting, Registered, Count
<1>3. \A owed : Count(owed) \in Nat
    BY DEF Count
<1>4. CASE inbox'[s] = inbox[s]
    BY <1>1, <1>2, <1>3, <1>4, AccountKept DEF Budget
<1>5. CASE inbox'[s] # inbox[s]
  <2>1. s = routerTo /\ inbox[s] \in Seq(Frame) /\ routerFrame \in Frame
        /\ inbox'[s] = Append(inbox[s], routerFrame)
      BY <1>5 DEF RouterWrite, TypeOK, BridgeTypeOK
  <2>2. routerFrame.kind = "answer" /\ Key(routerFrame) = k => Answering(s, k)
      BY <2>1 DEF Answering, RouterCarries, RouterWrite, RouterAims
  <2>3. AnswersFor(s, k) = AnswersIn(inbox[s], k)
        /\ AnswersFor(s, k)' = AnswersIn(Append(inbox[s], routerFrame), k)
      BY <1>1, <2>1 DEF AnswersFor, AnswersIn, Key
  <2>4. /\ AnswersFor(s, k)' =
             AnswersFor(s, k) \cup
               (IF routerFrame.kind = "answer" /\ Key(routerFrame) = k
                  THEN {Len(inbox[s]) + 1} ELSE {})
        /\ Len(inbox[s]) + 1 \notin AnswersFor(s, k)
      BY <2>1, <2>3, AnswerAdds
  <2>5. /\ IsFiniteSet(AnswersFor(s, k)) /\ Cardinality(AnswersFor(s, k)) \in Nat
        /\ Cardinality(FramesWith(s, k)) \in Nat
      BY Counted
  <2>6. Cardinality(AnswersFor(s, k))' <= Cardinality(AnswersFor(s, k)) + Count(Answering(s, k))
    <3>1. CASE routerFrame.kind = "answer" /\ Key(routerFrame) = k
      <4>1. AnswersFor(s, k)' = AnswersFor(s, k) \cup {Len(inbox[s]) + 1}
          BY <2>4, <3>1
      <4>2. Cardinality(AnswersFor(s, k))' = Cardinality(AnswersFor(s, k)) + 1
          BY <2>4, <2>5, <4>1, FS_AddElement
      <4> QED  BY <2>2, <2>5, <3>1, <4>2 DEF Count
    <3>2. CASE ~(routerFrame.kind = "answer" /\ Key(routerFrame) = k)
      <4>1. AnswersFor(s, k)' = AnswersFor(s, k)
          BY <2>4, <3>2
      <4> QED  BY <1>3, <2>5, <4>1
    <3> QED  BY <3>1, <3>2
  <2>7. Cardinality(AnswersFor(s, k))' \in Nat
    <3>1. \/ AnswersFor(s, k)' = AnswersFor(s, k)
          \/ AnswersFor(s, k)' = AnswersFor(s, k) \cup {Len(inbox[s]) + 1}
        BY <2>4
    <3>2. IsFiniteSet(AnswersFor(s, k) \cup {Len(inbox[s]) + 1})
        BY <2>5, FS_AddElement
    <3>3. IsFiniteSet(AnswersFor(s, k)')
        BY <2>5, <3>1, <3>2
    <3> QED  BY <3>3, FS_CardinalityType
  <2>8. FramesWith(s, k)' = FramesWith(s, k)
      BY <1>1 DEF FramesWith
  <2> QED  BY <1>2, <1>3, <2>5, <2>6, <2>7, <2>8 DEF Sum, Budget
<1> QED  BY <1>4, <1>5

LEMMA StepBudget == Inductive /\ RouterCarries /\ Budget /\ [Next]_vars => Budget'
<1> SUFFICES ASSUME Inductive, RouterCarries, Budget, [Next]_vars, NEW s \in Sessions, NEW k \in Ids
             PROVE  Sum(s, k)' <= Cardinality(FramesWith(s, k))'
    BY DEF Budget
<1> DEFINE Within == Sum(s, k) <= Cardinality(FramesWith(s, k))
<1> USE DEF Inductive
<1>1. ASSUME UNCHANGED <<frameId, inbox, turn>>,
             Answering(s, k)' => Answering(s, k), Waiting(s, k)' => Waiting(s, k)
      PROVE  Within'
  <2>1. Count(Answering(s, k))' + Count(Waiting(s, k))' <=
          Count(Answering(s, k)) + Count(Waiting(s, k))
      BY <1>1 DEF Count
  <2> QED  BY <1>1, <2>1, AccountKept DEF Budget
<1>2. ASSUME NEW t \in Sessions, SessionReads(t) PROVE Within'
  <2>1. CASE ReadClosed(t)
      BY <1>1, <2>1 DEF ReadClosed, routerVars, deliveryVars, Answering, Key, Waiting, Registered
  <2> QED  BY <1>2, <2>1, ReadBudget DEF SessionReads
<1>3. ASSUME NEW t \in Sessions, Upgrade(t) \/ SessionStep(t) \/ Peer(t) PROVE Within'
  <2>1. UNCHANGED <<frameId, inbox, turn, routerPc, routerTo, routerFrame>>
      BY <1>3 DEF Upgrade, SessionStep, addSession, ProcessAccepts, ProcessFails, DropFailed,
                  LockToRespond, WriteResponse, ReadBroken, removeSession, CloseConn, Peer, Stall,
                  Resume, Disconnect, SetConn, routerVars, bridgeVars, deliveryVars
  <2>2. pending'[k] = pending[k] \/ pending'[k] = NoCall
      BY <1>3 DEF Upgrade, SessionStep, addSession, ProcessAccepts, ProcessFails, DropFailed,
                  LockToRespond, WriteResponse, ReadBroken, removeSession, CloseConn, Peer, Stall,
                  Resume, Disconnect, SetConn, bridgeVars, removePending, TypeOK, BridgeTypeOK
  <2> QED  BY <1>1, <2>1, <2>2 DEF Answering, Key, Waiting, Registered
<1>4. ASSUME RouteToSession PROVE Within'
  <2>1. Key(routerFrame) \in Ids
      BY <1>4, RoutedKey DEF RouteToSession
  <2>2. /\ UNCHANGED <<frameId, inbox, turn, routerFrame>>
        /\ ~Answering(s, k) /\ pending[Key(routerFrame)] # NoCall
        /\ routerTo' = SessionOf(pending[Key(routerFrame)])
        /\ pending' = [pending EXCEPT ![Key(routerFrame)] = NoCall]
      BY <1>4 DEF RouteToSession, RouteAnswer, Answering, Registered, sessionVars
  <2>3. Answering(s, k)' => Waiting(s, k) /\ ~Waiting(s, k)'
      BY <2>1, <2>2 DEF Answering, Key, Waiting, Registered, TypeOK, BridgeTypeOK
  <2>4. Waiting(s, k)' => Waiting(s, k)
      BY <2>1, <2>2 DEF Waiting, Registered, TypeOK, BridgeTypeOK
  <2>5. Count(Answering(s, k))' + Count(Waiting(s, k))' <=
          Count(Answering(s, k)) + Count(Waiting(s, k))
      BY <2>2, <2>3, <2>4 DEF Count
  <2> QED  BY <2>2, <2>5, AccountKept DEF Budget
<1>5. ASSUME RouterReceive \/ RouterStop \/ RouteNowhere, UNCHANGED <<sessionVars, deliveryVars>>
      PROVE  Within'
    BY <1>1, <1>5 DEF RouterReceive, RouterStop, RouteNowhere, ReturnToSelect, sessionVars,
                      Answering, Waiting, Registered
<1>6. ASSUME Broadcast PROVE Within'
    BY <1>1, <1>6 DEF Broadcast, WriteNext, ReturnToSelect, sessionVars,
                      Answering, Waiting, Registered
<1>7. ASSUME RouterLock PROVE Within'
    BY <1>1, <1>7 DEF RouterLock, bridgeVars, Answering, Key, Waiting, Registered
<1>8. ASSUME RouterWrite PROVE Within'
    BY <1>8, DeliverBudget
<1>9. ASSUME NodeNext \/ Cancel, UNCHANGED <<sessionVars, deliveryVars>> PROVE Within'
    BY <1>1, <1>9 DEF NodeNext, NodeAnswer, NodeEvent, NodeShort, Cancel, sessionVars, deliveryVars,
                      Answering, Key, Waiting, Registered
<1>10. ASSUME Finished \/ UNCHANGED vars PROVE Within'
    BY <1>1, <1>10 DEF Finished, vars, bridgeVars, sessionVars, deliveryVars,
                       Answering, Key, Waiting, Registered
<1> QED
    BY <1>2, <1>3, <1>4, <1>5, <1>6, <1>7, <1>8, <1>9, <1>10 DEF Next, RouterStep

--------------------------------------------------------------------------------
(***************************************************************************)
(* A peer gets at most one answer for each frame it sent, under each id,   *)
(* however often the node answers and whoever else uses the id.            *)
(***************************************************************************)
THEOREM OneAnswer == Spec => []OneAnswerPerFrame
<1>1. Inductive /\ RouterCarries /\ Budget => OneAnswerPerFrame
  <2> SUFFICES ASSUME Inductive, Budget, NEW s \in Sessions, NEW k \in Ids
               PROVE  Cardinality(AnswersFor(s, k)) <= Cardinality(FramesWith(s, k))
      BY DEF OneAnswerPerFrame
  <2>1. Cardinality(AnswersFor(s, k)) \in Nat /\ Cardinality(FramesWith(s, k)) \in Nat
      BY Counted DEF Inductive
  <2>2. \A owed : Count(owed) \in Nat
      BY DEF Count
  <2>3. Sum(s, k) <= Cardinality(FramesWith(s, k))
      BY DEF Budget
  <2> QED  BY <2>1, <2>2, <2>3 DEF Sum
<1> QED
    BY <1>1, InitCarries, StepCarries, InitBudget, StepBudget, InductiveHolds, PTL DEF Spec
--------------------------------------------------------------------------------
(***************************************************************************)
(* Client mode: the events a peer is sent have no gap, for any number of   *)
(* connections, frames and events.  A counter runs along the channel and   *)
(* gives each event in it its number; the last event a peer was sent is    *)
(* the one the router took last or, while that one is still on its way to  *)
(* the peer, the one before it.                                            *)
(***************************************************************************)

\* counter[i] is the number of the last event among those already taken
\* from the channel and its first i frames.
Numbered(counter) ==
    /\ counter \in [0..Len(events) -> Nat]
    /\ \A i \in 1..Len(events) :
         counter[i] = IF events[i].kind = "event" THEN counter[i - 1] + 1 ELSE counter[i - 1]
    /\ \A i \in 1..Len(events) : events[i].kind = "event" => events[i].num = counter[i]
    /\ counter[Len(events)] = emitted
    /\ routerFrame.kind = "event" => routerFrame.num = counter[0]

\* The event the router has is still to be sent to s.
Owed(s) ==
    \/ routerPc = "route" /\ routerFrame.kind = "event" /\ s \in sessions
    \/ routerPc = "broadcast" /\ (s = routerTo \/ s \in broadcastTo)

LastEvent(received, i) ==
    /\ i \in 1..Len(received)
    /\ received[i].kind = "event"
    /\ \A m \in i + 1..Len(received) : received[m].kind # "event"

\* s has been sent everything up to event n, but for event n if it is owed to s.
UpTo(s, n) ==
    conn[s] # "gone" /\ (s \in sessions \/ Owed(s)) =>
        \A i \in 1..Len(inbox[s]) :
            LastEvent(inbox[s], i) =>
                inbox[s][i].num = IF Owed(s) THEN n - 1 ELSE n

Account == \E counter : Numbered(counter) /\ \A s \in Sessions : UpTo(s, counter[0])

\* A session is not written to before it is in the bridge.
Untouched ==
    /\ routerTo \notin broadcastTo
    /\ \A s \in Sessions : wsPc[s] \in {"new", "joining"} =>
         inbox[s] = << >> /\ s # routerTo /\ s \notin broadcastTo

EventsInvariant ==
    Inductive /\ RouterCarries /\ Untouched /\ Account /\ EventsWithoutGaps

--------------------------------------------------------------------------------
(***************************************************************************)
(* What one more frame does to a peer's inbox.                             *)
(***************************************************************************)
LEMMA AppendParts ==
    ASSUME NEW received \in Seq(Frame), NEW f \in Frame
    PROVE  /\ Len(received) \in Nat
           /\ Append(received, f) \in Seq(Frame)
           /\ Len(Append(received, f)) = Len(received) + 1
           /\ Append(received, f)[Len(received) + 1] = f
           /\ \A i \in 1..Len(received) : Append(received, f)[i] = received[i]
OBVIOUS

LEMMA LastStays ==
    ASSUME NEW received \in Seq(Frame), NEW f \in Frame, f.kind # "event",
           NEW i \in 1..Len(Append(received, f)), LastEvent(Append(received, f), i)
    PROVE  /\ i \in 1..Len(received)
           /\ LastEvent(received, i)
           /\ Append(received, f)[i] = received[i]
<1> DEFINE longer == Append(received, f)
<1>1. /\ Len(received) \in Nat /\ Len(longer) = Len(received) + 1
      /\ longer[Len(received) + 1] = f
      /\ \A j \in 1..Len(received) : longer[j] = received[j]
    BY AppendParts
<1>2. LastEvent(longer, i) /\ i \in 1..Len(longer)
    OBVIOUS
<1> HIDE DEF longer
<1>3. i \in 1..Len(received)
    BY <1>1, <1>2 DEF LastEvent
<1>4. LastEvent(received, i)
    BY <1>1, <1>2, <1>3 DEF LastEvent
<1> QED  BY <1>1, <1>3, <1>4 DEF longer

LEMMA LastMoves ==
    ASSUME NEW received \in Seq(Frame), NEW f \in Frame, f.kind = "event",
           NEW i \in 1..Len(Append(received, f)), LastEvent(Append(received, f), i)
    PROVE  i = Len(received) + 1 /\ Append(received, f)[i] = f
<1> DEFINE longer == Append(received, f)
<1>1. /\ Len(received) \in Nat /\ Len(longer) = Len(received) + 1
      /\ longer[Len(received) + 1] = f
    BY AppendParts
<1>2. LastEvent(longer, i)
    OBVIOUS
<1> HIDE DEF longer
<1>3. i = Len(received) + 1
    BY <1>1, <1>2 DEF LastEvent
<1> QED  BY <1>1, <1>3 DEF longer

--------------------------------------------------------------------------------
(***************************************************************************)
(* The counter goes along with the channel.                                *)
(***************************************************************************)
LEMMA CounterStays ==
    ASSUME NEW counter, Numbered(counter), UNCHANGED <<events, emitted>>,
           routerFrame' = routerFrame \/ routerFrame' = Short
    PROVE  Numbered(counter)'
BY DEF Numbered, Short

LEMMA CounterExtends ==
    ASSUME NEW counter, Numbered(counter), TypeOK, NEW f \in Frame, Emit(f),
           routerFrame' = routerFrame,
           \/ f.kind # "event" /\ emitted' = emitted
           \/ f.kind = "event" /\ f.num = emitted + 1 /\ emitted' = emitted + 1
    PROVE  \E longer : Numbered(longer)' /\ longer[0] = counter[0]
<1> DEFINE longer == [i \in 0..Len(events) + 1 |->
                        IF i <= Len(events) THEN counter[i] ELSE emitted']
           more == Append(events, f)
<1>1. /\ Len(events) \in Nat /\ Len(more) = Len(events) + 1 /\ more[Len(events) + 1] = f
      /\ \A i \in 1..Len(events) : more[i] = events[i]
    BY AppendParts DEF TypeOK, BridgeTypeOK
<1>2. events' = more
    BY DEF Emit
<1> HIDE DEF more
<1>3. emitted \in Nat /\ emitted' \in Nat
    BY DEF TypeOK, BridgeTypeOK
<1>4. /\ longer \in [0..Len(more) -> Nat] /\ longer[Len(more)] = emitted'
      /\ \A i \in 0..Len(events) : longer[i] = counter[i]
    BY <1>1, <1>3 DEF Numbered
<1> HIDE DEF longer
<1>5. ASSUME NEW i \in 1..Len(more)
      PROVE  /\ longer[i] = IF more[i].kind = "event" THEN longer[i - 1] + 1 ELSE longer[i - 1]
             /\ more[i].kind = "event" => more[i].num = longer[i]
  <2>1. CASE i \in 1..Len(events)
    <3>1. i - 1 \in 0..Len(events) /\ i \in 0..Len(events)
        BY <1>1, <2>1
    <3>2. more[i] = events[i] /\ longer[i] = counter[i] /\ longer[i - 1] = counter[i - 1]
        BY <1>1, <1>4, <2>1, <3>1
    <3> QED  BY <2>1, <3>2 DEF Numbered
  <2>2. CASE i = Len(events) + 1
    <3>1. /\ more[i] = f /\ longer[i] = emitted' /\ i - 1 = Len(events)
          /\ longer[i - 1] = emitted
        BY <1>1, <1>4, <2>2 DEF Numbered
    <3> QED  BY <3>1
  <2> QED  BY <1>1, <2>1, <2>2
<1>6. longer[0] = counter[0]
    BY <1>1, <1>4
<1>7. routerFrame'.kind = "event" => routerFrame'.num = longer[0]
    BY <1>6 DEF Numbered
<1> QED  BY <1>2, <1>4, <1>5, <1>6, <1>7 DEF Numbered

LEMMA CounterShifts ==
    ASSUME NEW counter, Numbered(counter), TypeOK, RouterReceive
    PROVE  \E rest :
             /\ Numbered(rest)'
             /\ counter[0] \in Nat
             /\ rest[0] = IF routerFrame'.kind = "event" THEN counter[0] + 1 ELSE counter[0]
<1> DEFINE rest == [i \in 0..Len(events) - 1 |-> counter[i + 1]]
           less == Tail(events)
<1>1. /\ Len(events) \in Nat \ {0} /\ Len(less) = Len(events) - 1
      /\ \A i \in 1..Len(less) : less[i] = events[i + 1]
    BY DEF TypeOK, BridgeTypeOK, RouterReceive
<1>2. events' = less /\ emitted' = emitted /\ routerFrame' = events[1]
    BY DEF TypeOK, BridgeTypeOK, RouterReceive
<1> HIDE DEF less
<1>3. /\ rest \in [0..Len(less) -> Nat]
      /\ \A i \in 0..Len(less) : i + 1 \in 0..Len(events) /\ rest[i] = counter[i + 1]
    BY <1>1 DEF Numbered
<1> HIDE DEF rest
<1>4. ASSUME NEW i \in 1..Len(less)
      PROVE  /\ rest[i] = IF less[i].kind = "event" THEN rest[i - 1] + 1 ELSE rest[i - 1]
             /\ less[i].kind = "event" => less[i].num = rest[i]
  <2>1. /\ i \in 0..Len(less) /\ i - 1 \in 0..Len(less) /\ i + 1 \in 1..Len(events)
        /\ (i - 1) + 1 = i /\ (i + 1) - 1 = i
      BY <1>1
  <2>2. /\ less[i] = events[i + 1] /\ rest[i] = counter[i + 1]
        /\ rest[i - 1] = counter[(i + 1) - 1]
      BY <1>1, <1>3, <2>1
  <2> QED  BY <2>1, <2>2 DEF Numbered
<1>5. rest[Len(less)] = emitted
    BY <1>1, <1>3 DEF Numbered
<1>6. /\ rest[0] = counter[1] /\ 0 \in 0..Len(events) /\ 1 \in 1..Len(events) /\ 1 - 1 = 0
    BY <1>1, <1>3
<1>7. /\ counter[0] \in Nat
      /\ rest[0] = IF routerFrame'.kind = "event" THEN counter[0] + 1 ELSE counter[0]
      /\ routerFrame'.kind = "event" => routerFrame'.num = rest[0]
    BY <1>2, <1>6 DEF Numbered
<1> QED  BY <1>2, <1>3, <1>4, <1>5, <1>7 DEF Numbered

--------------------------------------------------------------------------------
LEMMA InitEvents == Init => EventsInvariant
<1> SUFFICES ASSUME Init PROVE EventsInvariant
    OBVIOUS
<1> DEFINE counter == [i \in 0..0 |-> 0]
<1>1. Untouched
    BY NoSessionAssumption DEF Init, Untouched
<1>2. Numbered(counter)
    BY DEF Init, BridgeInit, Numbered, Short
<1>3. \A s \in Sessions : UpTo(s, counter[0])
    BY DEF Init, UpTo
<1>4. Account
    BY <1>2, <1>3 DEF Account
<1>5. EventsWithoutGaps
    BY DEF Init, EventsWithoutGaps
<1> QED  BY <1>1, <1>4, <1>5, InitInductive, InitCarries DEF EventsInvariant

LEMMA StepUntouched == Inductive /\ RouterCarries /\ Untouched /\ [Next]_vars => Untouched'
<1> SUFFICES ASSUME Inductive, RouterCarries, Untouched, [Next]_vars PROVE Untouched'
    OBVIOUS
<1> USE DEF Inductive, TypeOK, BridgeTypeOK, Untouched
<1>1. ASSUME NEW s \in Sessions, Upgrade(s) \/ SessionReads(s) \/ SessionStep(s)
      PROVE  Untouched'
  <2>1. UNCHANGED <<inbox, routerTo, broadcastTo>>
      BY <1>1 DEF Upgrade, SessionReads, ReadLocal, ReadRegister, ReadRefuse, ReadClosed,
                  ReadFrame, SessionStep, addSession, ProcessAccepts, ProcessFails, DropFailed,
                  LockToRespond, WriteResponse, ReadBroken, removeSession, CloseConn, routerVars,
                  deliveryVars
  <2>2. \A t \in Sessions : wsPc'[t] \in {"new", "joining"} => wsPc[t] \in {"new", "joining"}
      BY <1>1 DEF Upgrade, SessionReads, ReadLocal, ReadRegister, ReadRefuse, ReadClosed,
                  SessionStep, addSession, ProcessAccepts, ProcessFails, DropFailed,
                  LockToRespond, WriteResponse, ReadBroken, removeSession, CloseConn, Goto
  <2> QED  BY <2>1, <2>2
<1>2. ASSUME UNCHANGED <<inbox, wsPc, routerTo, broadcastTo>> PROVE Untouched'
    BY <1>2
<1>3. ASSUME RouteToSession PROVE Untouched'
  <2>1. Key(routerFrame) \in Ids /\ Registered(Key(routerFrame))
      BY <1>3, RoutedKey DEF RouteToSession, RouteAnswer
  <2>2. SessionOf(pending[Key(routerFrame)]) \in sessions
      BY <2>1 DEF OwnersConnected
  <2>3. /\ UNCHANGED <<inbox, wsPc, broadcastTo>>
        /\ routerTo' \in sessions /\ broadcastTo = {}
      BY <1>3, <2>2 DEF RouteToSession, RouteAnswer, sessionVars, RouterCarries
  <2> QED  BY <2>3 DEF Membership, Inside
<1>4. ASSUME Broadcast PROVE Untouched'
  <2>1. /\ UNCHANGED <<inbox, wsPc>> /\ routerTo' \notin broadcastTo'
        /\ routerTo' \in sessions \cup {NoSession} /\ broadcastTo' \subseteq sessions
      BY <1>4 DEF Broadcast, WriteNext, sessionVars
  <2> QED  BY <2>1, NoSessionAssumption DEF Membership, Inside
<1>5. ASSUME RouterWrite PROVE Untouched'
  <2>1. /\ wsPc' = wsPc /\ routerTo' \notin broadcastTo'
        /\ routerTo' \in broadcastTo \cup {NoSession} /\ broadcastTo' \subseteq broadcastTo
        /\ \A t \in Sessions : t # routerTo => inbox'[t] = inbox[t]
      BY <1>5 DEF RouterWrite, WriteNext
  <2> QED  BY <2>1, NoSessionAssumption
<1> QED
    BY <1>1, <1>2, <1>3, <1>4, <1>5
    DEF Next, RouterStep, RouterLock, Peer, Stall, Resume, Disconnect, SetConn, Finished,
        vars, sessionVars, deliveryVars

--------------------------------------------------------------------------------
(***************************************************************************)
(* The account survives a step that sends nothing: the event taken is owed *)
(* to those who are in the bridge, and who leaves is owed nothing later.   *)
(***************************************************************************)
LEMMA UpToKept ==
    ASSUME NEW s \in Sessions, NEW n, UpTo(s, n), inbox'[s] = inbox[s],
           conn[s] = "gone" => conn'[s] = "gone",
           Owed(s)' <=> Owed(s), s \in sessions' => s \in sessions
    PROVE  UpTo(s, n)'
BY DEF UpTo

LEMMA SessionAccount ==
    ASSUME Inductive, Untouched, NEW t \in Sessions, NEW s \in Sessions, NEW n, UpTo(s, n),
           Upgrade(t) \/ SessionReads(t) \/ SessionStep(t) \/ Peer(t)
    PROVE  UpTo(s, n)' /\ UNCHANGED <<events, emitted, routerFrame, inbox>>
<1> USE DEF Inductive, TypeOK, BridgeTypeOK
<1>1. UNCHANGED <<events, emitted, routerFrame, inbox, routerPc, routerTo, broadcastTo>>
    BY DEF Upgrade, SessionReads, ReadLocal, ReadRegister, ReadRefuse, ReadClosed, ReadFrame,
           SessionStep, addSession, ProcessAccepts, ProcessFails, DropFailed, LockToRespond,
           WriteResponse, ReadBroken, removeSession, CloseConn, Peer, Stall, Resume,
           Disconnect, SetConn, routerVars, bridgeVars, deliveryVars
<1>2. CASE inbox[s] = << >>
    BY <1>1, <1>2 DEF UpTo
<1>3. CASE inbox[s] # << >>
  <2>1. wsPc[s] \notin {"new", "joining"}
      BY <1>3 DEF Untouched
  <2>2. conn[s] = "gone" => conn'[s] = "gone"
      BY <2>1 DEF Upgrade, SessionReads, ReadLocal, ReadRegister, ReadRefuse, ReadClosed,
           ReadFrame, SessionStep, addSession, ProcessAccepts, ProcessFails, DropFailed,
           LockToRespond, WriteResponse, ReadBroken, removeSession, CloseConn, Peer, Stall,
           Resume, Disconnect, SetConn, Goto
  <2>3. s \in sessions' => s \in sessions
      BY <2>1 DEF Upgrade, SessionReads, ReadLocal, ReadRegister, ReadRefuse, ReadClosed,
           ReadFrame, SessionStep, addSession, ProcessAccepts, ProcessFails, DropFailed,
           LockToRespond, WriteResponse, ReadBroken, removeSession, CloseConn, Peer, Stall,
           Resume, Disconnect, SetConn, Goto
  <2>4. CASE s \in sessions' <=> s \in sessions
    <3>1. Owed(s)' <=> Owed(s)
        BY <1>1, <2>4 DEF Owed
    <3> QED  BY <1>1, <2>2, <2>3, <3>1, UpToKept
  <2>5. CASE ~(s \in sessions' <=> s \in sessions)
    <3>1. s \notin sessions' /\ s \in sessions
        BY <2>3, <2>5
    <3>2. Owed(s)' => Owed(s)
        BY <1>1, <3>1 DEF Owed
    <3>3. Owed(s) /\ ~Owed(s)' => ~(s \in sessions' \/ Owed(s)')
        BY <3>1
    <3> QED  BY <1>1, <2>2, <3>1, <3>2, <3>3 DEF UpTo
  <2> QED  BY <2>4, <2>5
<1> QED  BY <1>1, <1>2, <1>3

LEMMA WriteAccount ==
    ASSUME Inductive, RouterCarries, Untouched, RouterWrite,
           NEW s \in Sessions, NEW n \in Nat, UpTo(s, n),
           routerFrame.kind = "event" => routerFrame.num = n
    PROVE  UpTo(s, n)'
<1> USE DEF Inductive, TypeOK, BridgeTypeOK
<1>1. /\ UNCHANGED <<sessions, conn>> /\ routerPc \in {"send", "broadcast"}
      /\ \/ routerPc' = "select" /\ broadcastTo = {}
         \/ /\ routerPc' = "broadcast" /\ routerTo' \in broadcastTo
            /\ broadcastTo' = broadcastTo \ {routerTo'}
    BY DEF RouterWrite, WriteNext, ReturnToSelect, RouterAims
<1>2. Owed(s)' <=> s \in broadcastTo
    BY <1>1 DEF Owed
<1>3. CASE inbox'[s] = inbox[s] /\ s # routerTo
  <2>1. Owed(s)' <=> Owed(s)
      BY <1>1, <1>2, <1>3 DEF Owed, RouterCarries
  <2> QED  BY <1>1, <1>3, <2>1, UpToKept
<1>4. CASE inbox'[s] = inbox[s] /\ s = routerTo
  <2>1. conn[s] = "gone" \/ inbox'[s] = Append(inbox[s], routerFrame)
      BY <1>4 DEF RouterWrite
  <2>2. inbox'[s] # Append(inbox[s], routerFrame)
    <3>1. Len(inbox[s]) # Len(Append(inbox[s], routerFrame))
        BY AppendParts
    <3> QED  BY <1>4, <3>1
  <2> QED  BY <1>1, <2>1, <2>2 DEF UpTo
<1>5. CASE inbox'[s] # inbox[s]
  <2>1. /\ s = routerTo /\ s \notin broadcastTo
        /\ inbox[s] \in Seq(Frame) /\ routerFrame \in Frame
        /\ inbox'[s] = Append(inbox[s], routerFrame)
      BY <1>5 DEF RouterWrite, Untouched
  <2>2. ~Owed(s)'
      BY <1>2, <2>1
  <2>3. CASE routerPc = "send"
    <3>1. routerFrame.kind # "event" /\ ~Owed(s)
        BY <2>3 DEF RouterCarries, Owed
    <3> SUFFICES ASSUME conn[s] # "gone", s \in sessions, NEW i \in 1..Len(inbox'[s]),
                        LastEvent(inbox'[s], i)
                 PROVE  inbox'[s][i].num = n
        BY <1>1, <2>2 DEF UpTo
    <3>2. i \in 1..Len(inbox[s]) /\ LastEvent(inbox[s], i) /\ inbox'[s][i] = inbox[s][i]
        BY <2>1, <3>1, LastStays
    <3> QED  BY <3>1, <3>2 DEF UpTo
  <2>4. CASE routerPc = "broadcast"
    <3>1. routerFrame.kind = "event" /\ routerFrame.num = n
        BY <2>4 DEF RouterCarries
    <3>2. ASSUME NEW i \in 1..Len(inbox'[s]), LastEvent(inbox'[s], i)
          PROVE  inbox'[s][i].num = n
        BY <2>1, <3>1, <3>2, LastMoves
    <3> QED  BY <2>2, <3>2 DEF UpTo
  <2> QED  BY <1>1, <2>3, <2>4
<1> QED  BY <1>3, <1>4, <1>5

LEMMA TakeAccount ==
    ASSUME RouterReceive, UNCHANGED <<sessionVars, deliveryVars>>, TypeOK,
           NEW s \in Sessions, NEW n \in Nat, NEW m \in Nat, UpTo(s, n),
           m = IF routerFrame'.kind = "event" THEN n + 1 ELSE n
    PROVE  UpTo(s, m)'
<1>1. /\ UNCHANGED <<inbox, sessions, conn>> /\ ~Owed(s)
      /\ Owed(s)' <=> routerFrame'.kind = "event" /\ s \in sessions
    BY DEF RouterReceive, sessionVars, deliveryVars, Owed
<1> SUFFICES ASSUME conn[s] # "gone", s \in sessions, NEW i \in 1..Len(inbox[s]),
                    LastEvent(inbox[s], i)
             PROVE  inbox[s][i].num = IF Owed(s)' THEN m - 1 ELSE m
    BY <1>1 DEF UpTo
<1>2. inbox[s][i].num = n
    BY <1>1 DEF UpTo
<1> QED  BY <1>1, <1>2

LEMMA StepAccount ==
    Inductive /\ RouterCarries /\ Untouched /\ Account /\ [Next]_vars => Account'
<1> SUFFICES ASSUME Inductive, RouterCarries, Untouched, Account, [Next]_vars PROVE Account'
    OBVIOUS
<1>1. PICK counter : Numbered(counter) /\ \A s \in Sessions : UpTo(s, counter[0])
    BY DEF Account
<1>2. TypeOK /\ counter[0] \in Nat
  <2>1. Len(events) \in Nat
      BY DEF Inductive, TypeOK, BridgeTypeOK
  <2>2. 0 \in 0..Len(events)
      BY <2>1
  <2> QED  BY <1>1, <2>2 DEF Inductive, Numbered
<1>3. ASSUME UNCHANGED <<events, emitted>>, routerFrame' = routerFrame \/ routerFrame' = Short,
             \A s \in Sessions : UpTo(s, counter[0])'
      PROVE  Account'
    BY <1>1, <1>3, CounterStays DEF Account
<1>4. ASSUME UNCHANGED <<inbox, sessions, conn>>, \A s \in Sessions : Owed(s)' <=> Owed(s)
      PROVE  \A s \in Sessions : UpTo(s, counter[0])'
    BY <1>1, <1>4 DEF UpTo
<1>5. ASSUME NEW t \in Sessions, Upgrade(t) \/ SessionReads(t) \/ SessionStep(t) \/ Peer(t)
      PROVE  Account'
  <2>1. \A s \in Sessions :
          UpTo(s, counter[0])' /\ UNCHANGED <<events, emitted, routerFrame, inbox>>
      BY <1>1, <1>5, SessionAccount
  <2> QED  BY <1>3, <1>5, <2>1
<1>6. ASSUME RouterReceive, UNCHANGED <<sessionVars, deliveryVars>> PROVE Account'
  <2>1. PICK rest :
          /\ Numbered(rest)'
          /\ rest[0] = IF routerFrame'.kind = "event" THEN counter[0] + 1 ELSE counter[0]
      BY <1>1, <1>2, <1>6, CounterShifts
  <2>2. \A s \in Sessions : UpTo(s, rest[0])'
      BY <1>1, <1>2, <1>6, <2>1, TakeAccount
  <2> QED  BY <2>1, <2>2 DEF Account
<1>7. ASSUME RouterStop \/ RouteNowhere, UNCHANGED <<sessionVars, deliveryVars>> PROVE Account'
    BY <1>3, <1>4, <1>7 DEF RouterStop, RouteNowhere, ReturnToSelect, sessionVars, deliveryVars, Owed
<1>8. ASSUME RouteToSession PROVE Account'
    BY <1>3, <1>4, <1>8 DEF RouteToSession, RouteAnswer, sessionVars, Owed
<1>9. ASSUME Broadcast PROVE Account'
  <2>1. /\ UNCHANGED <<events, emitted, inbox, sessions, conn>>
        /\ routerPc = "route" /\ routerFrame.kind = "event"
        /\ routerFrame' = routerFrame \/ routerFrame' = Short
        /\ \/ sessions = {} /\ routerPc' = "select"
           \/ /\ routerPc' = "broadcast" /\ routerTo' \in sessions
              /\ broadcastTo' = sessions \ {routerTo'}
      BY <1>9 DEF Broadcast, WriteNext, ReturnToSelect, sessionVars
  <2>2. \A s \in Sessions : Owed(s)' <=> Owed(s)
      BY <2>1 DEF Owed
  <2> QED  BY <1>3, <1>4, <2>1, <2>2
<1>10. ASSUME RouterLock PROVE Account'
    BY <1>3, <1>4, <1>10 DEF RouterLock, bridgeVars, Owed
<1>11. ASSUME RouterWrite PROVE Account'
  <2>1. /\ UNCHANGED <<events, emitted>>
        /\ routerFrame' = routerFrame \/ routerFrame' = Short
      BY <1>11 DEF RouterWrite, WriteNext, ReturnToSelect
  <2>2. \A s \in Sessions : UpTo(s, counter[0])'
      BY <1>1, <1>2, <1>11, WriteAccount DEF Numbered
  <2> QED  BY <1>3, <2>1, <2>2
<1>12. ASSUME NodeNext, UNCHANGED <<sessionVars, deliveryVars>> PROVE Account'
  <2>1. \E f \in Frame : /\ Emit(f)
                         /\ \/ f.kind # "event" /\ emitted' = emitted
                            \/ f.kind = "event" /\ f.num = emitted + 1 /\ emitted' = emitted + 1
    <3>1. CASE NodeAnswer
        BY <1>2, <3>1, AnswerEmitted DEF NodeAnswer, Answer, TypeOK
    <3>2. CASE NodeEvent
      <4>1. emitted + 1 \in 0..MaxEvents
          BY <1>2, <3>2, MaxEventsAssumption DEF NodeEvent, TypeOK, BridgeTypeOK
      <4> QED  BY <3>2, <4>1, FramesTyped DEF NodeEvent, Event
    <3>3. CASE NodeShort
        BY <3>3, FramesTyped DEF NodeShort, Short
    <3> QED  BY <1>12, <3>1, <3>2, <3>3 DEF NodeNext
  <2>2. UNCHANGED <<inbox, sessions, conn, routerPc, routerTo, broadcastTo, routerFrame>>
      BY <1>12 DEF NodeNext, NodeAnswer, NodeEvent, NodeShort, sessionVars, deliveryVars
  <2>3. PICK longer : Numbered(longer)' /\ longer[0] = counter[0]
      BY <1>1, <1>2, <2>1, <2>2, CounterExtends
  <2>4. \A s \in Sessions : UpTo(s, longer[0])'
      BY <1>4, <2>2, <2>3 DEF Owed
  <2> QED  BY <2>3, <2>4 DEF Account
<1>13. ASSUME (Cancel /\ UNCHANGED <<sessionVars, deliveryVars>>) \/ Finished \/ UNCHANGED vars
       PROVE  Account'
    BY <1>3, <1>4, <1>13
    DEF Cancel, Finished, vars, bridgeVars, sessionVars, deliveryVars, Owed
<1> QED
    BY <1>5, <1>6, <1>7, <1>8, <1>9, <1>10, <1>11, <1>12, <1>13 DEF Next, RouterStep

--------------------------------------------------------------------------------
(***************************************************************************)
(* Only a write adds to an inbox, and the event it adds was owed.          *)
(***************************************************************************)
LEMMA InboxGrows ==
    ASSUME [Next]_vars, NEW s \in Sessions, inbox'[s] # inbox[s]
    PROVE  RouterWrite
BY DEF Next, RouterStep, Upgrade, SessionReads, ReadLocal, ReadRegister, ReadRefuse, ReadClosed,
       ReadFrame, SessionStep, addSession, ProcessAccepts, ProcessFails, DropFailed,
       LockToRespond, WriteResponse, ReadBroken, removeSession, CloseConn, Peer, Stall, Resume,
       Disconnect, SetConn, RouteToSession, Broadcast, RouterLock, Finished, vars, sessionVars

LEMMA StepGaps == EventsInvariant /\ [Next]_vars => EventsWithoutGaps'
<1> SUFFICES ASSUME EventsInvariant, [Next]_vars, NEW s \in Sessions,
                    NEW i \in 1..Len(inbox'[s]), NEW j \in 1..Len(inbox'[s]),
                    i < j, inbox'[s][i].kind = "event", inbox'[s][j].kind = "event",
                    \A m \in i + 1..j - 1 : inbox'[s][m].kind # "event"
             PROVE  inbox'[s][j].num = inbox'[s][i].num + 1
    BY DEF EventsWithoutGaps
<1> USE DEF EventsInvariant, Inductive, TypeOK, BridgeTypeOK
<1>1. CASE inbox'[s] = inbox[s]
    BY <1>1 DEF EventsWithoutGaps
<1>2. CASE inbox'[s] # inbox[s]
  <2>1. RouterWrite
      BY <1>2, InboxGrows
  <2>2. /\ s = routerTo /\ conn[s] = "open" /\ routerPc \in {"send", "broadcast"}
        /\ inbox[s] \in Seq(Frame) /\ routerFrame \in Frame
        /\ inbox'[s] = Append(inbox[s], routerFrame)
      BY <1>2, <2>1 DEF RouterWrite, RouterAims
  <2>3. /\ Len(inbox[s]) \in Nat /\ Len(inbox'[s]) = Len(inbox[s]) + 1
        /\ inbox'[s][Len(inbox[s]) + 1] = routerFrame
        /\ \A m \in 1..Len(inbox[s]) : inbox'[s][m] = inbox[s][m]
      BY <2>2, AppendParts
  <2>4. i \in 1..Len(inbox[s]) /\ inbox[s][i] = inbox'[s][i]
      BY <2>3
  <2>5. CASE j \in 1..Len(inbox[s])
    <3>1. i \in Int /\ j \in Int /\ i >= 1 /\ j <= Len(inbox[s])
        BY <2>3, <2>4, <2>5
    <3>2. \A m \in i + 1..j - 1 : m \in 1..Len(inbox[s])
        BY ONLY <2>3, <3>1
    <3>3. \A m \in i + 1..j - 1 : inbox[s][m].kind # "event"
        BY <2>3, <3>2
    <3>4. inbox[s][j] = inbox'[s][j]
        BY <2>3, <2>5
    <3>5. EventsWithoutGaps
        OBVIOUS
    <3>6. inbox[s][j].num = inbox[s][i].num + 1
        BY <2>4, <2>5, <3>3, <3>4, <3>5 DEF EventsWithoutGaps
    <3> QED  BY <2>4, <3>4, <3>6
  <2>6. CASE j = Len(inbox[s]) + 1
    <3>1. routerFrame.kind = "event" /\ inbox'[s][j] = routerFrame
        BY <2>3, <2>6
    <3>2. Owed(s)
        BY <2>2, <3>1 DEF Owed, RouterCarries
    <3>3. LastEvent(inbox[s], i)
      <4>1. \A m \in i + 1..Len(inbox[s]) : inbox[s][m] = inbox'[s][m] /\ m \in i + 1..j - 1
          BY <2>3, <2>4, <2>6
      <4> QED  BY <2>4, <4>1 DEF LastEvent
    <3>4. PICK counter : Numbered(counter) /\ UpTo(s, counter[0])
        BY DEF Account
    <3>5. counter[0] \in Nat /\ routerFrame.num = counter[0]
      <4>1. Len(events) \in Nat
          OBVIOUS
      <4>2. 0 \in 0..Len(events)
          BY ONLY <4>1
      <4>3. counter \in [0..Len(events) -> Nat]
          BY <3>4 DEF Numbered
      <4>4. counter[0] \in Nat
          BY ONLY <4>2, <4>3
      <4>5. routerFrame.num = counter[0]
          BY ONLY <3>1, <3>4 DEF Numbered
      <4> QED  BY <4>4, <4>5
    <3>6. inbox[s][i].num = counter[0] - 1
        BY <2>2, <2>4, <3>2, <3>3, <3>4 DEF UpTo
    <3> QED  BY <2>4, <3>1, <3>5, <3>6
  <2> QED  BY <2>3, <2>5, <2>6
<1> QED  BY <1>1, <1>2

--------------------------------------------------------------------------------
(***************************************************************************)
(* Whatever peers join, stall and leave, the events a peer is sent are     *)
(* consecutive, each sent once and in the order the node made them.        *)
(***************************************************************************)
THEOREM NoGaps == Spec => []EventsWithoutGaps
<1>1. EventsInvariant /\ [Next]_vars => EventsInvariant'
    BY StepTyped, StepLocks, StepMembers, StepOwners, StepAwaited, StepCarries,
       StepUntouched, StepAccount, StepGaps
    DEF EventsInvariant, Inductive
<1>2. EventsInvariant => EventsWithoutGaps
    BY DEF EventsInvariant
<1> QED  BY InitEvents, <1>1, <1>2, PTL DEF Spec
================================================================================
