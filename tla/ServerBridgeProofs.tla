-------------------------- MODULE ServerBridgeProofs ---------------------------
(***************************************************************************)
(* The safety invariants of ServerBridge hold for any number of calls, ids *)
(* and events.  They are proved from Inductive, whose parts say who may be *)
(* registered, what the router holds, and where answers come from.         *)
(***************************************************************************)
EXTENDS ServerService, TLAPS

\* A registered call is inside Request, under its own id, and nothing has
\* been popped for it.
EntriesLive ==
    \A k \in Ids : \A c \in Calls : pending[k] = c =>
        frameId[c] = k /\ Open(c) /\ ~Undelivered(c)

\* While it delivers, the router holds an answer to the id of a call that
\* has entered Request and whose channel is free.
DeliveryLive ==
    routerPc = "send" =>
        /\ routerTarget \in Calls
        /\ httpPc[routerTarget] # "idle"
        /\ responseCh[routerTarget] = Empty
        /\ routerFrame.kind = "answer"
        /\ Key(routerFrame) = frameId[routerTarget]

\* A call that has not begun owns nothing, and only a returned call has a reply.
Fresh ==
    \A c \in Calls :
        /\ httpPc[c] = "idle" => responseCh[c] = Empty
        /\ httpPc[c] # "done" => reply[c].code = "none"

\* Answers are made by the node to frames it accepted, and their id is read so.
Genuine(f) == f.kind = "answer" => f.by \in asked /\ Key(f) \in ReadAs[frameId[f.by]]

AnswersGenuine ==
    /\ \A i \in 1..Len(events) : Genuine(events[i])
    /\ Genuine(routerFrame)
    /\ \A c \in Calls : responseCh[c] # Empty =>
           /\ responseCh[c].kind = "answer"
           /\ Genuine(responseCh[c])
           /\ Key(responseCh[c]) = frameId[c]

Inductive ==
    /\ TypeOK
    /\ EntriesLive
    /\ DeliveryLive
    /\ Fresh
    /\ AnswersGenuine
    /\ AnswersMatch
    /\ LostOnlyBehindOrphan

--------------------------------------------------------------------------------
(***************************************************************************)
(* Putting a frame the node makes at the end of its channel, and taking    *)
(* the frame at its front, leave a sequence of frames.                     *)
(***************************************************************************)
LEMMA EmitKeepsFrames ==
    ASSUME BridgeTypeOK, NEW f \in Frame, Emit(f)
    PROVE  /\ events' \in Seq(Frame)
           /\ Len(events') = Len(events) + 1
           /\ \A i \in 1..Len(events) : events'[i] = events[i]
           /\ events'[Len(events) + 1] = f
<1>1. events \in Seq(Frame)  BY DEF BridgeTypeOK
<1>2. events' = Append(events, f)  BY DEF Emit
<1> QED  BY <1>1, <1>2

LEMMA ReceiveKeepsFrames ==
    ASSUME BridgeTypeOK, RouterReceive
    PROVE  /\ events' \in Seq(Frame)
           /\ Len(events') = Len(events) - 1
           /\ \A i \in 1..Len(events') : i + 1 \in 1..Len(events) /\ events'[i] = events[i + 1]
           /\ 1 \in 1..Len(events)
           /\ routerFrame' = events[1]
           /\ routerFrame' \in Frame
<1>1. events \in Seq(Frame) /\ events # << >>  BY DEF BridgeTypeOK, RouterReceive
<1>2. events' = Tail(events) /\ routerFrame' = Head(events)  BY DEF RouterReceive
<1> QED  BY <1>1, <1>2

(***************************************************************************)
(* The frames the node can make are frames.                                *)
(***************************************************************************)
LEMMA FramesTyped ==
    /\ \A c \in Calls, k \in Ids : Answer(c, k) \in Frame
    /\ \A n \in 0..MaxEvents : Event(n) \in Frame
    /\ Short \in Frame
    /\ Empty \notin Frame
BY MaxEventsAssumption DEF Answer, Event, Short, Empty, Frame

(***************************************************************************)
(* What NodeAnswer emits is an answer to an accepted frame, with an id it  *)
(* can be read with; and the key of any answer is an id.                   *)
(***************************************************************************)
LEMMA AnswerEmitted ==
    ASSUME BridgeTypeOK, NodeAnswer
    PROVE  \E c \in asked : \E k \in ReadAs[frameId[c]] :
               Answer(c, k) \in Frame /\ Emit(Answer(c, k))
<1>1. PICK c \in asked : \E k \in ReadAs[frameId[c]] : Emit(Answer(c, k))
    BY DEF NodeAnswer
<1>2. c \in Calls /\ frameId[c] \in Ids
    BY DEF BridgeTypeOK
<1>3. PICK k \in ReadAs[frameId[c]] : Emit(Answer(c, k))
    BY <1>1
<1>4. k \in Ids
    BY <1>2, ReadAsAssumption
<1> QED  BY <1>2, <1>3, <1>4, FramesTyped

LEMMA AnswerKey ==
    ASSUME NEW f \in Frame, f.kind = "answer"
    PROVE  f.by \in Calls /\ Key(f) \in Ids
BY DEF Frame, Key

--------------------------------------------------------------------------------
LEMMA InitTyped == Init => TypeOK
<1> SUFFICES ASSUME Init PROVE TypeOK
    OBVIOUS
<1>1. BridgeTypeOK
  <2>1. << >> \in Seq(Frame)
      OBVIOUS
  <2>2. frameId \in [Calls -> Ids] /\ pending \in [Ids -> Calls \cup {NoCall}]
      BY DEF Init, BridgeInit
  <2>3. asked \subseteq Calls /\ emitted \in 0..MaxEvents
      BY MaxEventsAssumption DEF Init, BridgeInit
  <2>4. events \in Seq(Frame) /\ routerFrame \in Frame
      BY <2>1, FramesTyped DEF Init, BridgeInit
  <2> QED  BY <2>2, <2>3, <2>4 DEF Init, BridgeInit, BridgeTypeOK
<1>2. httpPc \in [Calls -> HttpPcs] /\ responseCh \in [Calls -> Frame \cup {Empty}]
    BY DEF Init, HttpPcs
<1>3. reply \in [Calls -> Reply]
    BY DEF Init, Reply
<1> QED  BY <1>1, <1>2, <1>3 DEF TypeOK

(***************************************************************************)
(* Typing is preserved by every step.                                      *)
(***************************************************************************)
LEMMA StepTyped == TypeOK /\ [Next]_vars => TypeOK'
<1> SUFFICES ASSUME TypeOK, [Next]_vars PROVE TypeOK'
    OBVIOUS
<1> USE MaxEventsAssumption, FramesTyped
<1>1. ASSUME NEW c \in Calls, Register(c) PROVE TypeOK'
    BY <1>1 DEF TypeOK, BridgeTypeOK, Register, registerPending, routerVars, Goto, HttpPcs
<1>2. ASSUME NEW c \in Calls, Refuse(c) PROVE TypeOK'
  <2>1. httpPc' \in [Calls -> HttpPcs]
      BY <1>2 DEF TypeOK, Refuse, ReturnError, Goto, HttpPcs
  <2>2. reply' \in [Calls -> Reply]
      BY <1>2 DEF TypeOK, Refuse, ReturnError, Reply
  <2> QED
      BY <1>2, <2>1, <2>2 DEF TypeOK, BridgeTypeOK, Refuse, registerRefused, routerVars
<1>3. ASSUME NEW c \in Calls, ProcessAccepts(c) \/ ProcessFails(c) \/ TimerFires(c)
      PROVE TypeOK'
    BY <1>3 DEF TypeOK, BridgeTypeOK, ProcessAccepts, ProcessFails, TimerFires,
                routerVars, Goto, HttpPcs
<1>4. ASSUME NEW c \in Calls, ReturnNodeFailed(c) \/ ReturnTimeout(c) PROVE TypeOK'
  <2>1. pending' \in [Ids -> Calls \cup {NoCall}] /\ UNCHANGED <<routerVars, asked, responseCh>>
      BY <1>4 DEF TypeOK, BridgeTypeOK, ReturnNodeFailed, ReturnTimeout, removePending
  <2>2. httpPc' \in [Calls -> HttpPcs]
      BY <1>4 DEF TypeOK, ReturnNodeFailed, ReturnTimeout, ReturnError, Goto, HttpPcs
  <2>3. reply' \in [Calls -> Reply]
      BY <1>4 DEF TypeOK, ReturnNodeFailed, ReturnTimeout, ReturnError, Reply
  <2> QED  BY <2>1, <2>2, <2>3 DEF TypeOK, BridgeTypeOK, routerVars
<1>5. ASSUME NEW c \in Calls, ReturnResponse(c) PROVE TypeOK'
  <2>1. responseCh[c] \in Frame
      BY <1>5 DEF TypeOK, ReturnResponse
  <2>2. responseCh[c].by \in Calls \cup {NoCall}
      BY <2>1 DEF Frame
  <2> QED
      BY <1>5, <2>2 DEF TypeOK, BridgeTypeOK, ReturnResponse, routerVars, Goto, HttpPcs, Reply
<1>6. ASSUME RouterReceive, UNCHANGED <<httpPc, responseCh, reply>> PROVE TypeOK'
    BY <1>6, ReceiveKeepsFrames DEF TypeOK, BridgeTypeOK, RouterReceive
<1>7. ASSUME RouterStop \/ RouteNowhere, UNCHANGED <<httpPc, responseCh, reply>> PROVE TypeOK'
    BY <1>7 DEF TypeOK, BridgeTypeOK, RouterStop, RouteNowhere, ReturnToSelect
<1>8. ASSUME RouteAnswer, UNCHANGED <<httpPc, responseCh, reply>> PROVE TypeOK'
  <2>1. Key(routerFrame) \in Ids
      BY <1>8, AnswerKey DEF TypeOK, BridgeTypeOK, RouteAnswer
  <2>2. pending[Key(routerFrame)] \in Calls
      BY <1>8, <2>1 DEF TypeOK, BridgeTypeOK, RouteAnswer, Registered
  <2> QED  BY <1>8, <2>2 DEF TypeOK, BridgeTypeOK, RouteAnswer
<1>9. ASSUME SendResponse PROVE TypeOK'
    BY <1>9 DEF TypeOK, BridgeTypeOK, SendResponse, ReturnToSelect
<1>10. ASSUME BroadcastToNobody PROVE TypeOK'
    BY <1>10 DEF TypeOK, BridgeTypeOK, BroadcastToNobody, ReturnToSelect
<1>11. ASSUME NodeAnswer \/ NodeEvent \/ NodeShort, UNCHANGED <<httpPc, responseCh, reply>>
       PROVE TypeOK'
  <2>1. events' \in Seq(Frame) /\ emitted' \in 0..MaxEvents
    <3>1. CASE NodeAnswer
        BY <3>1, AnswerEmitted, EmitKeepsFrames DEF TypeOK, BridgeTypeOK, NodeAnswer
    <3>2. CASE NodeEvent
        BY <3>2, EmitKeepsFrames DEF TypeOK, BridgeTypeOK, NodeEvent
    <3>3. CASE NodeShort
        BY <3>3, EmitKeepsFrames DEF TypeOK, BridgeTypeOK, NodeShort
    <3> QED  BY <1>11, <3>1, <3>2, <3>3
  <2> QED  BY <1>11, <2>1 DEF TypeOK, BridgeTypeOK, NodeAnswer, NodeEvent, NodeShort
<1>12. ASSUME Cancel, UNCHANGED <<httpPc, responseCh, reply>> PROVE TypeOK'
    BY <1>12 DEF TypeOK, BridgeTypeOK, Cancel
<1>13. ASSUME Finished \/ UNCHANGED vars PROVE TypeOK'
    BY <1>13 DEF TypeOK, BridgeTypeOK, Finished, vars
<1> QED
    BY <1>1, <1>2, <1>3, <1>4, <1>5, <1>6, <1>7, <1>8, <1>9, <1>10, <1>11, <1>12, <1>13
    DEF Next, RequestStep, RouterStep, NodeNext

--------------------------------------------------------------------------------
LEMMA InitInductive == Init => Inductive
<1> SUFFICES ASSUME Init PROVE Inductive
    OBVIOUS
<1>1. TypeOK
    BY InitTyped
<1>2. EntriesLive
    BY NoCallAssumption DEF Init, BridgeInit, EntriesLive
<1>3. DeliveryLive /\ Fresh /\ AnswersMatch
    BY DEF Init, BridgeInit, DeliveryLive, Fresh, AnswersMatch
<1>4. AnswersGenuine
    BY DEF Init, BridgeInit, AnswersGenuine, Genuine, Short
<1>5. LostOnlyBehindOrphan
    BY DEF Init, LostOnlyBehindOrphan, Open
<1> QED  BY <1>1, <1>2, <1>3, <1>4, <1>5 DEF Inductive

(***************************************************************************)
(* A step changes the entries in one of five ways: it registers a call, a  *)
(* call that gives up deletes its id, the router pops an entry, delivers,  *)
(* or a call returns; the others leave EntriesLive alone.                  *)
(***************************************************************************)
LEMMA StepEntries == Inductive /\ [Next]_vars => EntriesLive'
<1> SUFFICES ASSUME Inductive, [Next]_vars,
                    NEW k \in Ids, NEW d \in Calls, pending'[k] = d
             PROVE  (frameId[d] = k /\ Open(d) /\ ~Undelivered(d))'
    BY DEF EntriesLive
<1> USE NoCallAssumption DEF Inductive, TypeOK, BridgeTypeOK, Open, Undelivered, Held
<1>1. ASSUME NEW c \in Calls, Register(c)
      PROVE  (frameId[d] = k /\ Open(d) /\ ~Undelivered(d))'
    BY <1>1 DEF EntriesLive, DeliveryLive, Fresh, Register, registerPending, routerVars, Goto
<1>2. ASSUME NEW c \in Calls, Refuse(c)
      PROVE  (frameId[d] = k /\ Open(d) /\ ~Undelivered(d))'
    BY <1>2 DEF EntriesLive, Refuse, registerRefused, routerVars, ReturnError, Goto
<1>3. ASSUME NEW c \in Calls, ProcessAccepts(c) \/ ProcessFails(c) \/ TimerFires(c)
      PROVE  (frameId[d] = k /\ Open(d) /\ ~Undelivered(d))'
    BY <1>3 DEF EntriesLive, ProcessAccepts, ProcessFails, TimerFires, routerVars, Goto
<1>4. ASSUME NEW c \in Calls, ReturnNodeFailed(c) \/ ReturnTimeout(c)
      PROVE  (frameId[d] = k /\ Open(d) /\ ~Undelivered(d))'
    BY <1>4 DEF EntriesLive, ReturnNodeFailed, ReturnTimeout, removePending,
                routerVars, ReturnError, Goto
<1>5. ASSUME NEW c \in Calls, ReturnResponse(c)
      PROVE  (frameId[d] = k /\ Open(d) /\ ~Undelivered(d))'
    BY <1>5 DEF EntriesLive, ReturnResponse, routerVars, Goto
<1>6. ASSUME RouteAnswer, UNCHANGED <<httpPc, responseCh, reply>>
      PROVE  (frameId[d] = k /\ Open(d) /\ ~Undelivered(d))'
  <2>1. Key(routerFrame) \in Ids
      BY <1>6, AnswerKey DEF RouteAnswer
  <2> QED  BY <1>6, <2>1 DEF EntriesLive, RouteAnswer, Registered
<1>7. ASSUME SendResponse
      PROVE  (frameId[d] = k /\ Open(d) /\ ~Undelivered(d))'
    BY <1>7 DEF EntriesLive, DeliveryLive, SendResponse, ReturnToSelect
<1>8. ASSUME RouterReceive \/ RouterStop \/ RouteNowhere, UNCHANGED <<httpPc, responseCh, reply>>
      PROVE  (frameId[d] = k /\ Open(d) /\ ~Undelivered(d))'
    BY <1>8 DEF EntriesLive, RouterReceive, RouterStop, RouteNowhere, ReturnToSelect
<1>9. ASSUME BroadcastToNobody
      PROVE  (frameId[d] = k /\ Open(d) /\ ~Undelivered(d))'
    BY <1>9 DEF EntriesLive, BroadcastToNobody, ReturnToSelect
<1>10. ASSUME NodeNext \/ Cancel, UNCHANGED <<httpPc, responseCh, reply>>
      PROVE  (frameId[d] = k /\ Open(d) /\ ~Undelivered(d))'
    BY <1>10 DEF EntriesLive, NodeNext, NodeAnswer, NodeEvent, NodeShort, Cancel
<1>11. ASSUME Finished \/ UNCHANGED vars
      PROVE  (frameId[d] = k /\ Open(d) /\ ~Undelivered(d))'
    BY <1>11 DEF EntriesLive, Finished, vars
<1> QED
    BY <1>1, <1>2, <1>3, <1>4, <1>5, <1>6, <1>7, <1>8, <1>9, <1>10, <1>11
    DEF Next, RequestStep, RouterStep

(***************************************************************************)
(* What the router holds keeps a free channel: only the router sends, and  *)
(* only the owner of the channel takes from it.                            *)
(***************************************************************************)
LEMMA StepDelivery == Inductive /\ [Next]_vars => DeliveryLive'
<1> SUFFICES ASSUME Inductive, [Next]_vars PROVE DeliveryLive'
    OBVIOUS
<1> USE DEF Inductive, TypeOK, BridgeTypeOK, DeliveryLive
<1>1. ASSUME NEW c \in Calls, Register(c) \/ Refuse(c) PROVE DeliveryLive'
    BY <1>1 DEF Register, Refuse, routerVars, ReturnError, Goto
<1>2. ASSUME NEW c \in Calls, RequestStep(c) PROVE DeliveryLive'
    BY <1>2 DEF RequestStep, ProcessAccepts, ProcessFails, TimerFires, ReturnNodeFailed,
                ReturnTimeout, ReturnResponse, routerVars, ReturnError, Goto
<1>3. ASSUME RouteAnswer, UNCHANGED <<httpPc, responseCh, reply>> PROVE DeliveryLive'
  <2>1. Key(routerFrame) \in Ids
      BY <1>3, AnswerKey DEF RouteAnswer
  <2>2. PICK c \in Calls : pending[Key(routerFrame)] = c
      BY <1>3, <2>1 DEF RouteAnswer, Registered
  <2>3. frameId[c] = Key(routerFrame) /\ Open(c) /\ ~Undelivered(c)
      BY <2>1, <2>2 DEF EntriesLive
  <2> QED  BY <1>3, <2>2, <2>3 DEF RouteAnswer, Open, Undelivered, Key
<1>4. ASSUME RouterReceive \/ RouterStop \/ RouteNowhere \/ SendResponse \/ BroadcastToNobody
      PROVE  DeliveryLive'
    BY <1>4 DEF RouterReceive, RouterStop, RouteNowhere, SendResponse, BroadcastToNobody,
                ReturnToSelect
<1>5. ASSUME NodeNext \/ Cancel, UNCHANGED <<httpPc, responseCh, reply>> PROVE DeliveryLive'
    BY <1>5 DEF NodeNext, NodeAnswer, NodeEvent, NodeShort, Cancel
<1>6. ASSUME Finished \/ UNCHANGED vars PROVE DeliveryLive'
    BY <1>6 DEF Finished, vars
<1> QED  BY <1>1, <1>2, <1>3, <1>4, <1>5, <1>6 DEF Next, RouterStep

(***************************************************************************)
(* No step but its own first one gives a call a frame, and no step but its *)
(* last one a reply.                                                       *)
(***************************************************************************)
LEMMA StepFresh == Inductive /\ [Next]_vars => Fresh'
<1> SUFFICES ASSUME Inductive, [Next]_vars PROVE Fresh'
    OBVIOUS
<1> USE DEF Inductive, TypeOK, Fresh
<1>1. ASSUME NEW c \in Calls, Register(c) \/ Refuse(c) PROVE Fresh'
    BY <1>1 DEF Register, Refuse, routerVars, ReturnError, Goto
<1>2. ASSUME NEW c \in Calls, RequestStep(c) PROVE Fresh'
    BY <1>2 DEF RequestStep, ProcessAccepts, ProcessFails, TimerFires, ReturnNodeFailed,
                ReturnTimeout, ReturnResponse, routerVars, ReturnError, Goto
<1>3. ASSUME SendResponse PROVE Fresh'
    BY <1>3 DEF SendResponse, DeliveryLive
<1>4. ASSUME UNCHANGED <<httpPc, responseCh, reply>> PROVE Fresh'
    BY <1>4
<1> QED
    BY <1>1, <1>2, <1>3, <1>4 DEF Next, RouterStep, BroadcastToNobody, Finished, vars

(***************************************************************************)
(* Frames in the channel, in the router and in the callers' channels only  *)
(* move, and the set of accepted frames only grows.                        *)
(***************************************************************************)
LEMMA StepGenuine == Inductive /\ [Next]_vars => AnswersGenuine'
<1> SUFFICES ASSUME Inductive, [Next]_vars PROVE AnswersGenuine'
    OBVIOUS
<1> USE DEF Inductive, TypeOK, AnswersGenuine, Genuine
<1>1. ASSUME NEW c \in Calls, Register(c) \/ Refuse(c) PROVE AnswersGenuine'
    BY <1>1 DEF Register, Refuse, routerVars, ReturnError
<1>2. ASSUME NEW c \in Calls, ProcessAccepts(c) PROVE AnswersGenuine'
    BY <1>2 DEF ProcessAccepts, routerVars
<1>3. ASSUME NEW c \in Calls, ReturnResponse(c) PROVE AnswersGenuine'
    BY <1>3 DEF ReturnResponse, routerVars
<1>4. ASSUME NEW c \in Calls, ProcessFails(c) \/ TimerFires(c) \/ ReturnNodeFailed(c) \/ ReturnTimeout(c)
      PROVE  AnswersGenuine'
    BY <1>4 DEF ProcessFails, TimerFires, ReturnNodeFailed, ReturnTimeout, routerVars, ReturnError
<1>5. ASSUME RouterReceive, UNCHANGED <<httpPc, responseCh, reply>> PROVE AnswersGenuine'
    BY <1>5, ReceiveKeepsFrames DEF RouterReceive
<1>6. ASSUME SendResponse PROVE AnswersGenuine'
    BY <1>6 DEF SendResponse, DeliveryLive, ReturnToSelect, Short
<1>7. ASSUME RouterStop \/ RouteAnswer \/ RouteNowhere \/ Cancel, UNCHANGED <<httpPc, responseCh, reply>>
      PROVE  AnswersGenuine'
    BY <1>7 DEF RouterStop, RouteAnswer, RouteNowhere, Cancel, ReturnToSelect, Short
<1>8. ASSUME NodeNext, UNCHANGED <<httpPc, responseCh, reply>> PROVE AnswersGenuine'
  <2>1. PICK f \in Frame : Emit(f) /\ Genuine(f)
    <3>1. CASE NodeAnswer
        BY <3>1, AnswerEmitted DEF Answer, Key
    <3>2. CASE NodeEvent
      <4>1. emitted + 1 \in 0..MaxEvents
          BY <3>2, MaxEventsAssumption DEF NodeEvent, BridgeTypeOK
      <4> QED  BY <3>2, <4>1, FramesTyped DEF NodeEvent, Event
    <3>3. CASE NodeShort
        BY <3>3, FramesTyped DEF NodeShort, Short
    <3> QED  BY <1>8, <3>1, <3>2, <3>3 DEF NodeNext
  <2>2. \A i \in 1..Len(events') : Genuine(events'[i])
    <3>1. Len(events) \in Nat
        BY DEF BridgeTypeOK
    <3> QED  BY <2>1, <3>1, EmitKeepsFrames
  <2> QED  BY <1>8, <2>2 DEF NodeNext, NodeAnswer, NodeEvent, NodeShort
<1>9. ASSUME BroadcastToNobody \/ Finished \/ UNCHANGED vars PROVE AnswersGenuine'
    BY <1>9 DEF BroadcastToNobody, Finished, vars, ReturnToSelect, Short
<1> QED
    BY <1>1, <1>2, <1>3, <1>4, <1>5, <1>6, <1>7, <1>8, <1>9 DEF Next, RequestStep, RouterStep

(***************************************************************************)
(* A reply is written once, and an answer comes out of the caller's channel. *)
(***************************************************************************)
LEMMA StepAnswers == Inductive /\ [Next]_vars => AnswersMatch'
<1> SUFFICES ASSUME Inductive, [Next]_vars PROVE AnswersMatch'
    OBVIOUS
<1> USE DEF Inductive, TypeOK, AnswersMatch
<1>1. ASSUME NEW c \in Calls, Register(c) \/ Refuse(c) PROVE AnswersMatch'
    BY <1>1 DEF Register, Refuse, routerVars, ReturnError
<1>2. ASSUME NEW c \in Calls, ReturnResponse(c) PROVE AnswersMatch'
    BY <1>2 DEF ReturnResponse, routerVars, AnswersGenuine, Genuine
<1>3. ASSUME NEW c \in Calls, ProcessAccepts(c) \/ ProcessFails(c) \/ TimerFires(c)
                             \/ ReturnNodeFailed(c) \/ ReturnTimeout(c)
      PROVE  AnswersMatch'
    BY <1>3 DEF ProcessAccepts, ProcessFails, TimerFires, ReturnNodeFailed, ReturnTimeout,
                routerVars, ReturnError
<1>4. ASSUME UNCHANGED <<frameId, asked, reply>> PROVE AnswersMatch'
    BY <1>4
<1> QED
    BY <1>1, <1>2, <1>3, <1>4
    DEF Next, RequestStep, RouterStep, RouterReceive, RouterStop, RouteAnswer, RouteNowhere,
        SendResponse, BroadcastToNobody, NodeNext, NodeAnswer, NodeEvent, NodeShort,
        Cancel, Finished, vars

(***************************************************************************)
(* A call loses its entry only to the router, which then holds its answer, *)
(* or to a twin that gives up.  The twin no longer had the entry, so it    *)
(* had been popped too: its answer lies unread, or it lost it the same way. *)
(***************************************************************************)
LEMMA StepLost == Inductive /\ [Next]_vars => LostOnlyBehindOrphan'
<1> DEFINE Orphan(c) == \E d \in Calls \ {c} : /\ frameId[d] = frameId[c]
                                               /\ reply[d].code \in {"timeout", "nodeFailed"}
                                               /\ Undelivered(d)
<1> SUFFICES ASSUME Inductive, [Next]_vars, NEW c \in Calls,
                    (Open(c) /\ pending[frameId[c]] # c /\ ~Undelivered(c))'
             PROVE  Orphan(c)'
    BY DEF LostOnlyBehindOrphan
<1> USE DEF Inductive, TypeOK, BridgeTypeOK, Open, Undelivered, Held
<1>1. ASSUME NEW d \in Calls, Register(d) PROVE Orphan(c)'
  <2>1. /\ c # d /\ Open(c) /\ ~Undelivered(c) /\ pending[frameId[c]] # c
        /\ frameId' = frameId /\ reply' = reply
        /\ \A e \in Calls : Undelivered(e)' <=> Undelivered(e)
    <3>1. /\ \A e \in Calls : Undelivered(e)' <=> Undelivered(e)
          /\ frameId' = frameId /\ reply' = reply
        BY <1>1 DEF Register, routerVars
    <3>2. pending' = [pending EXCEPT ![frameId[d]] = d] /\ pending[frameId[d]] = NoCall
        BY <1>1 DEF Register, registerPending, Registered
    <3>3. c # d /\ pending[frameId[c]] # c
        BY <3>1, <3>2, NoCallAssumption
    <3>4. Open(c) /\ ~Undelivered(c)
        BY <1>1, <3>1, <3>3 DEF Register, Goto
    <3> QED  BY <3>1, <3>3, <3>4
  <2> QED  BY <2>1 DEF LostOnlyBehindOrphan
<1>2. ASSUME NEW d \in Calls, Refuse(d) PROVE Orphan(c)'
    BY <1>2 DEF Refuse, registerRefused, routerVars, ReturnError, Goto, LostOnlyBehindOrphan, Fresh
<1>3. ASSUME NEW d \in Calls, ProcessAccepts(d) \/ ProcessFails(d) \/ TimerFires(d)
      PROVE  Orphan(c)'
    BY <1>3 DEF ProcessAccepts, ProcessFails, TimerFires, routerVars, Goto, LostOnlyBehindOrphan
<1>4. ASSUME NEW d \in Calls, ReturnNodeFailed(d) \/ ReturnTimeout(d) PROVE Orphan(c)'
  <2>1. /\ Open(d) /\ c # d /\ Open(c) /\ ~Undelivered(c)
        /\ \A e \in Calls : Undelivered(e)' <=> Undelivered(e)
        /\ \A e \in Calls \ {d} : reply'[e] = reply[e]
        /\ reply'[d].code \in {"timeout", "nodeFailed"}
        /\ frameId' = frameId
      BY <1>4 DEF ReturnNodeFailed, ReturnTimeout, routerVars, ReturnError, Goto
  <2>2. CASE pending[frameId[c]] # c
    <3>1. PICK e \in Calls \ {c} : /\ frameId[e] = frameId[c]
                                    /\ reply[e].code \in {"timeout", "nodeFailed"}
                                    /\ Undelivered(e)
        BY <2>1, <2>2 DEF LostOnlyBehindOrphan
    <3> QED  BY <2>1, <3>1
  <2>3. CASE pending[frameId[c]] = c
    <3>1. frameId[d] = frameId[c]
        BY <1>4, <2>1, <2>3 DEF ReturnNodeFailed, ReturnTimeout, removePending
    <3>2. CASE Undelivered(d)
        BY <2>1, <3>1, <3>2
    <3>3. CASE ~Undelivered(d)
      <4>1. PICK e \in Calls \ {d} : /\ frameId[e] = frameId[d]
                                      /\ reply[e].code \in {"timeout", "nodeFailed"}
                                      /\ Undelivered(e)
          BY <2>1, <2>3, <3>1, <3>3 DEF LostOnlyBehindOrphan
      <4>2. e # c
          BY <2>1, <4>1 DEF Fresh
      <4> QED  BY <2>1, <3>1, <4>1, <4>2
    <3> QED  BY <3>2, <3>3
  <2> QED  BY <2>2, <2>3
<1>5. ASSUME NEW d \in Calls, ReturnResponse(d) PROVE Orphan(c)'
  <2>1. /\ c # d /\ Open(c) /\ ~Undelivered(c) /\ pending[frameId[c]] # c
        /\ frameId' = frameId
        /\ \A e \in Calls \ {d} : /\ reply'[e] = reply[e]
                                    /\ Undelivered(e)' <=> Undelivered(e)
      BY <1>5 DEF ReturnResponse, routerVars, Goto
  <2>2. PICK e \in Calls \ {c} : /\ frameId[e] = frameId[c]
                                  /\ reply[e].code \in {"timeout", "nodeFailed"}
                                  /\ Undelivered(e)
      BY <2>1 DEF LostOnlyBehindOrphan
  <2>3. e # d
      BY <1>5, <2>2 DEF Fresh, ReturnResponse, Goto
  <2> QED  BY <2>1, <2>2, <2>3
<1>6. ASSUME RouteAnswer, UNCHANGED <<httpPc, responseCh, reply>> PROVE Orphan(c)'
  <2>1. Key(routerFrame) \in Ids
      BY <1>6, AnswerKey DEF RouteAnswer
  <2> QED  BY <1>6, <2>1 DEF RouteAnswer, LostOnlyBehindOrphan
<1>7. ASSUME SendResponse PROVE Orphan(c)'
  <2>1. /\ Open(c) /\ ~Undelivered(c) /\ pending[frameId[c]] # c
        /\ frameId' = frameId /\ reply' = reply
        /\ \A e \in Calls : Undelivered(e) => Undelivered(e)'
      BY <1>7 DEF SendResponse, DeliveryLive, Frame, Empty, ReturnToSelect
  <2> QED  BY <2>1 DEF LostOnlyBehindOrphan
<1>8. ASSUME RouterReceive \/ RouterStop \/ RouteNowhere, UNCHANGED <<httpPc, responseCh, reply>>
      PROVE  Orphan(c)'
    BY <1>8 DEF RouterReceive, RouterStop, RouteNowhere, LostOnlyBehindOrphan, ReturnToSelect
<1>9. ASSUME BroadcastToNobody PROVE Orphan(c)'
    BY <1>9 DEF BroadcastToNobody, LostOnlyBehindOrphan, ReturnToSelect
<1>10. ASSUME NodeNext \/ Cancel, UNCHANGED <<httpPc, responseCh, reply>> PROVE Orphan(c)'
    BY <1>10 DEF NodeNext, NodeAnswer, NodeEvent, NodeShort, Cancel, LostOnlyBehindOrphan
<1>11. ASSUME Finished \/ UNCHANGED vars PROVE Orphan(c)'
    BY <1>11 DEF Finished, vars, LostOnlyBehindOrphan
<1> QED
    BY <1>1, <1>2, <1>3, <1>4, <1>5, <1>6, <1>7, <1>8, <1>9, <1>10, <1>11
    DEF Next, RequestStep, RouterStep

--------------------------------------------------------------------------------
(***************************************************************************)
(* Inductive holds in every reachable state.                               *)
(***************************************************************************)
THEOREM InductiveHolds == Spec => []Inductive
<1>1. Inductive /\ [Next]_vars => Inductive'
    BY StepTyped, StepEntries, StepDelivery, StepFresh, StepGenuine, StepAnswers, StepLost
    DEF Inductive
<1> QED  BY InitInductive, <1>1, PTL DEF Spec

(***************************************************************************)
(* Every variable keeps its type.                                          *)
(***************************************************************************)
THEOREM TypeCorrect == Spec => []TypeOK
BY InductiveHolds, PTL DEF Inductive

(***************************************************************************)
(* The router never blocks on the channel of an HTTP waiter.               *)
(***************************************************************************)
THEOREM SendsNeverBlock == Spec => []SendNeverBlocks
<1>1. Inductive => SendNeverBlocks
    BY DEF Inductive, DeliveryLive, SendNeverBlocks
<1> QED  BY <1>1, InductiveHolds, PTL

(***************************************************************************)
(* Every entry of the pending table belongs to a call inside Request.      *)
(***************************************************************************)
THEOREM EntriesNeverLeak == Spec => []NoLeakedEntry
<1>1. Inductive => NoLeakedEntry
    BY DEF Inductive, TypeOK, BridgeTypeOK, EntriesLive, NoLeakedEntry, Registered
<1> QED  BY <1>1, InductiveHolds, PTL

(***************************************************************************)
(* Whatever Request returns as an answer, the node made for a request with *)
(* that id, or with one whose answers can be read as having it.            *)
(***************************************************************************)
THEOREM AnswersAlwaysMatch == Spec => []AnswersMatch
BY InductiveHolds, PTL DEF Inductive

(***************************************************************************)
(* A call is deprived of its entry only behind an answer lost by a twin.   *)
(***************************************************************************)
THEOREM LossNeedsOrphan == Spec => []LostOnlyBehindOrphan
BY InductiveHolds, PTL DEF Inductive
--------------------------------------------------------------------------------
(***************************************************************************)
(* Step simulation: every step of ServerBridge is a step of RequestService *)
(* or leaves it alone, for any number of calls and ids.  (That every open  *)
(* request is replied to is liveness, which the runs check.)               *)
(***************************************************************************)

\* The node has a call's frame exactly from the end of Process on.
AskedInWait ==
    \A c \in Calls :
        /\ httpPc[c] \in {"idle", "process", "failed"} => c \notin asked
        /\ httpPc[c] \in {"wait", "expired"} => c \in asked

LEMMA StepAsked == TypeOK /\ AskedInWait /\ [Next]_vars => AskedInWait'
<1> SUFFICES ASSUME TypeOK, AskedInWait, [Next]_vars PROVE AskedInWait'
    OBVIOUS
<1> USE DEF TypeOK, AskedInWait
<1>1. ASSUME NEW c \in Calls, Register(c) \/ Refuse(c) PROVE AskedInWait'
    BY <1>1 DEF Register, Refuse, ReturnError, Goto
<1>2. ASSUME NEW c \in Calls, RequestStep(c) PROVE AskedInWait'
    BY <1>2 DEF RequestStep, ProcessAccepts, ProcessFails, TimerFires, ReturnNodeFailed,
                ReturnTimeout, ReturnResponse, ReturnError, Goto
<1>3. ASSUME UNCHANGED <<httpPc, asked>> PROVE AskedInWait'
    BY <1>3
<1> QED
    BY <1>1, <1>2, <1>3
    DEF Next, RouterStep, RouterReceive, RouterStop, RouteAnswer, RouteNowhere,
        SendResponse, BroadcastToNobody, NodeNext, NodeAnswer, NodeEvent, NodeShort,
        Cancel, Finished, vars

LEMMA InitService == Init => Service!Init
BY DEF Init, BridgeInit, Service!Init, servicePhase

(***************************************************************************)
(* The simulation of one step.  Register submits, a refusal needs its twin *)
(* inside (EntriesLive), an answer is one the node made and that can be    *)
(* read with this id (AnswersGenuine), and the rest of the bridge is       *)
(* invisible.                                                              *)
(***************************************************************************)
LEMMA StepService ==
    Inductive /\ AskedInWait /\ [Next]_vars => [Service!Next]_(Service!serviceVars)
<1> SUFFICES ASSUME Inductive, AskedInWait, [Next]_vars
             PROVE  [Service!Next]_(Service!serviceVars)
    OBVIOUS
<1> USE DEF Inductive, TypeOK, BridgeTypeOK, AskedInWait, Goto
<1>1. ASSUME NEW c \in Calls, Register(c) PROVE Service!Submit(c)
    BY <1>1 DEF Register, routerVars, Service!Submit, servicePhase
<1>2. ASSUME NEW c \in Calls, Refuse(c) PROVE Service!RefuseDuplicate(c)
  <2>1. PICK d \in Calls : pending[frameId[c]] = d
      BY <1>2 DEF Refuse, registerRefused, Registered
  <2>2. frameId[d] = frameId[c] /\ Open(d) /\ d # c
      BY <1>2, <2>1 DEF EntriesLive, Refuse, ReturnError, Open
  <2>3. servicePhase[d] = "open" /\ servicePhase[c] = "idle"
      BY <1>2, <2>2 DEF servicePhase, Open, Refuse, ReturnError
  <2>4. Service!Conclude(c, "duplicate", c)
      BY <1>2 DEF Service!Conclude, Refuse, ReturnError, routerVars, servicePhase
  <2> QED  BY <2>2, <2>3, <2>4 DEF Service!RefuseDuplicate
<1>3. ASSUME NEW c \in Calls, ProcessAccepts(c) PROVE Service!NodeTakes(c)
    BY <1>3 DEF ProcessAccepts, routerVars, Service!NodeTakes, servicePhase
<1>4. ASSUME NEW c \in Calls, ProcessFails(c) \/ TimerFires(c)
      PROVE  UNCHANGED Service!serviceVars
    BY <1>4 DEF ProcessFails, TimerFires, routerVars, Service!serviceVars, servicePhase
<1>5. ASSUME NEW c \in Calls, ReturnNodeFailed(c) PROVE Service!Give(c)
    BY <1>5 DEF ReturnNodeFailed, ReturnError, routerVars, Service!Give,
                Service!GiveNodeFailed, Service!Conclude, servicePhase
<1>6. ASSUME NEW c \in Calls, ReturnTimeout(c) PROVE Service!Give(c)
    BY <1>6 DEF ReturnTimeout, ReturnError, routerVars, Service!Give,
                Service!GiveTimeout, Service!Conclude, servicePhase
<1>7. ASSUME NEW c \in Calls, ReturnResponse(c) PROVE Service!Give(c)
  <2>1. /\ responseCh[c].by \in asked
        /\ frameId[c] \in ReadAs[frameId[responseCh[c].by]]
      BY <1>7 DEF ReturnResponse, AnswersGenuine, Genuine
  <2>2. /\ servicePhase[c] = "open" /\ c \in asked
        /\ Service!Conclude(c, "answer", responseCh[c].by)
      BY <1>7 DEF ReturnResponse, routerVars, Service!Conclude, servicePhase
  <2> QED  BY <2>1, <2>2 DEF Service!Give, Service!GiveAnswer
<1>8. ASSUME UNCHANGED <<frameId, httpPc, asked, reply>>
      PROVE  UNCHANGED Service!serviceVars
    BY <1>8 DEF Service!serviceVars, servicePhase
<1> QED
    BY <1>1, <1>2, <1>3, <1>4, <1>5, <1>6, <1>7, <1>8
    DEF Next, RequestStep, RouterStep, RouterReceive, RouterStop, RouteAnswer, RouteNowhere,
        SendResponse, BroadcastToNobody, NodeNext, NodeAnswer, NodeEvent, NodeShort,
        Cancel, Finished, vars, Service!Next

(***************************************************************************)
(* synapBridge.Request never does what the one-reply service would not do: *)
(* no second reply, no reply to a request that is not in, no false         *)
(* duplicate, and no answer the node did not make for a request whose      *)
(* answers can be read as this one's.                                      *)
(***************************************************************************)
THEOREM ServiceSimulated == Spec => Service!Init /\ [][Service!Next]_(Service!serviceVars)
<1>1. Init => AskedInWait
    BY DEF Init, BridgeInit, AskedInWait
<1>2. Inductive => TypeOK
    BY DEF Inductive
<1> QED
    BY InitService, InductiveHolds, StepAsked, StepService, <1>1, <1>2, PTL DEF Spec
================================================================================
