------------------------------ MODULE SynapBridge ------------------------------
(***************************************************************************)
(* The part of synap_bridge.go that both modes of the program share: the   *)
(* pending table, which maps the 16-byte id of a request in flight to      *)
(* whoever waits for its answer, and the router goroutine, which takes     *)
(* frames off the node's event channel and looks their ids up.  The        *)
(* goroutines that register requests differ by mode and are added by       *)
(* ServerBridge (HTTP) and ClientBridge (WebSocket).                       *)
(*                                                                         *)
(* Every action is one critical section of synapBridge.mu, one channel     *)
(* operation or one call of the node, in the order the code makes them.    *)
(* A definition marked "Wrong" is a bug the code does not have: no         *)
(* specification uses it, it is there to try the properties on.            *)
(***************************************************************************)
EXTENDS Naturals, Sequences

CONSTANTS
    Calls,      \* the calls of Request or DispatchToSession, one per frame
    Ids,        \* request ids after normalizeID
    ReadAs,     \* ReadAs[k]: the ids the router may read in an answer to id k
    NoCall,     \* absence of a call
    EventsCap,  \* capacity of the channel node.Events() returns
    MaxEvents   \* bound: how many events the node ever emits

ASSUME ReadAsAssumption ==
    /\ ReadAs \in [Ids -> SUBSET Ids]
    /\ \A k \in Ids : k \in ReadAs[k]
ASSUME NoCallAssumption == NoCall \notin Calls
ASSUME EventsCapAssumption == EventsCap \in Nat \ {0}
ASSUME MaxEventsAssumption == MaxEvents \in Nat

VARIABLES
    frameId,      \* frameId[c]: the id in the frame of call c, never changed
    pending,      \* pending[k]: the call registered under id k, or NoCall
    asked,        \* the calls whose frame node.Process accepted
    events,       \* frames queued in node.Events()
    emitted,      \* how many events the node has emitted
    ctxDone,      \* the context given to Start is cancelled
    routerPc,     \* where the goroutine of Start is
    routerFrame,  \* the frame it is routing (Short when it has none)
    routerTarget  \* the call whose entry it popped, or NoCall

bridgeVars == <<frameId, pending, asked, events, emitted, ctxDone,
                routerPc, routerFrame, routerTarget>>

(***************************************************************************)
(* Frames.  `by' is the call a frame answers, `id' the id that             *)
(* synapResponseID reads in it, `num' the number of an event.  An answer   *)
(* that begins with its opcode has its id read as it is.  An envelope      *)
(* begins with the id, and if that begins like an opcode the bytes from    *)
(* its fifth on are read: they may be the id of another request.  If it    *)
(* begins like the opcode of an event the envelope is broadcast, and is    *)
(* one of the events here.  CardExchange has the bytes.                    *)
(***************************************************************************)
Frame == [kind : {"answer"}, by : Calls, id : Ids]
         \cup [kind : {"event", "short"}, by : {NoCall}, num : 0..MaxEvents]

Answer(c, k) == [kind |-> "answer", by |-> c, id |-> k]
Event(n)     == [kind |-> "event", by |-> NoCall, num |-> n]

\* Shorter than the 20 bytes an id needs: synapResponseID fails.
Short        == [kind |-> "short", by |-> NoCall, num |-> 0]

\* requestKey(synapResponseID(f)), for an answer f
Key(f) == f.id

BridgeInit ==
    /\ frameId \in [Calls -> Ids]
    /\ pending = [k \in Ids |-> NoCall]
    /\ asked = {}
    /\ events = << >>
    /\ emitted = 0
    /\ ctxDone = FALSE
    /\ routerPc = "select"
    /\ routerFrame = Short
    /\ routerTarget = NoCall

--------------------------------------------------------------------------------
(***************************************************************************)
(* The pending table.  registerPending is a test and a set under one lock; *)
(* removePending deletes by id, whoever is registered under it.            *)
(***************************************************************************)
Registered(k) == pending[k] # NoCall

\* Wrong: no test for an entry that is there already
registerOverwrites(c) ==
    pending' = [pending EXCEPT ![frameId[c]] = c]

\* Wrong: keeps the key where the waiter belongs
registerStoresKey(c) ==
    /\ ~Registered(frameId[c])
    /\ pending' = [pending EXCEPT ![frameId[c]] = frameId[c]]

registerPending(c) ==
    /\ ~Registered(frameId[c])
    /\ pending' = [pending EXCEPT ![frameId[c]] = c]

\* Wrong: refuses an id that is free
registerRefusesAny(c) == UNCHANGED pending

registerRefused(c) ==
    /\ Registered(frameId[c])
    /\ UNCHANGED pending

removePending(c) ==
    pending' = [pending EXCEPT ![frameId[c]] = NoCall]

--------------------------------------------------------------------------------
(***************************************************************************)
(* The node (external).  A frame Process accepted may be answered at any   *)
(* later time, more than once, or never; answers to different requests     *)
(* come in any order.  A frame it refused is not answered.  Emitting       *)
(* blocks the node while the channel is full.                              *)
(***************************************************************************)
Emit(f) ==
    /\ Len(events) < EventsCap
    /\ events' = Append(events, f)

NodeAnswer ==
    /\ \E c \in asked : \E k \in ReadAs[frameId[c]] : Emit(Answer(c, k))
    /\ UNCHANGED <<frameId, pending, asked, emitted, ctxDone,
                   routerPc, routerFrame, routerTarget>>

NodeEvent ==
    /\ emitted < MaxEvents
    /\ Emit(Event(emitted + 1))
    /\ emitted' = emitted + 1
    /\ UNCHANGED <<frameId, pending, asked, ctxDone,
                   routerPc, routerFrame, routerTarget>>

NodeShort ==
    /\ Emit(Short)
    /\ UNCHANGED <<frameId, pending, asked, emitted, ctxDone,
                   routerPc, routerFrame, routerTarget>>

\* SIGINT or SIGTERM cancels the context main gave to Run and Run to Start.
Cancel ==
    /\ ~ctxDone
    /\ ctxDone' = TRUE
    /\ UNCHANGED <<frameId, pending, asked, events, emitted,
                   routerPc, routerFrame, routerTarget>>

--------------------------------------------------------------------------------
(***************************************************************************)
(* The router goroutine.  Its select takes either ready case, so it may    *)
(* stop with frames still queued, and may go on routing after Cancel.      *)
(***************************************************************************)
RouterReceive ==
    /\ routerPc = "select"
    /\ events # << >>
    /\ routerFrame' = Head(events)
    /\ events' = Tail(events)
    /\ routerPc' = "route"
    /\ UNCHANGED <<frameId, pending, asked, emitted, ctxDone, routerTarget>>

RouterStop ==
    /\ routerPc = "select"
    /\ ctxDone
    /\ routerPc' = "stopped"
    /\ UNCHANGED <<frameId, pending, asked, events, emitted, ctxDone,
                   routerFrame, routerTarget>>

\* routeFrame returns; its locals are gone.
ReturnToSelect ==
    /\ routerPc' = "select"
    /\ routerFrame' = Short
    /\ routerTarget' = NoCall

\* Wrong: looks the entry up and leaves it in the table
RouteAnswerKeeps ==
    /\ routerPc = "route"
    /\ routerFrame.kind = "answer"
    /\ Registered(Key(routerFrame))
    /\ routerTarget' = pending[Key(routerFrame)]
    /\ routerPc' = "send"
    /\ UNCHANGED <<frameId, pending, asked, events, emitted, ctxDone, routerFrame>>

\* routeFrame finds the waiter and takes its entry out (popPending).
RouteAnswer ==
    /\ routerPc = "route"
    /\ routerFrame.kind = "answer"
    /\ Registered(Key(routerFrame))
    /\ routerTarget' = pending[Key(routerFrame)]
    /\ pending' = [pending EXCEPT ![Key(routerFrame)] = NoCall]
    /\ routerPc' = "send"
    /\ UNCHANGED <<frameId, asked, events, emitted, ctxDone, routerFrame>>

\* routeFrame drops an answer nobody waits for, and a frame without an id.
RouteNowhere ==
    /\ routerPc = "route"
    /\ \/ routerFrame.kind = "short"
       \/ routerFrame.kind = "answer" /\ ~Registered(Key(routerFrame))
    /\ ReturnToSelect
    /\ UNCHANGED <<frameId, pending, asked, events, emitted, ctxDone>>

NodeNext == NodeAnswer \/ NodeEvent \/ NodeShort

BridgeTypeOK ==
    /\ frameId \in [Calls -> Ids]
    /\ pending \in [Ids -> Calls \cup {NoCall}]
    /\ asked \subseteq Calls
    /\ events \in Seq(Frame)
    /\ emitted \in 0..MaxEvents
    /\ ctxDone \in BOOLEAN
    /\ routerPc \in {"select", "route", "send", "broadcast", "stopped"}
    /\ routerFrame \in Frame
    /\ routerTarget \in Calls \cup {NoCall}
================================================================================
