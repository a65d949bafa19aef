----------------------------- MODULE ServerBridge ------------------------------
(***************************************************************************)
(* Server mode: every POST of a synap2p frame runs in a goroutine of its   *)
(* own, which calls synapBridge.Request once and writes the bytes it       *)
(* returns to the HTTP client.  routes() gives this mode no WebSocket, so  *)
(* the bridge never has a session and a broadcast writes to nobody.        *)
(***************************************************************************)
EXTENDS SynapBridge

VARIABLES
    httpPc,      \* httpPc[c]: where the goroutine of call c is in Request
    responseCh,  \* responseCh[c]: the one-place channel Request made for c
    reply        \* reply[c]: what Request returned to c

vars == <<frameId, pending, asked, events, emitted, ctxDone, routerPc,
          routerFrame, routerTarget, httpPc, responseCh, reply>>

HttpPcs == {"idle", "process", "failed", "wait", "expired", "done"}

\* responseCh[c] when nothing is buffered in it
Empty == [kind |-> "empty", by |-> NoCall, num |-> 0]

\* The codes of errors.go, and "answer" for a frame of the node; `by' is
\* the call the returned frame answers.
Reply == [code : {"none", "answer", "duplicate", "nodeFailed", "timeout"},
          by   : Calls \cup {NoCall}]

Init ==
    /\ BridgeInit
    /\ httpPc = [c \in Calls |-> "idle"]
    /\ responseCh = [c \in Calls |-> Empty]
    /\ reply = [c \in Calls |-> [code |-> "none", by |-> NoCall]]

\* The bridge variables that no step of Request changes
routerVars == <<frameId, events, emitted, ctxDone,
                routerPc, routerFrame, routerTarget>>

Goto(c, from, to) ==
    /\ httpPc[c] = from
    /\ httpPc' = [httpPc EXCEPT ![c] = to]

\* Request returns errorResult(requestID, code, ...) for its own request.
ReturnError(c, from, code) ==
    /\ Goto(c, from, "done")
    /\ reply' = [reply EXCEPT ![c] = [code |-> code, by |-> c]]

--------------------------------------------------------------------------------
(***************************************************************************)
(* Request, step by step.                                                  *)
(***************************************************************************)
Register(c) ==
    /\ Goto(c, "idle", "process")
    /\ registerPending(c)
    /\ UNCHANGED <<routerVars, asked, responseCh, reply>>

Refuse(c) ==
    /\ ReturnError(c, "idle", "duplicate")
    /\ registerRefused(c)
    /\ UNCHANGED <<routerVars, asked, responseCh>>

ProcessAccepts(c) ==
    /\ Goto(c, "process", "wait")
    /\ asked' = asked \cup {c}
    /\ UNCHANGED <<routerVars, pending, responseCh, reply>>

ProcessFails(c) ==
    /\ Goto(c, "process", "failed")
    /\ UNCHANGED <<routerVars, pending, asked, responseCh, reply>>

ReturnNodeFailed(c) ==
    /\ ReturnError(c, "failed", "nodeFailed")
    /\ removePending(c)
    /\ UNCHANGED <<routerVars, asked, responseCh>>

\* Wrong: receives from an empty channel, as from a closed one
ReturnZeroResponse(c) ==
    /\ Goto(c, "wait", "done")
    /\ reply' = [reply EXCEPT ![c] = [code |-> "answer", by |-> responseCh[c].by]]
    /\ responseCh' = [responseCh EXCEPT ![c] = Empty]
    /\ UNCHANGED <<routerVars, pending, asked>>

\* The select of Request may take either case that is ready.
ReturnResponse(c) ==
    /\ responseCh[c] # Empty
    /\ Goto(c, "wait", "done")
    /\ reply' = [reply EXCEPT ![c] = [code |-> "answer", by |-> responseCh[c].by]]
    /\ responseCh' = [responseCh EXCEPT ![c] = Empty]
    /\ UNCHANGED <<routerVars, pending, asked>>

\* Wrong: the timer lives no longer than the router
TimerFiresWithRouter(c) ==
    /\ routerPc # "stopped"
    /\ Goto(c, "wait", "expired")
    /\ UNCHANGED <<routerVars, pending, asked, responseCh, reply>>

TimerFires(c) ==
    /\ Goto(c, "wait", "expired")
    /\ UNCHANGED <<routerVars, pending, asked, responseCh, reply>>

\* Wrong: gives up without taking its entry out
ReturnTimeoutLeaks(c) ==
    /\ ReturnError(c, "expired", "timeout")
    /\ UNCHANGED <<routerVars, pending, asked, responseCh>>

ReturnTimeout(c) ==
    /\ ReturnError(c, "expired", "timeout")
    /\ removePending(c)
    /\ UNCHANGED <<routerVars, asked, responseCh>>

\* The steps the goroutine of c takes once it is in Request
RequestStep(c) ==
    \/ ProcessAccepts(c)
    \/ ProcessFails(c)
    \/ ReturnNodeFailed(c)
    \/ ReturnResponse(c)
    \/ TimerFires(c)
    \/ ReturnTimeout(c)

--------------------------------------------------------------------------------
(***************************************************************************)
(* The router's delivery, and the broadcast of an event to no session.     *)
(***************************************************************************)
SendResponse ==
    /\ routerPc = "send"
    /\ responseCh[routerTarget] = Empty
    /\ responseCh' = [responseCh EXCEPT ![routerTarget] = routerFrame]
    /\ ReturnToSelect
    /\ UNCHANGED <<frameId, pending, asked, events, emitted, ctxDone, httpPc, reply>>

BroadcastToNobody ==
    /\ routerPc = "route"
    /\ routerFrame.kind = "event"
    /\ ReturnToSelect
    /\ UNCHANGED <<frameId, pending, asked, events, emitted, ctxDone,
                   httpPc, responseCh, reply>>

RouterStep ==
    \/ /\ RouterReceive \/ RouterStop \/ RouteAnswer \/ RouteNowhere
       /\ UNCHANGED <<httpPc, responseCh, reply>>
    \/ SendResponse
    \/ BroadcastToNobody

\* Every handler has returned and the router has stopped: the process may end.
Finished ==
    /\ routerPc = "stopped"
    /\ \A c \in Calls : httpPc[c] = "done"
    /\ UNCHANGED vars

Next ==
    \/ \E c \in Calls : Register(c) \/ Refuse(c) \/ RequestStep(c)
    \/ RouterStep
    \/ (NodeNext \/ Cancel) /\ UNCHANGED <<httpPc, responseCh, reply>>
    \/ Finished

(***************************************************************************)
(* Goroutines keep running, and timers fire.  Nothing is assumed of the    *)
(* node, of the clients, or of the operator who stops the process.         *)
(***************************************************************************)
Fairness ==
    /\ \A c \in Calls : WF_vars(RequestStep(c))
    /\ WF_vars(RouterStep)

Spec == Init /\ [][Next]_vars /\ Fairness

--------------------------------------------------------------------------------
TypeOK ==
    /\ BridgeTypeOK
    /\ httpPc \in [Calls -> HttpPcs]
    /\ responseCh \in [Calls -> Frame \cup {Empty}]
    /\ reply \in [Calls -> Reply]

\* c is inside Request
Open(c) == httpPc[c] \in {"process", "failed", "wait", "expired"}

\* The router popped c's entry and has not yet sent on c's channel.
Held(c) == routerPc = "send" /\ routerTarget = c

\* A frame was popped for c and c has not taken it from its channel.
Undelivered(c) == Held(c) \/ responseCh[c] # Empty

(***************************************************************************)
(* The router never blocks sending to an HTTP waiter (synap_bridge.go:141):*)
(* the channel has one place, and a request is popped, so sent to, at most *)
(* once, however often the node answers and whether or not the waiter has  *)
(* given up.  A blocked send would stop routing for everybody.             *)
(***************************************************************************)
SendNeverBlocks ==
    routerPc = "send" => responseCh[routerTarget] = Empty

(***************************************************************************)
(* No entry outlives its Request: whatever is registered belongs to a call *)
(* still inside Request, under that call's id, on every way out of it (the *)
(* answer, the timeout, the failed Process).  A leaked entry would refuse  *)
(* its id as a duplicate for ever, as HTTP has no session to sweep it.     *)
(***************************************************************************)
NoLeakedEntry ==
    \A k \in Ids : Registered(k) => /\ frameId[pending[k]] = k
                                    /\ Open(pending[k])

(***************************************************************************)
(* Request returns as an answer only a frame the node made for a request   *)
(* that it had accepted, with the same id, or with one that can be read as *)
(* this one; so with ids that are not reused, and do not begin like an     *)
(* opcode, it is the answer to this very request.                          *)
(***************************************************************************)
AnswersMatch ==
    \A c \in Calls : reply[c].code = "answer" =>
        /\ reply[c].by \in asked
        /\ frameId[c] \in ReadAs[frameId[reply[c].by]]

(***************************************************************************)
(* removePending deletes by id, not by owner, so a call that gives up can  *)
(* delete the entry of a later call with the same id, whose answer is then *)
(* dropped.  This happens only behind an answer that was itself lost: if c *)
(* still needs its entry and it is gone, then another call with c's id     *)
(* ended in an error while an answer sent to it lies in its channel, unread.*)
(***************************************************************************)
LostOnlyBehindOrphan ==
    \A c \in Calls :
        Open(c) /\ pending[frameId[c]] # c /\ ~Undelivered(c) =>
            \E d \in Calls \ {c} :
                /\ frameId[d] = frameId[c]
                /\ reply[d].code \in {"timeout", "nodeFailed"}
                /\ Undelivered(d)

(***************************************************************************)
(* Every POST is answered (synap_bridge.go:66): once registered, a call    *)
(* leaves Request, whatever the node does and even after the router has    *)
(* stopped, because the timer is in its select.                            *)
(***************************************************************************)
EveryRequestReturns ==
    \A c \in Calls : (httpPc[c] = "process") ~> (httpPc[c] = "done")

(***************************************************************************)
(* The router comes back to its select, or stops: an answer to one caller  *)
(* never keeps it from the others.                                         *)
(***************************************************************************)
RouterKeepsRouting == []<>(routerPc \in {"select", "stopped"})
================================================================================
