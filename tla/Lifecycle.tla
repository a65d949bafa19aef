------------------------------- MODULE Lifecycle -------------------------------
(***************************************************************************)
(* The life of the process: main, NewApp and Run, from its start to its    *)
(* exit.  The select of Run waits for an error of the listener or for the  *)
(* context that a signal cancels.  After a signal the HTTP server gets     *)
(* Drain (5 s) to finish the requests in hand, then the node is closed and *)
(* the process ends with whatever is still going on.                       *)
(*                                                                         *)
(* Time is a number that grows only when nothing is due.  A request first  *)
(* reads its body, for as long as its client takes, and then waits for the *)
(* node at most Timeout; when the context is cancelled the router stops,   *)
(* and those that wait only have their timer left.  WebSockets are out of  *)
(* the HTTP server's hands and it does not wait for them.                  *)
(***************************************************************************)
EXTENDS Integers

CONSTANTS
    Requests,  \* POSTs that reach the process
    Drain,     \* the wait of Shutdown
    Timeout,   \* request_timeout
    MaxTime    \* bound: requests arrive and signals come up to this time

ASSUME TimesAssumption == Drain \in Nat /\ Timeout \in Nat /\ MaxTime \in Nat

VARIABLES
    stage,      \* where main is
    exitCode,   \* of the process, once it has ended
    now,        \* the time
    deadline,   \* when Shutdown gives up
    ctxDone,    \* a signal has cancelled the context
    errCh,      \* the error of the listener is in the channel
    listener,   \* the goroutine of ListenAndServe
    node,       \* the Synap2P node
    router,     \* the goroutine of the bridge
    request,    \* request -> where its handler is
    began       \* request -> when it began to wait for the node

vars == <<stage, exitCode, now, deadline, ctxDone, errCh, listener, node, router, request, began>>

Stages == {"building", "starting", "serving", "draining", "closing", "exited"}
NoCode == 99
Killed == 2   \* by the signal, before the program asked for it

Init ==
    /\ stage = "building" /\ exitCode = NoCode
    /\ now = 0 /\ deadline = 0 /\ ctxDone = FALSE
    /\ errCh = FALSE /\ listener = "none" /\ node = "none" /\ router = "none"
    /\ request = [r \in Requests |-> "none"]
    /\ began = [r \in Requests |-> 0]

--------------------------------------------------------------------------------
(***************************************************************************)
(* main and Run.                                                           *)
(***************************************************************************)
\* The handlers that are still there when the process ends are cut.
Exit(code) ==
    /\ stage' = "exited" /\ exitCode' = code
    /\ request' = [r \in Requests |->
                    IF request[r] \in {"reading", "waiting"} THEN "cut" ELSE request[r]]

\* LoadConfig, Resolve and NewApp, any of which may fail
Build ==
    /\ stage = "building"
    /\ \/ Exit(1) /\ UNCHANGED node
       \/ stage' = "starting" /\ node' = "built" /\ UNCHANGED <<exitCode, request>>
    /\ UNCHANGED <<now, deadline, ctxDone, errCh, listener, router, began>>

\* node.Start may fail; it is not closed then.
Start ==
    /\ stage = "starting"
    /\ \/ /\ Exit(1)
          /\ UNCHANGED <<node, router, listener>>
       \/ /\ node' = "started" /\ router' = "running" /\ listener' = "opening"
          /\ stage' = "serving" /\ UNCHANGED <<exitCode, request>>
    /\ UNCHANGED <<now, deadline, ctxDone, errCh, began>>

\* A signal kills the process until NotifyContext asks for it.
Signal ==
    /\ now <= MaxTime /\ stage # "exited"
    /\ IF stage = "building"
       THEN Exit(Killed) /\ UNCHANGED ctxDone
       ELSE ctxDone' = TRUE /\ UNCHANGED <<stage, exitCode, request>>
    /\ UNCHANGED <<now, deadline, errCh, listener, node, router, began>>

\* Wrong: leaves the node as it is
KeepNode == UNCHANGED node

\* node.Close
CloseNode == node' = "closed"

\* Wrong: takes the error and goes on waiting
ServeFailsUnnoticed ==
    /\ stage = "serving" /\ errCh
    /\ errCh' = FALSE
    /\ UNCHANGED <<stage, exitCode, now, deadline, ctxDone, listener, node, router, request, began>>

\* The select, when the listener has failed: the program ends at once.
ServeFails ==
    /\ stage = "serving" /\ errCh
    /\ errCh' = FALSE
    /\ CloseNode
    /\ Exit(1)
    /\ UNCHANGED <<now, deadline, ctxDone, listener, router, began>>

\* Wrong: a deadline that has passed
DrainBackwards == deadline - Drain

\* The select, when the context is cancelled: Shutdown closes the listener.
DrainUntil == now + Drain

ShutdownBegins ==
    /\ stage = "serving" /\ ctxDone
    /\ deadline' = DrainUntil
    /\ listener' = "closed"
    /\ stage' = "draining"
    /\ UNCHANGED <<exitCode, now, ctxDone, errCh, node, router, request, began>>

InHand == {r \in Requests : request[r] \in {"reading", "waiting"}}

\* Wrong: closes connections that are in use
AnyTime == TRUE

\* Shutdown returns when no request is in hand, or at its deadline.
DrainOver == InHand = {} \/ now >= deadline

ShutdownReturns ==
    /\ stage = "draining" /\ DrainOver
    /\ stage' = "closing"
    /\ UNCHANGED <<exitCode, now, deadline, ctxDone, errCh, listener, node, router, request, began>>

CodeOf(failed) == IF failed THEN 1 ELSE 0

\* node.Close may report an error, which is the result of Run; what Shutdown
\* reported is not.
RunReturns ==
    /\ stage = "closing"
    /\ \E failed \in BOOLEAN :
        /\ node' = IF failed THEN "close failed" ELSE "closed"
        /\ Exit(CodeOf(failed))
    /\ UNCHANGED <<now, deadline, ctxDone, errCh, listener, router, began>>

--------------------------------------------------------------------------------
(***************************************************************************)
(* The goroutines.                                                         *)
(***************************************************************************)
Alive == stage # "exited"

\* ListenAndServe opens the port; it may fail then, or later.
ListenOpens ==
    /\ Alive /\ listener = "opening"
    /\ listener' = "open"
    /\ UNCHANGED <<stage, exitCode, now, deadline, ctxDone, errCh, node, router, request, began>>

ListenFails ==
    /\ Alive /\ listener \in {"opening", "open"}
    /\ listener' = "failed" /\ errCh' = TRUE
    /\ UNCHANGED <<stage, exitCode, now, deadline, ctxDone, node, router, request, began>>

RouterStops ==
    /\ Alive /\ router = "running" /\ ctxDone
    /\ router' = "stopped"
    /\ UNCHANGED <<stage, exitCode, now, deadline, ctxDone, errCh, listener, node, request, began>>

Handler(r, from, to) ==
    /\ Alive /\ request[r] = from
    /\ request' = [request EXCEPT ![r] = to]
    /\ UNCHANGED <<stage, exitCode, now, deadline, ctxDone, errCh, listener, node, router>>

Arrive(r) ==
    /\ listener = "open" /\ now <= MaxTime
    /\ Handler(r, "none", "reading")
    /\ UNCHANGED began

\* The body is there, and the node has the frame.
BodyRead(r) ==
    /\ Handler(r, "reading", "waiting")
    /\ began' = [began EXCEPT ![r] = now]

\* The body breaks off, or needs no node.
BodyDone(r) == Handler(r, "reading", "done") /\ UNCHANGED began

AnswerComes(r) == router = "running" /\ Handler(r, "waiting", "done") /\ UNCHANGED began

TimerFires(r) == now >= began[r] + Timeout /\ Handler(r, "waiting", "timed out") /\ UNCHANGED began

Due(r) == request[r] = "waiting" /\ now >= began[r] + Timeout

Tick ==
    /\ Alive
    /\ \A r \in Requests : ~Due(r)
    /\ ~(stage = "draining" /\ DrainOver) /\ stage # "closing"
    /\ now' = now + 1
    /\ UNCHANGED <<stage, exitCode, deadline, ctxDone, errCh, listener, node, router, request, began>>

\* Bound: time stands still when nothing waits for it.
TimeMatters == now <= MaxTime \/ stage = "draining" \/ \E r \in Requests : request[r] = "waiting"

Ended == stage = "exited" /\ UNCHANGED vars

\* Nobody asks for anything any more, and the program waits.
Idle == stage = "serving" /\ ~ctxDone /\ ~TimeMatters /\ UNCHANGED vars

MainStep == Build \/ Start \/ ServeFails \/ ShutdownBegins \/ ShutdownReturns \/ RunReturns

Next ==
    \/ MainStep \/ Signal \/ ListenOpens \/ ListenFails \/ RouterStops
    \/ \E r \in Requests : Arrive(r) \/ BodyRead(r) \/ BodyDone(r) \/ AnswerComes(r) \/ TimerFires(r)
    \/ TimeMatters /\ Tick
    \/ Ended \/ Idle

\* main runs when it can, time passes, and what is due happens.
Fairness ==
    /\ WF_vars(MainStep) /\ WF_vars(TimeMatters /\ Tick)
    /\ \A r \in Requests : WF_vars(TimerFires(r))

Spec == Init /\ [][Next]_vars
FairSpec == Spec /\ Fairness

--------------------------------------------------------------------------------
(***************************************************************************)
(* Properties.                                                             *)
(***************************************************************************)
TypeOK ==
    /\ stage \in Stages
    /\ exitCode \in {0, 1, Killed, NoCode}
    /\ now \in Nat /\ deadline \in Nat
    /\ ctxDone \in BOOLEAN /\ errCh \in BOOLEAN
    /\ listener \in {"none", "opening", "open", "failed", "closed"}
    /\ node \in {"none", "built", "started", "closed", "close failed"}
    /\ router \in {"none", "running", "stopped"}
    /\ request \in [Requests -> {"none", "reading", "waiting", "done", "timed out", "cut"}]
    /\ began \in [Requests -> Nat]

\* A node that was started is closed before the process ends, whichever way it ends.
NodeClosedAtExit == stage = "exited" => node # "started"

\* The process reports success only if it was asked to end and the node closed well.
\* A listener that fails at the same moment may go unreported, which is the
\* choice the select makes.
SuccessIsTrue == exitCode = 0 => ctxDone /\ node = "closed"

\* However the process ends, it leaves no node open and reports no success it has not had.
ExitIsHonest == NodeClosedAtExit /\ SuccessIsTrue

\* An orderly shutdown, in which the listener was closed and not killed by an error,
\* cuts a request off only when the whole drain is over.
CutOnlyAfterDrain ==
    \A r \in Requests :
        request[r] = "cut" /\ exitCode \in {0, 1} /\ listener = "closed" =>
            now >= deadline

\* What still waits for the node when the drain is over would have been answered or
\* timed out after the deadline only.  With a wait shorter than the drain nothing
\* that waited when the signal came is cut; the defaults, 10 s and 5 s, are the
\* other way round.
ShortWaitsAnswered ==
    \A r \in Requests :
        request[r] = "waiting" /\ stage = "closing" =>
            began[r] + Timeout >= deadline

\* After a signal, and after an error of the listener, the process ends, whatever its
\* clients do.
EndsWhenAsked == (ctxDone \/ errCh) ~> stage = "exited"
================================================================================
