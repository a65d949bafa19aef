---------------------------- MODULE LifecycleProofs ----------------------------
(***************************************************************************)
(* The life of the process, for any requests, drain and timeout: how it    *)
(* ends, and who is cut off at its end.  Nothing here depends on the bound *)
(* of time.                                                                *)
(***************************************************************************)
EXTENDS Lifecycle, TLAPS

\* What main has made so far, and what it has undone
Phases ==
    /\ stage \in {"building", "starting"} => listener = "none"
    /\ node = "started" => stage \in {"serving", "draining", "closing"}
    /\ stage \in {"draining", "closing"} => ctxDone /\ listener = "closed"
    /\ listener = "closed" => stage \in {"draining", "closing", "exited"}
    /\ stage # "exited" => exitCode = NoCode
    /\ SuccessIsTrue

\* Only the end of the process cuts a request.
CutAtExit == \A r \in Requests : request[r] = "cut" => stage = "exited"

\* Shutdown has returned for one of its two reasons, and the first stays true
\* since nothing arrives any more.
DrainedOrLate == stage = "closing" => InHand = {} \/ now >= deadline

\* The timer of a request that waits is not overdue.
WaitBounded ==
    \A r \in Requests : request[r] = "waiting" => began[r] <= now /\ now <= began[r] + Timeout

Inductive ==
    /\ TypeOK
    /\ Phases
    /\ CutAtExit
    /\ DrainedOrLate
    /\ WaitBounded
    /\ CutOnlyAfterDrain

LEMMA InitInductive == Init => Inductive
<1> SUFFICES ASSUME Init PROVE Inductive
    OBVIOUS
<1>1. TypeOK
    BY DEF Init, TypeOK, Stages, NoCode
<1>2. Phases
  <2>1. SuccessIsTrue
      BY DEF Init, SuccessIsTrue, NoCode
  <2> QED  BY <2>1 DEF Init, Phases
<1>3. CutAtExit /\ DrainedOrLate /\ WaitBounded
    BY DEF Init, CutAtExit, DrainedOrLate, WaitBounded
<1>4. CutOnlyAfterDrain
    BY DEF Init, CutOnlyAfterDrain
<1> QED  BY <1>1, <1>2, <1>3, <1>4 DEF Inductive

--------------------------------------------------------------------------------
(***************************************************************************)
(* Types, one variable at a time: no action disturbs more than its own.    *)
(***************************************************************************)
LEMMA StepTyped == TypeOK /\ [Next]_vars => TypeOK'
<1> SUFFICES ASSUME TypeOK, [Next]_vars PROVE TypeOK'
    OBVIOUS
<1> USE DEF Next, MainStep, Build, Start, ServeFails, ShutdownBegins, ShutdownReturns, RunReturns,
        Signal, ListenOpens, ListenFails, RouterStops, Arrive, BodyRead, BodyDone, AnswerComes,
        TimerFires, Handler, Tick, Ended, Idle, vars, Exit
<1>1. (stage \in Stages)'
    BY DEF TypeOK, Stages
<1>2. (exitCode \in {0, 1, Killed, NoCode})'
    BY DEF TypeOK, CodeOf
<1>3. (now \in Nat)'
  <2>1. now' = now \/ now' = now + 1
      OBVIOUS
  <2>2. now \in Nat
      BY DEF TypeOK
  <2> QED  BY ONLY <2>1, <2>2
<1>4. (deadline \in Nat)'
  <2>1. deadline' = deadline \/ deadline' = DrainUntil
      OBVIOUS
  <2>2. now \in Nat /\ deadline \in Nat
      BY DEF TypeOK
  <2> QED  BY ONLY <2>1, <2>2, TimesAssumption DEF DrainUntil
<1>5. (ctxDone \in BOOLEAN /\ errCh \in BOOLEAN)'
    BY DEF TypeOK
<1>6. (listener \in {"none", "opening", "open", "failed", "closed"})'
    BY DEF TypeOK
<1>7. (node \in {"none", "built", "started", "closed", "close failed"})'
    BY DEF TypeOK, CloseNode
<1>8. (router \in {"none", "running", "stopped"})'
    BY DEF TypeOK
<1>9. (request \in [Requests -> {"none", "reading", "waiting", "done", "timed out", "cut"}])'
    BY DEF TypeOK
<1>10. (began \in [Requests -> Nat])'
    BY DEF TypeOK
<1> QED
    BY <1>1, <1>2, <1>3, <1>4, <1>5, <1>6, <1>7, <1>8, <1>9, <1>10 DEF TypeOK

--------------------------------------------------------------------------------
(***************************************************************************)
(* What main does, and the code it ends with.                              *)
(***************************************************************************)
LEMMA Codes == 1 # 0 /\ Killed # 0 /\ NoCode # 0
BY DEF Killed, NoCode

LEMMA StepPhases == TypeOK /\ Phases /\ [Next]_vars => Phases'
<1> SUFFICES ASSUME TypeOK, Phases, [Next]_vars PROVE Phases'
    OBVIOUS
<1> USE DEF Next, MainStep, Build, Start, ServeFails, ShutdownBegins, ShutdownReturns, RunReturns,
        Signal, ListenOpens, ListenFails, RouterStops, Arrive, BodyRead, BodyDone, AnswerComes,
        TimerFires, Handler, Tick, Ended, Idle, vars, Exit, CloseNode, Phases, NoCode, Alive
<1>1. (stage \in {"building", "starting"} => listener = "none")'
    OBVIOUS
<1>2. (node = "started" => stage \in {"serving", "draining", "closing"})'
    OBVIOUS
<1>3. (stage \in {"draining", "closing"} => ctxDone /\ listener = "closed")'
    OBVIOUS
<1>4. (listener = "closed" => stage \in {"draining", "closing", "exited"})'
    OBVIOUS
<1>5. (stage # "exited" => exitCode = NoCode)'
    OBVIOUS
<1>6. SuccessIsTrue'
  <2>1. 1 # 0 /\ Killed # 0 /\ NoCode # 0
      BY Codes
  <2>2. CASE RunReturns /\ exitCode' = 0
    <3>1. PICK failed \in BOOLEAN :
            /\ node' = IF failed THEN "close failed" ELSE "closed"
            /\ exitCode' = CodeOf(failed)
        BY <2>2, Zenon
    <3>2. ~failed
        BY <2>1, <2>2, <3>1, Zenon DEF CodeOf
    <3>3. node' = "closed"
        BY <3>1, <3>2, Zenon
    <3> QED  BY <2>2, <3>3 DEF SuccessIsTrue
  <2>3. CASE ~RunReturns /\ exitCode' = 0
    <3>1. exitCode' = exitCode /\ node' = node
        BY <2>1, <2>3, Zenon
    <3> QED  BY <2>3, <3>1 DEF SuccessIsTrue
  <2> QED  BY <2>2, <2>3 DEF SuccessIsTrue
<1> QED BY <1>1, <1>2, <1>3, <1>4, <1>5, <1>6

--------------------------------------------------------------------------------
(***************************************************************************)
(* The requests.  Only RunReturns ends the process with the listener       *)
(* closed, and none of the others moves once it has ended.                 *)
(***************************************************************************)
LEMMA StepCut ==
    TypeOK /\ Phases /\ CutAtExit /\ DrainedOrLate /\ CutOnlyAfterDrain /\ [Next]_vars
        => CutAtExit' /\ CutOnlyAfterDrain'
<1> SUFFICES ASSUME TypeOK, Phases, CutAtExit, DrainedOrLate, CutOnlyAfterDrain, [Next]_vars
             PROVE  CutAtExit' /\ CutOnlyAfterDrain'
    OBVIOUS
<1> USE DEF Next, MainStep, Build, Start, ServeFails, ShutdownBegins, ShutdownReturns, RunReturns,
        Signal, ListenOpens, ListenFails, RouterStops, Arrive, BodyRead, BodyDone, AnswerComes,
        TimerFires, Handler, Tick, Ended, Idle, vars, Exit, CloseNode, Alive
<1>1. CutAtExit'
    BY DEF CutAtExit, TypeOK
<1>2. CutOnlyAfterDrain'
  <2>1. CASE stage = "exited"
      BY <2>1 DEF CutOnlyAfterDrain
  <2>2. CASE RunReturns
      BY <2>2 DEF CutOnlyAfterDrain, CutAtExit, DrainedOrLate, InHand
  <2>3. CASE stage # "exited" /\ ~RunReturns
    <3>1. stage' # "exited" \/ listener' # "closed"
        BY <2>3 DEF Phases
    <3> QED  BY <1>1, <3>1 DEF CutAtExit, CutOnlyAfterDrain
  <2> QED  BY <2>1, <2>2, <2>3
<1> QED  BY <1>1, <1>2

LEMMA StepDrained ==
    TypeOK /\ Phases /\ DrainedOrLate /\ [Next]_vars => DrainedOrLate'
<1> SUFFICES ASSUME TypeOK, Phases, DrainedOrLate, [Next]_vars, stage' = "closing"
             PROVE  InHand' = {} \/ now' >= deadline'
    BY DEF DrainedOrLate
<1> USE DEF Next, MainStep, Build, Start, ServeFails, ShutdownBegins, ShutdownReturns, RunReturns,
        Signal, ListenOpens, ListenFails, RouterStops, Arrive, BodyRead, BodyDone, AnswerComes,
        TimerFires, Handler, Tick, Ended, Idle, vars, Exit
<1>1. CASE ShutdownReturns
    BY <1>1 DEF DrainOver, InHand
<1>2. CASE stage = "closing"
  <2>1. now' = now /\ deadline' = deadline
      BY <1>2
  <2>2. InHand' \subseteq InHand
      BY <1>2 DEF Phases, InHand, TypeOK
  <2> QED  BY <1>2, <2>1, <2>2 DEF DrainedOrLate
<1> QED  BY <1>1, <1>2

LEMMA StepWait == TypeOK /\ WaitBounded /\ [Next]_vars => WaitBounded'
<1> SUFFICES ASSUME TypeOK, WaitBounded, [Next]_vars, NEW r \in Requests, request'[r] = "waiting"
             PROVE  began'[r] <= now' /\ now' <= began'[r] + Timeout
    BY DEF WaitBounded
<1>1. now \in Nat /\ Timeout \in Nat
    BY TimesAssumption DEF TypeOK
<1>2. CASE BodyRead(r)
  <2>1. began'[r] = now /\ now' = now
      BY <1>2 DEF BodyRead, Handler, TypeOK
  <2> QED  BY ONLY <1>1, <2>1
<1>3. CASE Tick
  <2>1. request[r] = "waiting" /\ began'[r] = began[r] /\ now' = now + 1
      BY <1>3 DEF Tick
  <2>2. ~(now >= began[r] + Timeout) /\ began[r] <= now /\ began[r] \in Nat
      BY <1>3, <2>1 DEF Tick, Due, WaitBounded, TypeOK
  <2> QED  BY ONLY <1>1, <2>1, <2>2
<1>4. CASE ~BodyRead(r) /\ ~Tick
  <2>1. request[r] = "waiting" /\ began'[r] = began[r] /\ now' = now
      BY <1>4
      DEF Next, MainStep, Build, Start, ServeFails, ShutdownBegins, ShutdownReturns, RunReturns,
          Signal, ListenOpens, ListenFails, RouterStops, Arrive, BodyRead, BodyDone, AnswerComes,
          TimerFires, Handler, Ended, Idle, vars, Exit, TypeOK
  <2> QED  BY <2>1 DEF WaitBounded
<1> QED  BY <1>2, <1>3, <1>4

--------------------------------------------------------------------------------
LEMMA StepInductive == Inductive /\ [Next]_vars => Inductive'
BY StepTyped, StepPhases, StepCut, StepDrained, StepWait DEF Inductive

LEMMA InductiveAlways == Spec => []Inductive
BY InitInductive, StepInductive, PTL DEF Spec

--------------------------------------------------------------------------------
(***************************************************************************)
(* The theorems.                                                           *)
(***************************************************************************)
\* The state of the process is well-typed: what main.go, app.go and the http.Server
\* of Run go through, at any length of the drain and the timeout.
THEOREM TypeCorrect == Spec => []TypeOK
<1>1. Inductive => TypeOK
    BY DEF Inductive
<1> QED  BY <1>1, InductiveAlways, PTL

\* A started node is closed when Run returns, on each of its ways out, and code 0 is
\* the end of a run that was asked to end and closed its node well.
THEOREM HonestExit == Spec => []ExitIsHonest
<1>1. Inductive => ExitIsHonest
    BY DEF Inductive, Phases, NodeClosedAtExit, ExitIsHonest
<1> QED  BY <1>1, InductiveAlways, PTL

\* An orderly shutdown cuts requests only when its drain is over.
THEOREM CutAfterDrain == Spec => []CutOnlyAfterDrain
<1>1. Inductive => CutOnlyAfterDrain
    BY DEF Inductive
<1> QED  BY <1>1, InductiveAlways, PTL

\* A request that waits when Shutdown has returned would have waited past its deadline
\* anyway: with request_timeout below the drain it began after the signal.
THEOREM ShortWaits == Spec => []ShortWaitsAnswered
<1>1. Inductive => ShortWaitsAnswered
  <2> SUFFICES ASSUME Inductive, NEW r \in Requests, request[r] = "waiting", stage = "closing"
               PROVE  began[r] + Timeout >= deadline
      BY DEF ShortWaitsAnswered
  <2>1. r \in InHand
      BY DEF InHand
  <2>2. now >= deadline /\ now <= began[r] + Timeout
      BY <2>1 DEF Inductive, DrainedOrLate, WaitBounded
  <2>3. now \in Nat /\ deadline \in Nat /\ began[r] \in Nat /\ Timeout \in Nat
      BY TimesAssumption DEF Inductive, TypeOK
  <2> QED  BY <2>2, <2>3
<1> QED  BY <1>1, InductiveAlways, PTL
================================================================================
