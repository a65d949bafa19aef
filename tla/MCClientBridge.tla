---------------------------- MODULE MCClientBridge -----------------------------
(***************************************************************************)
(* Client mode with a few connections of a few frames over few ids, so     *)
(* that ids are reused within a connection and across connections.         *)
(***************************************************************************)
EXTENDS ClientBridge, SequencesExt, TLC

CONSTANTS s1, s2, k1, k2

\* s1 carries two frames or one, the others one or none.
TwoThenOne == [s \in Sessions |-> IF s = s1 THEN 2 ELSE 1]
OneEach == [s \in Sessions |-> 1]
OneThenNone == [s \in Sessions |-> IF s = s1 THEN 1 ELSE 0]

MCCalls == UNION {{s} \X (1..MaxFrames[s]) : s \in Sessions}

\* The first frame of s1 is the one whose id can be misread.
SafetyInit == Init /\ frameId[<<s1, 1>>] = k1
SafetySpec == SafetyInit /\ [][Next]_vars

\* Whose frame an answer is for matters no more once a peer has it: no action reads
\* the inboxes, and of the properties only TypeOK looks at `by'.
Kept(f) == IF f.kind = "answer" THEN <<f.kind, Key(f)>> ELSE <<f.kind, f.num>>
SafetyView ==
    <<bridgeVars, sessions, conn, wsPc, turn, locked, deliveryVars,
      [s \in Sessions |-> [i \in DOMAIN inbox[s] |-> Kept(inbox[s][i])]]>>

\* No action reads the inboxes.  Of one that may grow the properties on events and on
\* liveness need the last event, and of all of them whether there is a gap.
Growing(s) == conn[s] # "gone" /\ routerPc # "stopped"

LastEvent(s) ==
    LET last == SelectLastInSeq(inbox[s], LAMBDA f : f.kind = "event")
    IN  IF Growing(s) /\ last > 0 THEN inbox[s][last].num ELSE 0

EventsView ==
    <<bridgeVars, sessions, conn, wsPc, turn, locked, deliveryVars,
      [s \in Sessions |-> LastEvent(s)], EventsWithoutGaps>>

\* k1 begins like an opcode, and what follows in an envelope is k2, if there is one.
MCReadAs == [k \in Ids |-> IF k = k1 THEN Ids ELSE {k}]
================================================================================
