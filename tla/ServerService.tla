----------------------------- MODULE ServerService -----------------------------
(***************************************************************************)
(* ServerBridge implements RequestService.  A call is open from its entry  *)
(* into Request (its registration) to its return; the table, the channels, *)
(* the router and the timers do not appear in the abstract specification.  *)
(***************************************************************************)
EXTENDS ServerBridge

servicePhase ==
    [c \in Calls |-> CASE httpPc[c] = "idle" -> "idle"
                       [] httpPc[c] = "done" -> "replied"
                       [] OTHER -> "open"]

Service == INSTANCE RequestService
           WITH id <- frameId, phase <- servicePhase, taken <- asked

(***************************************************************************)
(* synapBridge.Request behaves as the one-reply service: every step is one *)
(* step of the service or invisible to it, a duplicate is refused only     *)
(* while its twin is really inside, an answer is returned only if the node *)
(* accepted a request whose answers can be read as this one's, and every   *)
(* request let in is replied to.                                           *)
(***************************************************************************)
ImplementsService == Service!Spec
================================================================================
