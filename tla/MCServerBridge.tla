---------------------------- MODULE MCServerBridge -----------------------------
(***************************************************************************)
(* Server mode with a handful of calls over fewer ids than calls, so that  *)
(* ids are reused while a call with the same id is open, giving up, or     *)
(* gone.                                                                   *)
(***************************************************************************)
EXTENDS ServerService, TLC

CONSTANTS k1, k2

\* k1 begins like an opcode, and what follows in an envelope is k2.
MCReadAs == [k \in Ids |-> IF k = k1 THEN {k1, k2} ELSE {k}]

CallSymmetry == Permutations(Calls)
================================================================================
