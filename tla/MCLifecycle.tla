------------------------------ MODULE MCLifecycle -------------------------------
(***************************************************************************)
(* Two requests, one of which may read slowly while the other waits for    *)
(* the node; a drain that is shorter than the wait, as in the program.     *)
(***************************************************************************)
EXTENDS Lifecycle

CONSTANTS r1, r2

TwoRequests == {r1, r2}

ASSUME ShorterDrain == Drain < Timeout
================================================================================
