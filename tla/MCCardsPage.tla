------------------------------ MODULE MCCardsPage ------------------------------
(***************************************************************************)
(* The page with one card of each kind: an ordinary one of the node, and   *)
(* one of Samsara with random bytes in its payload.                        *)
(***************************************************************************)
EXTENDS CardsPage

CONSTANTS relay, diferir, id1, id2, id3, id4, click1, click2, text1, text2, salt1, salt2
================================================================================
