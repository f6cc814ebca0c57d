------------------------- MODULE MCWebSocketManager --------------------------
(***************************************************************************)
(* Two callers, two requests of which one is of another asset class, and a *)
(* queue that one of them fills.                                           *)
(***************************************************************************)
EXTENDS WebSocketManager

CONSTANTS c1, c2, r1, r2

MCCallers == {c1, c2}
MCRequests == {r1, r2}
MCValid == {r1}

=============================================================================
