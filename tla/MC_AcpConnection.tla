--------------------------- MODULE MC_AcpConnection ---------------------------
(* A connection and another, shorter one that competes for the agent's slot. *)
EXTENDS AcpConnection, TLC

CONSTANTS c1, c2

Lengths == (c1 :> 3 @@ c2 :> 2)
===============================================================================
