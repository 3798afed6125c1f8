----------------------------- MODULE MCPresence -----------------------------
(* The instance of Presence for TLC: the code's numbers in units of five      *)
(* seconds.  A heartbeat every 30 against 120, an announcement every 20 against *)
(* 60 seconds.                                                               *)
EXTENDS Presence

MCPeriod == [s \in Services |-> IF s = "signaling" THEN 6 ELSE 4]
MCTtl == [s \in Services |-> IF s = "signaling" THEN 24 ELSE 12]
MCMaxLosses == [s \in Services |-> IF s = "signaling" THEN 2 ELSE 1]
=============================================================================
