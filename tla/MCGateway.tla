------------------------------ MODULE MCGateway -----------------------------
EXTENDS Gateway, TLC
CONSTANTS t1, t2
MCTasks == {t1, t2}
(* The fault that no property of the gateway excuses. *)
MCFaults == {"insert_lost"}
=============================================================================
