--------------------------- MODULE MCAgentInterval ---------------------------
(* The report loop with the control handlers of an agent in active mode.     *)
EXTENDS AgentInterval
==============================================================================
