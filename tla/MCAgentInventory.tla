-------------------------- MODULE MCAgentInventory --------------------------
(* Instances of AgentInventory for TLC.                                      *)
EXTENDS AgentInventory
=============================================================================
