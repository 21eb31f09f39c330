-------------------------- MODULE MCAgentDelivery --------------------------
(* Small instances of AgentDelivery for TLC.                               *)
EXTENDS AgentDelivery

\* Named bounds and sets for the configurations.
MetalOnly == {"metal"}
MetalEvents == {"metal", "events"}
NetOnly == {"net"}
=============================================================================
