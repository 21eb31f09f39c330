--------------------------- MODULE MCAgentPairing ---------------------------
(* Small instances of AgentPairing for TLC.                                *)
EXTENDS AgentPairing

\* The operations of AgentLifecycle: the others leave its state machine out.
LifecycleOps == {"pair", "unpair", "retire", "blacklist", "unregister", "deletetwin",
                 "rename", "register"}
PairOps == {"register", "pair", "blacklist"}
DeleteTwinOps == {"register", "pair", "deletetwin"}
AutoAssignOps == {"register", "autoassign"}
BlacklistOps == {"register", "blacklist"}
=============================================================================
