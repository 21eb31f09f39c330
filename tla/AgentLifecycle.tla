--------------------------- MODULE AgentLifecycle ---------------------------
(***************************************************************************)
(* What the cluster promises about an edge agent, abstractly: each agent   *)
(* has one status and at most one twin, and every lifecycle operation      *)
(* takes place at once, checked and carried out in one step.  The table    *)
(* edgeValidTransitions of cluster/internal/twin/agent_state.go says which *)
(* operation a status allows.                                              *)
(*                                                                         *)
(* Module AgentPairing has the operations as they are, statement by        *)
(* statement, and implements this one as long as requests do not overlap.  *)
(***************************************************************************)
CONSTANTS
    Agents,    \* edge agents
    Twins,     \* cluster agents (digital twins)
    NoTwin     \* the twin of an unassigned agent

VARIABLES
    status,    \* the status of each agent, "none" when it is not registered
    home,      \* the twin each agent is assigned to
    blacklist, \* the blacklisted agents
    deleted    \* the twins that have been (soft-)deleted

vars == <<status, home, blacklist, deleted>>

Statuses == {"unconfigured", "pending", "deployed", "inactive", "active",
             "lost", "rogue", "retired", "blacklisted"}

\* edgeValidTransitions: <<from, action, to>>.
EdgeValidTransitions ==
    {<<s, "pair", "active">> : s \in {"unconfigured", "pending", "rogue"}}
    \cup {<<"active", "unpair", "rogue">>}
    \cup {<<"active", "heartbeat_timeout", "lost">>,
          <<"lost", "heartbeat_resume", "active">>}
    \cup {<<s, "retire", "retired">> :
            s \in {"active", "lost", "rogue", "unconfigured"}}
    \cup {<<s, "blacklist", "blacklisted">> : s \in {"active", "lost", "rogue"}}

CanTransitionEdge(current, action) ==
    \E t \in EdgeValidTransitions : t[1] = current /\ t[2] = action

Init ==
    /\ status = [a \in Agents |-> "none"]
    /\ home = [a \in Agents |-> NoTwin]
    /\ blacklist = {} /\ deleted = {}

Register(a) ==
    /\ status[a] = "none"
    /\ status' = [status EXCEPT ![a] = "pending"]
    /\ UNCHANGED <<home, blacklist, deleted>>

\* UpdateAgent: renaming a pending agent makes it "deployed".
Rename(a) ==
    /\ status[a] = "pending"
    /\ status' = [status EXCEPT ![a] = "deployed"]
    /\ UNCHANGED <<home, blacklist, deleted>>

Pair(a, t) ==
    /\ a \notin blacklist /\ t \notin deleted
    /\ CanTransitionEdge(status[a], "pair")
    /\ status' = [status EXCEPT ![a] = "active"]
    /\ home' = [home EXCEPT ![a] = t]
    /\ UNCHANGED <<blacklist, deleted>>

Unpair(a) ==
    /\ CanTransitionEdge(status[a], "unpair") /\ home[a] # NoTwin
    /\ status' = [status EXCEPT ![a] = "rogue"]
    /\ home' = [home EXCEPT ![a] = NoTwin]
    /\ UNCHANGED <<blacklist, deleted>>

Retire(a) ==
    /\ CanTransitionEdge(status[a], "retire")
    /\ status' = [status EXCEPT ![a] = "retired"]
    /\ home' = [home EXCEPT ![a] = NoTwin]
    /\ UNCHANGED <<blacklist, deleted>>

\* An agent may be blacklisted before it has ever registered.
Blacklist(a) ==
    /\ status[a] # "blacklisted"
    /\ blacklist' = blacklist \cup {a}
    /\ status' = IF status[a] = "none" THEN status
                 ELSE [status EXCEPT ![a] = "blacklisted"]
    /\ home' = [home EXCEPT ![a] = NoTwin]
    /\ UNCHANGED deleted

\* UnregisterAgent erases every trace of the agent.
Unregister(a) ==
    /\ status[a] # "none"
    /\ status' = [status EXCEPT ![a] = "none"]
    /\ home' = [home EXCEPT ![a] = NoTwin]
    /\ blacklist' = blacklist \ {a}
    /\ UNCHANGED deleted

DeleteTwin(t) ==
    /\ t \notin deleted
    /\ deleted' = deleted \cup {t}
    /\ home' = [a \in Agents |-> IF home[a] = t THEN NoTwin ELSE home[a]]
    /\ UNCHANGED <<status, blacklist>>

Next ==
    \/ \E a \in Agents :
        \/ Register(a) \/ Rename(a) \/ Unpair(a) \/ Retire(a)
        \/ Blacklist(a) \/ Unregister(a)
        \/ \E t \in Twins : Pair(a, t)
    \/ \E t \in Twins : DeleteTwin(t)

Spec == Init /\ [][Next]_vars
=============================================================================
