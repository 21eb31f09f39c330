---------------------------- MODULE AgentPairing ----------------------------
(***************************************************************************)
(* Assigning edge agents to twins, as the cluster does it                  *)
(* (cluster/internal/twin/agent_assignment.go, twin.go, routing_cache.go   *)
(* and the handlers of cluster/internal/auth/twin_handler.go), for the     *)
(* agents of one tenant.                                                   *)
(*                                                                         *)
(* A request is a sequence of SQL statements, some of them in a            *)
(* transaction at READ COMMITTED, and the requests of several operators    *)
(* and agents interleave.  Each check is a statement of its own.  The      *)
(* DELETE of a transaction fixes the rows it saw (step "delete"); its      *)
(* other statements touch only rows that its own WHERE clauses name and    *)
(* take effect with the COMMIT (step "commit"): a second transaction that  *)
(* deletes the same row waits for the first and then skips the row.        *)
(* A request may fail or be cut off before any statement.                  *)
(***************************************************************************)
CONSTANTS
    Agents,    \* edge agents of the tenant
    Twins,     \* twins of the tenant
    NoTwin,    \* no twin, an empty routing entry
    Miss,      \* no routing entry
    Requests,  \* requests that may be in progress at the same time
    Lookups,   \* routing lookups that may be in progress at the same time
    Ops        \* the operations that requests carry out

AllOps == {"pair", "unpair", "retire", "blacklist", "unregister", "deletetwin",
           "assign", "register", "autoassign", "deleteagent", "rename"}

ASSUME AgentsAssumption == Agents # {}
ASSUME OpsAssumption == Ops \subseteq AllOps
ASSUME NoTwinAssumption == NoTwin \notin Twins /\ Miss \notin Twins /\ Miss # NoTwin

VARIABLES
    status,     \* agent_registrations.status, "none" when there is no row
    blacklist,  \* agents with a row in agent_blacklist
    assign,     \* rows of agent_assignments, as <<agent_id, twin_id>>
    twinStatus, \* paryty_twins.status
    deleted,    \* twins whose deleted_at is set
    cache,      \* the routing hash of the tenant in Dragonfly
    req,        \* the requests in progress
    lookup      \* the routing lookups between their read and their HSET

vars == <<status, blacklist, assign, twinStatus, deleted, cache, req, lookup>>
tables == <<status, blacklist, assign, twinStatus, deleted>>

-----------------------------------------------------------------------------
\* The twin of each agent, for the abstract specification.
Home ==
    [a \in Agents |-> IF \E t \in Twins : <<a, t>> \in assign
                        THEN CHOOSE t \in Twins : <<a, t>> \in assign
                        ELSE NoTwin]

Lifecycle == INSTANCE AgentLifecycle WITH home <- Home

CanTransitionEdge(current, action) == Lifecycle!CanTransitionEdge(current, action)

RowsOf(a) == {row \in assign : row[1] = a}
RowsTo(t) == {row \in assign : row[2] = t}

Steps == {"idle", "upsert", "rename", "blacklist", "status", "twin", "twinof",
          "clear", "insert", "erase", "delete", "commit", "invalidate"}

Idle(a) == [step |-> "idle", op |-> "rename", agent |-> a, twin |-> NoTwin,
            rows |-> {}]

Init ==
    /\ status = [a \in Agents |-> "none"]
    /\ blacklist = {} /\ assign = {}
    /\ twinStatus = [t \in Twins |-> "pending"] /\ deleted = {}
    /\ cache = [a \in Agents |-> Miss]
    /\ req = [r \in Requests |-> Idle(CHOOSE a \in Agents : TRUE)]
    /\ lookup = [k \in Lookups |-> Miss]

-----------------------------------------------------------------------------
(* Requests: where one starts, goes on and ends.                           *)

FirstStep(op) ==
    CASE op = "pair" -> "blacklist"
      [] op \in {"unpair", "retire", "blacklist"} -> "status"
      [] op \in {"unregister", "deletetwin"} -> "delete"
      [] op = "assign" -> "twin"
      [] op \in {"register", "autoassign"} -> "upsert"
      [] op = "deleteagent" -> "clear"
      [] op = "rename" -> "rename"

\* The twin a request names.
TwinChoices(op) ==
    IF op \in {"pair", "assign", "autoassign", "deletetwin"} THEN Twins ELSE {NoTwin}

Begin(r, op, a, t) ==
    /\ req[r].step = "idle"
    /\ req' = [req EXCEPT ![r] = [step |-> FirstStep(op), op |-> op, agent |-> a,
                                  twin |-> t, rows |-> {}]]
    /\ UNCHANGED <<tables, cache, lookup>>

At(r, step) == req[r].step = step
Go(r, step) == req' = [req EXCEPT ![r].step = step]
End(r) == req' = [req EXCEPT ![r] = Idle(req[r].agent)]
GoOrEnd(r, ok, step) == IF ok THEN Go(r, step) ELSE End(r)

\* A statement fails, the context is cancelled or the process dies: an open
\* transaction is rolled back, what was committed stays.
Abort(r) ==
    /\ ~At(r, "idle")
    /\ End(r)
    /\ UNCHANGED <<tables, cache, lookup>>

-----------------------------------------------------------------------------
(* The checks, each a SELECT of its own.                                   *)

\* Mutant: the query that looks for the agent in the blacklist is dropped.
CheckBlacklistSkipped(r) ==
    /\ At(r, "blacklist")
    /\ Go(r, "status")
    /\ UNCHANGED <<tables, cache, lookup>>

CheckBlacklist(r) ==
    /\ At(r, "blacklist")
    /\ GoOrEnd(r, req[r].agent \notin blacklist, "status")
    /\ UNCHANGED <<tables, cache, lookup>>

\* Mutant: the status that was read is not held against the table.
CheckStatusExists(r) ==
    /\ At(r, "status")
    /\ GoOrEnd(r, status[req[r].agent] # "none",
               IF req[r].op = "pair" THEN "twin"
               ELSE IF req[r].op = "unpair" THEN "twinof" ELSE "delete")
    /\ UNCHANGED <<tables, cache, lookup>>

\* BlacklistAgent takes every status but "blacklisted", no row included.
CheckStatus(r) ==
    LET current == status[req[r].agent] IN
    /\ At(r, "status")
    /\ CASE req[r].op = "pair" -> GoOrEnd(r, CanTransitionEdge(current, "pair"), "twin")
         [] req[r].op = "unpair" ->
                GoOrEnd(r, CanTransitionEdge(current, "unpair"), "twinof")
         [] req[r].op = "retire" ->
                GoOrEnd(r, CanTransitionEdge(current, "retire"), "delete")
         [] req[r].op = "blacklist" -> GoOrEnd(r, current # "blacklisted", "delete")
    /\ UNCHANGED <<tables, cache, lookup>>

\* Mutant: a twin that exists but is deleted passes.
CheckTwinAny(r) ==
    /\ At(r, "twin")
    /\ Go(r, IF req[r].op = "pair" THEN "delete" ELSE "clear")
    /\ UNCHANGED <<tables, cache, lookup>>

\* The twin exists and deleted_at IS NULL.
CheckTwin(r) ==
    /\ At(r, "twin")
    /\ GoOrEnd(r, req[r].twin \notin deleted,
               IF req[r].op = "pair" THEN "delete" ELSE "clear")
    /\ UNCHANGED <<tables, cache, lookup>>

\* UnpairAgent reads the twin of the agent: one row, if there are several.
ReadTwin(r) ==
    /\ At(r, "twinof")
    /\ \/ RowsOf(req[r].agent) = {} /\ End(r)
       \/ \E row \in RowsOf(req[r].agent) :
            req' = [req EXCEPT ![r].twin = row[2], ![r].step = "delete"]
    /\ UNCHANGED <<tables, cache, lookup>>

-----------------------------------------------------------------------------
(* Transactions: PairAgent, UnpairAgent, RetireAgent, BlacklistAgent,      *)
(* UnregisterAgent, DeleteTwin.                                            *)

\* Mutant: the DELETE names the twin of the request too.
DeleteRowsOfTwin(r) ==
    /\ At(r, "delete")
    /\ IF req[r].op = "deletetwin" /\ req[r].twin \in deleted
         THEN End(r)
         ELSE req' = [req EXCEPT
                        ![r].rows = IF req[r].op = "deletetwin" THEN RowsTo(req[r].twin)
                                    ELSE RowsOf(req[r].agent) \cap RowsTo(req[r].twin),
                        ![r].step = "commit"]
    /\ UNCHANGED <<tables, cache, lookup>>

\* The DELETE statement sees the rows that are committed now.  DeleteTwin has
\* set deleted_at before, which fails if it is set already.
DeleteRows(r) ==
    /\ At(r, "delete")
    /\ IF req[r].op = "deletetwin" /\ req[r].twin \in deleted
         THEN End(r)
         ELSE req' = [req EXCEPT
                        ![r].rows = IF req[r].op = "deletetwin" THEN RowsTo(req[r].twin)
                                    ELSE RowsOf(req[r].agent),
                        ![r].step = "commit"]
    /\ UNCHANGED <<tables, cache, lookup>>

\* The rows r removes are no longer there for the other transactions, even if
\* a row with the same key is inserted later.
Finish(r, next, removed) ==
    req' = [q \in Requests |->
              IF q = r
                THEN IF next = "idle" THEN Idle(req[r].agent)
                     ELSE [req[r] EXCEPT !.step = next, !.rows = {}]
                ELSE [req[q] EXCEPT !.rows = @ \ removed]]

\* UPDATE agent_registrations: without effect when there is no row.
SetStatus(a, s) ==
    status' = IF status[a] = "none" THEN status ELSE [status EXCEPT ![a] = s]

Commits(r, op) == At(r, "commit") /\ req[r].op = op

\* The INSERT fails on a row with the same key that is not one of those this
\* transaction has deleted.
CommitPair(r) ==
    LET a == req[r].agent  t == req[r].twin IN
    /\ Commits(r, "pair") /\ <<a, t>> \notin assign \ req[r].rows
    /\ assign' = (assign \ req[r].rows) \cup {<<a, t>>}
    /\ SetStatus(a, "active")
    /\ twinStatus' = [twinStatus EXCEPT ![t] = "active"]
    /\ Finish(r, "invalidate", req[r].rows)
    /\ UNCHANGED <<blacklist, deleted, cache, lookup>>

CommitUnpair(r) ==
    /\ Commits(r, "unpair")
    /\ assign' = assign \ req[r].rows
    /\ SetStatus(req[r].agent, "rogue")
    /\ twinStatus' = [twinStatus EXCEPT ![req[r].twin] = "unconfigured"]
    /\ Finish(r, "invalidate", req[r].rows)
    /\ UNCHANGED <<blacklist, deleted, cache, lookup>>

\* The handlers of RetireAgent, BlacklistAgent and UnregisterAgent leave the
\* routing entry alone.
CommitRetire(r) ==
    /\ Commits(r, "retire")
    /\ assign' = assign \ req[r].rows
    /\ SetStatus(req[r].agent, "retired")
    /\ Finish(r, "idle", req[r].rows)
    /\ UNCHANGED <<blacklist, twinStatus, deleted, cache, lookup>>

CommitBlacklist(r) ==
    /\ Commits(r, "blacklist")
    /\ blacklist' = blacklist \cup {req[r].agent}
    /\ assign' = assign \ req[r].rows
    /\ SetStatus(req[r].agent, "blacklisted")
    /\ Finish(r, "idle", req[r].rows)
    /\ UNCHANGED <<twinStatus, deleted, cache, lookup>>

\* Mutant: the DELETE of the registration is missing.
CommitUnregisterPartly(r) ==
    LET a == req[r].agent IN
    /\ Commits(r, "unregister")
    /\ assign' = assign \ req[r].rows
    /\ blacklist' = blacklist \ {a}
    /\ Finish(r, "idle", req[r].rows)
    /\ UNCHANGED <<status, twinStatus, deleted, cache, lookup>>

\* Without a registration the whole transaction is rolled back.
CommitUnregister(r) ==
    LET a == req[r].agent IN
    /\ Commits(r, "unregister") /\ status[a] # "none"
    /\ assign' = assign \ req[r].rows
    /\ blacklist' = blacklist \ {a}
    /\ status' = [status EXCEPT ![a] = "none"]
    /\ Finish(r, "idle", req[r].rows)
    /\ UNCHANGED <<twinStatus, deleted, cache, lookup>>

CommitDeleteTwin(r) ==
    /\ Commits(r, "deletetwin") /\ req[r].twin \notin deleted
    /\ deleted' = deleted \cup {req[r].twin}
    /\ assign' = assign \ req[r].rows
    /\ Finish(r, "invalidate", req[r].rows)
    /\ UNCHANGED <<status, blacklist, twinStatus, cache, lookup>>

Commit(r) ==
    \/ CommitPair(r) \/ CommitUnpair(r) \/ CommitRetire(r) \/ CommitBlacklist(r)
    \/ CommitUnregister(r) \/ CommitDeleteTwin(r)

-----------------------------------------------------------------------------
(* Operations without a transaction: every statement commits by itself.    *)

\* AgentAssigner.RegisterAgent moves the agent ("assign": AssignAgentToTwin,
\* "autoassign": an agent that registers with an x-twin-id), DeleteAgent.
ClearRows(r) ==
    LET a == req[r].agent IN
    /\ At(r, "clear")
    /\ assign' = assign \ RowsOf(a)
    /\ Finish(r, IF req[r].op = "deleteagent" THEN "erase" ELSE "insert", RowsOf(a))
    /\ UNCHANGED <<status, blacklist, twinStatus, deleted, cache, lookup>>

InsertRow(r) ==
    LET row == <<req[r].agent, req[r].twin>> IN
    /\ At(r, "insert") /\ row \notin assign
    /\ assign' = assign \cup {row}
    /\ GoOrEnd(r, req[r].op = "assign", "invalidate")
    /\ UNCHANGED <<status, blacklist, twinStatus, deleted, cache, lookup>>

EraseAgent(r) ==
    /\ At(r, "erase")
    /\ status' = [status EXCEPT ![req[r].agent] = "none"]
    /\ End(r)
    /\ UNCHANGED <<blacklist, assign, twinStatus, deleted, cache, lookup>>

\* Mutant: the twin id is not tested, an empty one is assigned too.
UpsertAssigns(r) ==
    LET a == req[r].agent IN
    /\ At(r, "upsert")
    /\ status' = IF status[a] = "none" THEN [status EXCEPT ![a] = "pending"] ELSE status
    /\ Go(r, "twin")
    /\ UNCHANGED <<blacklist, assign, twinStatus, deleted, cache, lookup>>

\* UpsertAgentRegistration (and CreateAgent): a new row is 'pending', an
\* existing one keeps its status.  Nobody looks at the blacklist.
Upsert(r) ==
    LET a == req[r].agent IN
    /\ At(r, "upsert")
    /\ status' = IF status[a] = "none" THEN [status EXCEPT ![a] = "pending"] ELSE status
    /\ GoOrEnd(r, req[r].op = "autoassign", "twin")
    /\ UNCHANGED <<blacklist, assign, twinStatus, deleted, cache, lookup>>

\* UpdateAgent.
Rename(r) ==
    LET a == req[r].agent IN
    /\ At(r, "rename")
    /\ status' = IF status[a] = "pending" THEN [status EXCEPT ![a] = "deployed"]
                 ELSE status
    /\ End(r)
    /\ UNCHANGED <<blacklist, assign, twinStatus, deleted, cache, lookup>>

-----------------------------------------------------------------------------
(* The routing cache.                                                      *)

\* InvalidateAgent, or InvalidateTenant after DeleteTwin.
Invalidate(r) ==
    /\ At(r, "invalidate")
    /\ cache' = [a \in Agents |-> IF a = req[r].agent \/ req[r].op = "deletetwin"
                                    THEN Miss ELSE cache[a]]
    /\ End(r)
    /\ UNCHANGED <<tables, lookup>>

\* ResolveTopic and ResolveTwinID: no entry, so the table is read (one row, if
\* there are several) ...
LookupRead(k, a) ==
    /\ lookup[k] = Miss /\ cache[a] \notin Twins
    /\ \/ RowsOf(a) = {} /\ lookup' = [lookup EXCEPT ![k] = <<a, NoTwin>>]
       \/ \E row \in RowsOf(a) : lookup' = [lookup EXCEPT ![k] = row]
    /\ UNCHANGED <<tables, cache, req>>

\* ... and its answer cached.
LookupStore(k) ==
    /\ lookup[k] # Miss
    /\ cache' = [cache EXCEPT ![lookup[k][1]] = lookup[k][2]]
    /\ lookup' = [lookup EXCEPT ![k] = Miss]
    /\ UNCHANGED <<tables, req>>

\* The time to live of the tenant's hash is over.
CacheExpires ==
    /\ cache' = [a \in Agents |-> Miss]
    /\ UNCHANGED <<tables, req, lookup>>

-----------------------------------------------------------------------------
Check(r) == CheckBlacklist(r) \/ CheckStatus(r) \/ CheckTwin(r) \/ ReadTwin(r)

Statement(r) ==
    \/ DeleteRows(r) \/ Commit(r)
    \/ ClearRows(r) \/ InsertRow(r) \/ EraseAgent(r) \/ Upsert(r) \/ Rename(r)

Next ==
    \/ \E r \in Requests :
        \/ \E op \in Ops, a \in Agents : \E t \in TwinChoices(op) : Begin(r, op, a, t)
        \/ Check(r) \/ Statement(r) \/ Invalidate(r) \/ Abort(r)
    \/ \E k \in Lookups : LookupStore(k) \/ \E a \in Agents : LookupRead(k, a)
    \/ CacheExpires

Spec == Init /\ [][Next]_vars

-----------------------------------------------------------------------------
(* Properties.                                                             *)

Row == Agents \X Twins
Status == Lifecycle!Statuses \cup {"none"}
Request == [step : Steps, op : AllOps, agent : Agents, twin : Twins \cup {NoTwin},
            rows : SUBSET Row]

TypeOK ==
    /\ status \in [Agents -> Status]
    /\ blacklist \subseteq Agents /\ assign \subseteq Row /\ deleted \subseteq Twins
    /\ twinStatus \in [Twins -> {"pending", "active", "unconfigured"}]
    /\ cache \in [Agents -> Twins \cup {NoTwin, Miss}]
    /\ req \in [Requests -> Request]
    /\ lookup \in [Lookups -> {Miss} \cup (Agents \X (Twins \cup {NoTwin}))]

\* Whatever requests overlap, an agent whose status is "blacklisted" is in the
\* blacklist, the table that PairAgent consults: the two are changed by
\* BlacklistAgent and by UnregisterAgent, each in one transaction.
BlacklistComplete ==
    \A a \in Agents : status[a] = "blacklisted" => a \in blacklist

\* "An agent can only belong to one twin at a time."
OneTwinPerAgent ==
    \A a \in Agents : \A row1, row2 \in RowsOf(a) : row1 = row2

\* Only agents of twins that exist are assigned: DeleteTwin dissociates all
\* agents of the twin and no request brings one back.
AssignedTwinExists == \A row \in assign : row[2] \notin deleted

\* "Validates state transitions and enforces blacklist checks": a blacklisted
\* agent is not paired.
ActiveNotBlacklisted ==
    \A a \in Agents : status[a] = "active" => a \notin blacklist

\* Unpairing is what happens when an "active agent loses twin association": an
\* agent that is active has a twin.
ActiveHasTwin ==
    (\A r \in Requests : At(r, "idle"))
      => \A a \in Agents : status[a] = "active" => RowsOf(a) # {}

\* Requests that do not overlap carry out the lifecycle of AgentLifecycle: no
\* check is stale when its transaction commits.
LifecycleSpec == Lifecycle!Spec

\* "The complete state machine for edge agents": the status of a registered
\* agent changes along edgeValidTransitions (or with UpdateAgent).
StatusMovesAlongTable ==
    [][\A a \in Agents :
        status[a] # status'[a] /\ "none" \notin {status[a], status'[a]}
          => \/ \E action \in {"pair", "unpair", "retire", "blacklist"} :
                  <<status[a], action, status'[a]>> \in Lifecycle!EdgeValidTransitions
             \/ status[a] = "pending" /\ status'[a] = "deployed"]_vars

\* "Blocks an edge agent from ever registering again": a blacklisted agent
\* that is not registered does not become registered, or assigned.
BlacklistBlocks ==
    [][\A a \in blacklist \cap blacklist' :
        /\ status[a] = "none" => status'[a] = "none"
        /\ RowsOf(a) = {} => RowsOf(a)' = {}]_vars

\* InvalidateAgent is "called after assignment changes": when nothing is in
\* progress, a cached route is the agent's assignment.
RouteFresh ==
    (\A r \in Requests : At(r, "idle")) /\ (\A k \in Lookups : lookup[k] = Miss)
      => \A a \in Agents : cache[a] \in Twins => <<a, cache[a]>> \in assign
=============================================================================
