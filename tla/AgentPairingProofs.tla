------------------------- MODULE AgentPairingProofs -------------------------
(***************************************************************************)
(* Theorems about AgentPairing, for every set of agents, twins, requests   *)
(* and lookups and every choice of operations.                             *)
(***************************************************************************)
EXTENDS AgentPairing, TLAPS

\* Which operations reach which step, and which of them name a twin there.
StepFits(q) ==
    /\ q.op \in {"pair", "assign", "autoassign", "deletetwin"} => q.twin \in Twins
    /\ q.op = "unpair" /\ q.step \in {"delete", "commit"} => q.twin \in Twins
    /\ q.step = "blacklist" => q.op = "pair"
    /\ q.step = "status" => q.op \in {"pair", "unpair", "retire", "blacklist"}
    /\ q.step = "twin" => q.op \in {"pair", "assign", "autoassign"}
    /\ q.step = "twinof" => q.op = "unpair"
    /\ q.step = "clear" => q.op \in {"assign", "autoassign", "deleteagent"}
    /\ q.step = "insert" => q.op \in {"assign", "autoassign"}
    /\ q.step = "erase" => q.op = "deleteagent"
    /\ q.step \in {"delete", "commit"}
         => q.op \in {"pair", "unpair", "retire", "blacklist", "unregister",
                      "deletetwin"}

RequestsFit == \A r \in Requests : StepFits(req[r])

\* The inductive invariant behind type correctness.
TypeInv == TypeOK /\ RequestsFit

-----------------------------------------------------------------------------
(* How the requests change.                                                *)

LEMMA IdleFits ==
    ASSUME NEW a \in Agents
    PROVE  Idle(a) \in Request /\ StepFits(Idle(a))
BY DEF Idle, Request, StepFits, Steps, AllOps

LEMMA InitType == Init => TypeInv
<1> SUFFICES ASSUME Init PROVE TypeInv
  OBVIOUS
<1>1. (CHOOSE a \in Agents : TRUE) \in Agents
  BY AgentsAssumption
<1>2. req \in [Requests -> Request] /\ RequestsFit
  BY <1>1, IdleFits DEF Init, RequestsFit
<1> QED BY <1>2 DEF Init, TypeInv, TypeOK, Status, Row

\* One request changes, the others stay.
LEMMA OneChanges ==
    ASSUME TypeInv, NEW r \in Requests, NEW new \in Request, StepFits(new),
           req' = [req EXCEPT ![r] = new]
    PROVE  req' \in [Requests -> Request] /\ RequestsFit'
BY DEF TypeInv, TypeOK, RequestsFit

LEMMA EndFits ==
    ASSUME TypeInv, NEW r \in Requests, End(r)
    PROVE  req' \in [Requests -> Request] /\ RequestsFit'
<1>1. req[r].agent \in Agents
  BY DEF TypeInv, TypeOK, Request
<1>2. Idle(req[r].agent) \in Request /\ StepFits(Idle(req[r].agent))
  BY <1>1, IdleFits
<1> QED BY <1>2, OneChanges DEF End

LEMMA GoFits ==
    ASSUME TypeInv, NEW r \in Requests, NEW s \in Steps, Go(r, s),
           StepFits([req[r] EXCEPT !.step = s])
    PROVE  req' \in [Requests -> Request] /\ RequestsFit'
<1> DEFINE new == [req[r] EXCEPT !.step = s]
<1>1. new \in Request
  BY DEF TypeInv, TypeOK, Request
<1>2. req' = [req EXCEPT ![r] = new]
  BY DEF Go, TypeInv, TypeOK
<1> QED BY <1>1, <1>2, OneChanges

\* After a commit the request goes on or ends, and the rows that were removed
\* leave the other requests.
LEMMA FinishFits ==
    ASSUME TypeInv, NEW r \in Requests, NEW s \in Steps, NEW gone,
           Finish(r, s, gone),
           s # "idle" => StepFits([req[r] EXCEPT !.step = s, !.rows = {}])
    PROVE  req' \in [Requests -> Request] /\ RequestsFit'
<1> SUFFICES ASSUME NEW q \in Requests
             PROVE  req'[q] \in Request /\ StepFits(req'[q])
  BY DEF Finish, RequestsFit
<1>1. req[r] \in Request /\ req[q] \in Request /\ StepFits(req[q])
  BY DEF TypeInv, TypeOK, RequestsFit
<1>2. CASE q # r
  <2>1. req'[q] = [req[q] EXCEPT !.rows = @ \ gone]
    BY <1>2 DEF Finish
  <2>2. req'[q] \in Request
    BY <2>1, <1>1 DEF Request
  <2>3. StepFits(req'[q])
    BY <2>1, <1>1 DEF StepFits, Request
  <2> QED BY <2>2, <2>3
<1>3. CASE q = r /\ s = "idle"
  <2>1. req'[q] = Idle(req[r].agent) /\ req[r].agent \in Agents
    BY <1>3, <1>1 DEF Finish, Request
  <2> QED BY <2>1, IdleFits
<1>4. CASE q = r /\ s # "idle"
  <2>1. req'[q] = [req[r] EXCEPT !.step = s, !.rows = {}]
    BY <1>4 DEF Finish
  <2>2. req'[q] \in Request
    BY <2>1, <1>1 DEF Request
  <2> QED BY <2>1, <2>2, <1>4
<1> QED BY <1>2, <1>3, <1>4

-----------------------------------------------------------------------------
(* Type correctness, one lemma per kind of step.                           *)

LEMMA BeginType ==
    ASSUME TypeInv, NEW r \in Requests, NEW op \in Ops, NEW a \in Agents,
           NEW t \in TwinChoices(op), Begin(r, op, a, t)
    PROVE  TypeInv'
<1> DEFINE new == [step |-> FirstStep(op), op |-> op, agent |-> a, twin |-> t,
                   rows |-> {}]
<1>1. op \in AllOps
  BY OpsAssumption
<1>2. FirstStep(op) \in Steps
  BY <1>1 DEF FirstStep, AllOps, Steps
<1>3. t \in Twins \cup {NoTwin}
  BY DEF TwinChoices
<1>4. new \in Request
  BY <1>1, <1>2, <1>3 DEF Request
<1>5. StepFits(new)
  BY <1>1 DEF StepFits, FirstStep, TwinChoices, AllOps
<1>6. req' \in [Requests -> Request] /\ RequestsFit'
  BY <1>4, <1>5, OneChanges DEF Begin
<1> QED BY <1>6 DEF Begin, TypeInv, TypeOK, tables

LEMMA AbortType ==
    ASSUME TypeInv, NEW r \in Requests, Abort(r)
    PROVE  TypeInv'
<1>1. req' \in [Requests -> Request] /\ RequestsFit'
  BY EndFits DEF Abort
<1> QED BY <1>1 DEF Abort, TypeInv, TypeOK, tables

LEMMA CheckType ==
    ASSUME TypeInv, NEW r \in Requests, Check(r)
    PROVE  TypeInv'
<1> USE DEF TypeInv
<1>1. req[r] \in Request /\ StepFits(req[r])
  BY DEF TypeOK, RequestsFit
<1>2. ASSUME NEW s \in Steps, Go(r, s), StepFits([req[r] EXCEPT !.step = s])
      PROVE  req' \in [Requests -> Request] /\ RequestsFit'
  BY <1>2, GoFits
<1>3. req' \in [Requests -> Request] /\ RequestsFit'
  <2>1. CASE CheckBlacklist(r)
    <3>1. CASE End(r)
      BY <3>1, EndFits
    <3>2. CASE Go(r, "status")
      <4>1. StepFits([req[r] EXCEPT !.step = "status"])
        BY <1>1, <2>1 DEF StepFits, Request, CheckBlacklist, At
      <4> QED BY <3>2, <4>1, <1>2 DEF Steps
    <3> QED BY <2>1, <3>1, <3>2 DEF CheckBlacklist, GoOrEnd
  <2>2. CASE CheckStatus(r)
    <3>1. CASE End(r)
      BY <3>1, EndFits
    <3>2. CASE req[r].op = "pair" /\ Go(r, "twin")
      <4>1. StepFits([req[r] EXCEPT !.step = "twin"])
        BY <1>1, <3>2 DEF StepFits, Request
      <4> QED BY <3>2, <4>1, <1>2 DEF Steps
    <3>3. CASE req[r].op = "unpair" /\ Go(r, "twinof")
      <4>1. StepFits([req[r] EXCEPT !.step = "twinof"])
        BY <1>1, <3>3 DEF StepFits, Request
      <4> QED BY <3>3, <4>1, <1>2 DEF Steps
    <3>4. CASE req[r].op \in {"retire", "blacklist"} /\ Go(r, "delete")
      <4>1. StepFits([req[r] EXCEPT !.step = "delete"])
        BY <1>1, <3>4 DEF StepFits, Request
      <4> QED BY <3>4, <4>1, <1>2 DEF Steps
    <3>5. req[r].op \in {"pair", "unpair", "retire", "blacklist"}
      BY <1>1, <2>2 DEF StepFits, CheckStatus, At
    <3> QED BY <2>2, <3>1, <3>2, <3>3, <3>4, <3>5 DEF CheckStatus, GoOrEnd
  <2>3. CASE CheckTwin(r)
    <3>1. CASE End(r)
      BY <3>1, EndFits
    <3>2. CASE req[r].op = "pair" /\ Go(r, "delete")
      <4>1. StepFits([req[r] EXCEPT !.step = "delete"])
        BY <1>1, <3>2 DEF StepFits, Request
      <4> QED BY <3>2, <4>1, <1>2 DEF Steps
    <3>3. CASE req[r].op \in {"assign", "autoassign"} /\ Go(r, "clear")
      <4>1. StepFits([req[r] EXCEPT !.step = "clear"])
        BY <1>1, <3>3 DEF StepFits, Request
      <4> QED BY <3>3, <4>1, <1>2 DEF Steps
    <3>4. req[r].op \in {"pair", "assign", "autoassign"}
      BY <1>1, <2>3 DEF StepFits, CheckTwin, At
    <3> QED BY <2>3, <3>1, <3>2, <3>3, <3>4 DEF CheckTwin, GoOrEnd
  <2>4. CASE ReadTwin(r)
    <3>1. CASE End(r)
      BY <3>1, EndFits
    <3>2. ASSUME NEW row \in RowsOf(req[r].agent),
                 req' = [req EXCEPT ![r].twin = row[2], ![r].step = "delete"]
          PROVE  req' \in [Requests -> Request] /\ RequestsFit'
      <4> DEFINE new == [req[r] EXCEPT !.twin = row[2], !.step = "delete"]
      <4>1. row[2] \in Twins
        BY DEF RowsOf, TypeOK, Row
      <4>2. new \in Request
        BY <1>1, <4>1 DEF Request, Steps
      <4>3. req[r].op = "unpair"
        BY <1>1, <2>4 DEF StepFits, ReadTwin, At
      <4>4. StepFits(new)
        BY <1>1, <4>1, <4>3 DEF StepFits, Request
      <4>5. req' = [req EXCEPT ![r] = new]
        BY <3>2 DEF TypeOK
      <4> QED BY <4>2, <4>4, <4>5, OneChanges
    <3> QED BY <2>4, <3>1, <3>2 DEF ReadTwin
  <2> QED BY <2>1, <2>2, <2>3, <2>4 DEF Check
<1> QED BY <1>3 DEF Check, CheckBlacklist, CheckStatus, CheckTwin, ReadTwin,
                    TypeOK, tables

\* The rows a request has seen are rows; so is what it leaves in the table.
LEMMA RowsType ==
    ASSUME TypeInv, NEW a, NEW t
    PROVE  RowsOf(a) \subseteq Row /\ RowsTo(t) \subseteq Row
BY DEF TypeInv, TypeOK, RowsOf, RowsTo

LEMMA DeleteRowsType ==
    ASSUME TypeInv, NEW r \in Requests, DeleteRows(r)
    PROVE  TypeInv'
<1>1. req[r] \in Request /\ StepFits(req[r])
  BY DEF TypeInv, TypeOK, RequestsFit
<1>2. req' \in [Requests -> Request] /\ RequestsFit'
  <2>1. CASE End(r)
    BY <2>1, EndFits
  <2>2. ASSUME NEW seen \in SUBSET Row,
               req' = [req EXCEPT ![r].rows = seen, ![r].step = "commit"]
        PROVE  req' \in [Requests -> Request] /\ RequestsFit'
    <3> DEFINE new == [req[r] EXCEPT !.rows = seen, !.step = "commit"]
    <3>1. new \in Request
      BY <1>1 DEF Request, Steps
    <3>2. StepFits(new)
      BY <1>1 DEF StepFits, Request, DeleteRows, At
    <3>3. req' = [req EXCEPT ![r] = new]
      BY <2>2 DEF TypeInv, TypeOK
    <3> QED BY <3>1, <3>2, <3>3, OneChanges
  <2>3. /\ RowsTo(req[r].twin) \in SUBSET Row
        /\ RowsOf(req[r].agent) \in SUBSET Row
    BY RowsType
  <2> QED BY <2>1, <2>2, <2>3 DEF DeleteRows
<1> QED BY <1>2 DEF DeleteRows, TypeInv, TypeOK, tables

\* SetStatus gives a registered agent a status and leaves the others alone.
LEMMA SetStatusType ==
    ASSUME TypeInv, NEW a \in Agents, NEW s \in Status, SetStatus(a, s)
    PROVE  status' \in [Agents -> Status]
BY DEF TypeInv, TypeOK, SetStatus

\* Two facts common to the commits: what Finish needs, and what is left.
LEMMA CommitFacts ==
    ASSUME TypeInv, NEW r \in Requests, At(r, "commit")
    PROVE  /\ req[r] \in Request /\ req[r].agent \in Agents
           /\ assign \ req[r].rows \subseteq Row
           /\ StepFits([req[r] EXCEPT !.step = "invalidate", !.rows = {}])
           /\ req[r].op \in {"pair", "unpair", "deletetwin"} => req[r].twin \in Twins
<1>1. req[r] \in Request /\ StepFits(req[r]) /\ assign \subseteq Row
  BY DEF TypeInv, TypeOK, RequestsFit
<1>2. StepFits([req[r] EXCEPT !.step = "invalidate", !.rows = {}])
  BY <1>1 DEF StepFits, Request
<1> QED BY <1>1, <1>2 DEF Request, StepFits, At

LEMMA CommitType ==
    ASSUME TypeInv, NEW r \in Requests, Commit(r)
    PROVE  TypeInv'
<1>1. At(r, "commit")
  BY DEF Commit, Commits, CommitPair, CommitUnpair, CommitRetire, CommitBlacklist,
         CommitUnregister, CommitDeleteTwin
<1>2. /\ req[r] \in Request /\ req[r].agent \in Agents
      /\ assign \ req[r].rows \subseteq Row
      /\ StepFits([req[r] EXCEPT !.step = "invalidate", !.rows = {}])
      /\ req[r].op \in {"pair", "unpair", "deletetwin"} => req[r].twin \in Twins
  BY <1>1, CommitFacts
<1>3. {"idle", "invalidate"} \subseteq Steps
  BY DEF Steps
<1>4. {"active", "rogue", "retired", "blacklisted", "none"} \subseteq Status
  BY DEF Status, Lifecycle!Statuses
<1>5. ASSUME NEW s \in {"idle", "invalidate"}, Finish(r, s, req[r].rows)
      PROVE  req' \in [Requests -> Request] /\ RequestsFit'
  BY <1>5, <1>2, <1>3, FinishFits
<1>6. ASSUME NEW s \in Status, SetStatus(req[r].agent, s)
      PROVE  status' \in [Agents -> Status]
  BY <1>6, <1>2, SetStatusType
<1>7. CASE CommitPair(r)
  <2>1. <<req[r].agent, req[r].twin>> \in Row
    BY <1>2, <1>7 DEF CommitPair, Commits, Row
  <2>2. assign' \subseteq Row
    BY <1>2, <1>7, <2>1 DEF CommitPair
  <2>3. req' \in [Requests -> Request] /\ RequestsFit' /\ status' \in [Agents -> Status]
    BY <1>5, <1>6, <1>4, <1>7 DEF CommitPair
  <2> QED BY <2>2, <2>3, <1>7 DEF CommitPair, TypeInv, TypeOK
<1>8. CASE CommitUnpair(r)
  <2>1. req' \in [Requests -> Request] /\ RequestsFit' /\ status' \in [Agents -> Status]
    BY <1>5, <1>6, <1>4, <1>8 DEF CommitUnpair
  <2> QED BY <2>1, <1>2, <1>8 DEF CommitUnpair, TypeInv, TypeOK
<1>9. CASE CommitRetire(r)
  <2>1. req' \in [Requests -> Request] /\ RequestsFit' /\ status' \in [Agents -> Status]
    BY <1>5, <1>6, <1>4, <1>9 DEF CommitRetire
  <2> QED BY <2>1, <1>2, <1>9 DEF CommitRetire, TypeInv, TypeOK
<1>10. CASE CommitBlacklist(r)
  <2>1. req' \in [Requests -> Request] /\ RequestsFit' /\ status' \in [Agents -> Status]
    BY <1>5, <1>6, <1>4, <1>10 DEF CommitBlacklist
  <2> QED BY <2>1, <1>2, <1>10 DEF CommitBlacklist, TypeInv, TypeOK
<1>11. CASE CommitUnregister(r)
  <2>1. req' \in [Requests -> Request] /\ RequestsFit'
    BY <1>5, <1>11 DEF CommitUnregister
  <2>2. status' \in [Agents -> Status]
    BY <1>4, <1>11 DEF CommitUnregister, TypeInv, TypeOK
  <2> QED BY <2>1, <2>2, <1>2, <1>11 DEF CommitUnregister, TypeInv, TypeOK
<1>12. CASE CommitDeleteTwin(r)
  <2>1. req' \in [Requests -> Request] /\ RequestsFit'
    BY <1>5, <1>12 DEF CommitDeleteTwin
  <2>2. deleted' \subseteq Twins
    BY <1>2, <1>12 DEF CommitDeleteTwin, Commits, TypeInv, TypeOK
  <2> QED BY <2>1, <2>2, <1>2, <1>12 DEF CommitDeleteTwin, TypeInv, TypeOK
<1> QED BY <1>7, <1>8, <1>9, <1>10, <1>11, <1>12 DEF Commit

LEMMA PlainType ==
    ASSUME TypeInv, NEW r \in Requests,
           ClearRows(r) \/ InsertRow(r) \/ EraseAgent(r) \/ Upsert(r) \/ Rename(r)
    PROVE  TypeInv'
<1>1. req[r] \in Request /\ StepFits(req[r]) /\ req[r].agent \in Agents
  BY DEF TypeInv, TypeOK, RequestsFit, Request
<1>2. CASE ClearRows(r)
  <2>1. req[r].op \in {"assign", "autoassign", "deleteagent"}
    BY <1>1, <1>2 DEF ClearRows, At, StepFits
  <2>2. CASE req[r].op = "deleteagent"
    <3>1. StepFits([req[r] EXCEPT !.step = "erase", !.rows = {}])
      BY <1>1, <2>2 DEF StepFits, Request
    <3>2. req' \in [Requests -> Request] /\ RequestsFit'
      BY <3>1, <1>2, <2>2, FinishFits DEF ClearRows, Steps
    <3> QED BY <3>2, <1>2 DEF ClearRows, TypeInv, TypeOK
  <2>3. CASE req[r].op # "deleteagent"
    <3>1. StepFits([req[r] EXCEPT !.step = "insert", !.rows = {}])
      BY <1>1, <2>3, <2>1 DEF StepFits, Request
    <3>2. req' \in [Requests -> Request] /\ RequestsFit'
      BY <3>1, <1>2, <2>3, FinishFits DEF ClearRows, Steps
    <3> QED BY <3>2, <1>2 DEF ClearRows, TypeInv, TypeOK
  <2> QED BY <2>2, <2>3
<1>3. CASE InsertRow(r)
  <2>1. <<req[r].agent, req[r].twin>> \in Row
    BY <1>1, <1>3 DEF InsertRow, At, StepFits, Row
  <2>2. StepFits([req[r] EXCEPT !.step = "invalidate"])
    BY <1>1 DEF StepFits, Request
  <2>3. req' \in [Requests -> Request] /\ RequestsFit'
    BY <2>2, <1>3, GoFits, EndFits DEF InsertRow, GoOrEnd, Steps
  <2> QED BY <2>1, <2>3, <1>3 DEF InsertRow, TypeInv, TypeOK
<1>4. CASE EraseAgent(r)
  <2>1. req' \in [Requests -> Request] /\ RequestsFit'
    BY <1>4, EndFits DEF EraseAgent
  <2> QED BY <2>1, <1>4 DEF EraseAgent, TypeInv, TypeOK, Status
<1>5. CASE Upsert(r)
  <2>1. CASE req[r].op = "autoassign"
    <3>1. StepFits([req[r] EXCEPT !.step = "twin"])
      BY <1>1, <2>1 DEF StepFits, Request
    <3>2. req' \in [Requests -> Request] /\ RequestsFit'
      BY <3>1, <1>5, <2>1, GoFits DEF Upsert, GoOrEnd, Steps
    <3> QED BY <3>2, <1>5 DEF Upsert, TypeInv, TypeOK, Status, Lifecycle!Statuses
  <2>2. CASE req[r].op # "autoassign"
    <3>1. req' \in [Requests -> Request] /\ RequestsFit'
      BY <1>5, <2>2, EndFits DEF Upsert, GoOrEnd
    <3> QED BY <3>1, <1>5 DEF Upsert, TypeInv, TypeOK, Status, Lifecycle!Statuses
  <2> QED BY <2>1, <2>2
<1>6. CASE Rename(r)
  <2>1. req' \in [Requests -> Request] /\ RequestsFit'
    BY <1>6, EndFits DEF Rename
  <2> QED BY <2>1, <1>6 DEF Rename, TypeInv, TypeOK, Status, Lifecycle!Statuses
<1> QED BY <1>2, <1>3, <1>4, <1>5, <1>6

LEMMA InvalidateType ==
    ASSUME TypeInv, NEW r \in Requests, Invalidate(r)
    PROVE  TypeInv'
<1>1. req' \in [Requests -> Request] /\ RequestsFit'
  BY EndFits DEF Invalidate
<1> QED BY <1>1 DEF Invalidate, TypeInv, TypeOK, tables

LEMMA LookupType ==
    ASSUME TypeInv,
           \/ \E k \in Lookups : LookupStore(k) \/ \E a \in Agents : LookupRead(k, a)
           \/ CacheExpires
    PROVE  TypeInv'
<1> USE DEF TypeInv, RequestsFit, tables
<1>1. ASSUME NEW k \in Lookups, LookupStore(k) PROVE TypeInv'
  <2>1. lookup[k] \in Agents \X (Twins \cup {NoTwin})
    BY <1>1 DEF LookupStore, TypeOK
  <2> QED BY <2>1, <1>1 DEF LookupStore, TypeOK
<1>2. ASSUME NEW k \in Lookups, NEW a \in Agents, LookupRead(k, a) PROVE TypeInv'
  <2>1. \A row \in RowsOf(a) : row \in Agents \X (Twins \cup {NoTwin})
    BY DEF RowsOf, TypeOK, Row
  <2> QED BY <2>1, <1>2 DEF LookupRead, TypeOK
<1>3. CASE CacheExpires
  BY <1>3 DEF CacheExpires, TypeOK
<1> QED BY <1>1, <1>2, <1>3

LEMMA StepType == TypeInv /\ [Next]_vars => TypeInv'
<1> SUFFICES ASSUME TypeInv, [Next]_vars PROVE TypeInv'
  OBVIOUS
<1>1. CASE UNCHANGED vars
  BY <1>1 DEF vars, TypeInv, TypeOK, RequestsFit
<1>2. CASE Next
  BY <1>2, BeginType, AbortType, CheckType, DeleteRowsType, CommitType, PlainType,
     InvalidateType, LookupType DEF Next, Statement
<1> QED BY <1>1, <1>2

\* The variables keep their types whatever requests overlap.
THEOREM TypeCorrect == Spec => []TypeOK
<1>1. TypeInv => TypeOK
  BY DEF TypeInv
<1> QED BY <1>1, InitType, StepType, PTL DEF Spec

-----------------------------------------------------------------------------
(* Whatever requests overlap, the status and the blacklist agree.          *)

LEMMA StepBlacklist == TypeInv /\ BlacklistComplete /\ [Next]_vars => BlacklistComplete'
<1> SUFFICES ASSUME TypeInv, BlacklistComplete, [Next]_vars, NEW a \in Agents,
                    status'[a] = "blacklisted"
             PROVE  a \in blacklist'
  BY DEF BlacklistComplete
<1>0. status \in [Agents -> Status] /\ (status[a] = "blacklisted" => a \in blacklist)
  BY DEF TypeInv, TypeOK, BlacklistComplete
<1>1. CASE UNCHANGED <<status, blacklist>>
  BY <1>0, <1>1
<1>2. ASSUME NEW r \in Requests, Commit(r) PROVE a \in blacklist'
  <2>1. req[r].agent \in Agents
    BY DEF TypeInv, TypeOK, Request
  <2>2. CASE CommitBlacklist(r)
    BY <2>1, <2>2, <1>0 DEF CommitBlacklist, SetStatus
  <2>3. CASE CommitUnregister(r)
    BY <2>1, <2>3, <1>0 DEF CommitUnregister
  <2>4. CASE CommitPair(r) \/ CommitUnpair(r) \/ CommitRetire(r)
    BY <2>1, <2>4, <1>0 DEF CommitPair, CommitUnpair, CommitRetire, SetStatus
  <2>5. CASE CommitDeleteTwin(r)
    BY <2>5, <1>0 DEF CommitDeleteTwin
  <2> QED BY <1>2, <2>2, <2>3, <2>4, <2>5 DEF Commit
<1>3. ASSUME NEW r \in Requests, EraseAgent(r) \/ Upsert(r) \/ Rename(r)
      PROVE  a \in blacklist'
  <2>1. req[r].agent \in Agents
    BY DEF TypeInv, TypeOK, Request
  <2> QED BY <2>1, <1>0, <1>3 DEF EraseAgent, Upsert, Rename
<1>4. CASE UNCHANGED vars
  BY <1>1, <1>4 DEF vars
<1>5. CASE Next
  <2>1. ASSUME NEW r \in Requests,
               \/ Check(r) \/ DeleteRows(r) \/ ClearRows(r) \/ InsertRow(r)
               \/ Invalidate(r) \/ Abort(r)
               \/ \E op \in Ops, b \in Agents : \E t \in TwinChoices(op) :
                     Begin(r, op, b, t)
        PROVE  UNCHANGED <<status, blacklist>>
    BY <2>1 DEF Check, CheckBlacklist, CheckStatus, CheckTwin, ReadTwin, DeleteRows,
       ClearRows, InsertRow, Invalidate, Abort, Begin, tables
  <2>2. ASSUME \/ \E k \in Lookups : LookupStore(k) \/ \E b \in Agents : LookupRead(k, b)
               \/ CacheExpires
        PROVE  UNCHANGED <<status, blacklist>>
    BY <2>2 DEF LookupStore, LookupRead, CacheExpires, tables
  <2> QED BY <1>5, <1>1, <1>2, <1>3, <2>1, <2>2 DEF Next, Statement
<1> QED BY <1>4, <1>5

\* An agent with status "blacklisted" is in the table PairAgent consults, for
\* every number of overlapping requests: BlacklistAgent writes both in one
\* transaction, UnregisterAgent removes both in one transaction.
THEOREM BlacklistCorrect == Spec => []BlacklistComplete
<1>1. Init => BlacklistComplete
  BY DEF Init, BlacklistComplete
<1> QED BY <1>1, InitType, StepType, StepBlacklist, PTL DEF Spec

-----------------------------------------------------------------------------
(* Requests that do not overlap: what a check found still holds when the   *)
(* transaction commits.                                                    *)

OneAtATime == \A r, q \in Requests : r = q

\* What request r knows at each of its steps.
Knows(r) ==
    LET a == req[r].agent  t == req[r].twin IN
    /\ req[r].op = "pair" /\ req[r].step \in {"status", "twin", "delete", "commit"}
         => a \notin blacklist
    /\ req[r].op = "pair" /\ req[r].step \in {"twin", "delete", "commit"}
         => CanTransitionEdge(status[a], "pair")
    /\ req[r].op = "unpair" /\ req[r].step \in {"twinof", "delete", "commit"}
         => CanTransitionEdge(status[a], "unpair")
    /\ req[r].op = "unpair" /\ req[r].step \in {"delete", "commit"}
         => <<a, t>> \in assign
    /\ req[r].op = "retire" /\ req[r].step \in {"delete", "commit"}
         => CanTransitionEdge(status[a], "retire")
    /\ req[r].op = "blacklist" /\ req[r].step \in {"delete", "commit"}
         => status[a] # "blacklisted"
    /\ req[r].op = "pair" /\ req[r].step \in {"delete", "commit"} => t \notin deleted
    /\ req[r].step = "insert" => RowsOf(a) = {}
    /\ req[r].op # "deleteagent" /\ req[r].step \in {"clear", "insert"}
         => t \notin deleted
    /\ req[r].step = "commit"
         => req[r].rows = IF req[r].op = "deletetwin" THEN RowsTo(t) ELSE RowsOf(a)

\* The inductive invariant of requests that do not overlap.
SerialInv ==
    /\ OneTwinPerAgent /\ AssignedTwinExists /\ ActiveNotBlacklisted
    /\ \A r \in Requests : Knows(r)

LEMMA InitSerial == Init => SerialInv
<1> SUFFICES ASSUME Init PROVE SerialInv
  OBVIOUS
<1>1. OneTwinPerAgent /\ AssignedTwinExists
  BY DEF Init, OneTwinPerAgent, AssignedTwinExists, RowsOf
<1>2. ActiveNotBlacklisted
  BY DEF Init, ActiveNotBlacklisted
<1>3. ASSUME NEW r \in Requests PROVE Knows(r)
  <2>1. req[r].step = "idle"
    BY DEF Init, Idle
  <2> QED BY <2>1 DEF Knows
<1> QED BY <1>1, <1>2, <1>3 DEF SerialInv

\* The fields of a request that goes on, ends or has committed.
LEMMA GoFields ==
    ASSUME TypeInv, NEW r \in Requests, NEW s, Go(r, s)
    PROVE  /\ req'[r].step = s /\ req'[r].op = req[r].op
           /\ req'[r].agent = req[r].agent /\ req'[r].twin = req[r].twin
           /\ req'[r].rows = req[r].rows
BY DEF TypeInv, TypeOK, Request, Go

LEMMA EndFields ==
    ASSUME TypeInv, NEW r \in Requests, End(r)
    PROVE  req'[r].step = "idle"
BY DEF TypeInv, TypeOK, End, Idle

LEMMA FinishFields ==
    ASSUME TypeInv, NEW r \in Requests, NEW s, NEW gone, Finish(r, s, gone)
    PROVE  /\ req'[r].step = s
           /\ s # "idle" => /\ req'[r].op = req[r].op
                            /\ req'[r].agent = req[r].agent
                            /\ req'[r].twin = req[r].twin
<1>1. req[r] \in Request
  BY DEF TypeInv, TypeOK
<1> QED BY <1>1 DEF Finish, Idle, Request

\* A request that is over, or is left with its cache entry to invalidate,
\* knows nothing.
LEMMA KnowsNothing ==
    ASSUME NEW r \in Requests, req'[r].step \in {"idle", "invalidate", "erase"}
    PROVE  Knows(r)'
BY DEF Knows

LEMMA CheckSerial ==
    ASSUME OneAtATime, TypeInv, SerialInv, NEW r \in Requests, Check(r)
    PROVE  SerialInv'
<1>1. UNCHANGED tables
  BY DEF Check, CheckBlacklist, CheckStatus, CheckTwin, ReadTwin
<1>2. OneTwinPerAgent' /\ AssignedTwinExists' /\ ActiveNotBlacklisted'
  BY <1>1 DEF tables, SerialInv, OneTwinPerAgent, AssignedTwinExists,
     ActiveNotBlacklisted, RowsOf
<1>3. \A q \in Requests : q = r
  BY DEF OneAtATime
<1>4. ASSUME NEW s, Go(r, s)
      PROVE  /\ req'[r].step = s /\ req'[r].op = req[r].op
             /\ req'[r].agent = req[r].agent /\ req'[r].twin = req[r].twin
             /\ req'[r].rows = req[r].rows
  BY <1>4, GoFields
<1>5. ASSUME End(r) PROVE Knows(r)'
  BY <1>5, EndFields, KnowsNothing
<1>6. Knows(r) /\ StepFits(req[r])
  BY DEF SerialInv, TypeInv, RequestsFit
<1>7. Knows(r)'
  <2> USE DEF tables
  <2>1. CASE CheckBlacklist(r)
    <3>1. CASE Go(r, "status") /\ req[r].agent \notin blacklist
      BY <3>1, <1>4, <1>6, <1>1, <2>1 DEF Knows, StepFits, CheckBlacklist, At
    <3> QED BY <3>1, <1>5, <2>1 DEF CheckBlacklist, GoOrEnd
  <2>2. CASE CheckStatus(r)
    <3>0. /\ req[r].step = "status"
          /\ req[r].op \in {"pair", "unpair", "retire", "blacklist"}
      BY <1>6, <2>2 DEF StepFits, CheckStatus, At
    <3>1. CASE /\ req[r].op = "pair" /\ Go(r, "twin")
               /\ CanTransitionEdge(status[req[r].agent], "pair")
      BY <3>0, <3>1, <1>4, <1>6, <1>1 DEF Knows, CanTransitionEdge
    <3>2. CASE /\ req[r].op = "unpair" /\ Go(r, "twinof")
               /\ CanTransitionEdge(status[req[r].agent], "unpair")
      BY <3>0, <3>2, <1>4, <1>1 DEF Knows, CanTransitionEdge
    <3>3. CASE /\ req[r].op = "retire" /\ Go(r, "delete")
               /\ CanTransitionEdge(status[req[r].agent], "retire")
      BY <3>0, <3>3, <1>4, <1>1 DEF Knows, CanTransitionEdge
    <3>4. CASE /\ req[r].op = "blacklist" /\ Go(r, "delete")
               /\ status[req[r].agent] # "blacklisted"
      BY <3>0, <3>4, <1>4, <1>1 DEF Knows
    <3> QED BY <2>2, <3>0, <3>1, <3>2, <3>3, <3>4, <1>5 DEF CheckStatus, GoOrEnd
  <2>3. CASE CheckTwin(r)
    <3>0. /\ req[r].step = "twin"
          /\ req[r].op \in {"pair", "assign", "autoassign"}
      BY <1>6, <2>3 DEF StepFits, CheckTwin, At
    <3>1. CASE /\ req[r].op = "pair" /\ Go(r, "delete") /\ req[r].twin \notin deleted
      BY <3>0, <3>1, <1>4, <1>6, <1>1 DEF Knows, CanTransitionEdge
    <3>2. CASE /\ req[r].op # "pair" /\ Go(r, "clear") /\ req[r].twin \notin deleted
      BY <3>0, <3>2, <1>4, <1>1 DEF Knows
    <3> QED BY <2>3, <3>1, <3>2, <1>5 DEF CheckTwin, GoOrEnd
  <2>4. CASE ReadTwin(r)
    <3>0. req[r].step = "twinof" /\ req[r].op = "unpair"
      BY <1>6, <2>4 DEF StepFits, ReadTwin, At
    <3>1. ASSUME NEW row \in RowsOf(req[r].agent),
                 req' = [req EXCEPT ![r].twin = row[2], ![r].step = "delete"]
          PROVE  Knows(r)'
      <4>1. /\ req'[r].step = "delete" /\ req'[r].op = "unpair"
            /\ req'[r].agent = req[r].agent /\ req'[r].twin = row[2]
        BY <3>0, <3>1 DEF TypeInv, TypeOK, Request
      <4>2. row = <<req[r].agent, row[2]>> /\ row \in assign
        BY DEF TypeInv, TypeOK, RowsOf, Row
      <4> QED BY <3>0, <4>1, <4>2, <1>6, <1>1 DEF Knows, CanTransitionEdge
    <3> QED BY <2>4, <3>1, <1>5 DEF ReadTwin
  <2> QED BY <2>1, <2>2, <2>3, <2>4 DEF Check
<1> QED BY <1>2, <1>3, <1>7 DEF SerialInv

LEMMA BeginSerial ==
    ASSUME OneAtATime, TypeInv, SerialInv, NEW r \in Requests, NEW op \in Ops,
           NEW a \in Agents, NEW t \in TwinChoices(op), Begin(r, op, a, t)
    PROVE  SerialInv'
<1>1. OneTwinPerAgent' /\ AssignedTwinExists' /\ ActiveNotBlacklisted'
  BY DEF Begin, tables, SerialInv, OneTwinPerAgent, AssignedTwinExists,
     ActiveNotBlacklisted, RowsOf
<1>2. /\ req'[r].op = op
      /\ req'[r].step = FirstStep(op)
  BY DEF Begin, TypeInv, TypeOK
<1>3. Knows(r)'
  BY <1>2, OpsAssumption DEF Knows, FirstStep, AllOps
<1> QED BY <1>1, <1>3 DEF SerialInv, OneAtATime

LEMMA AbortSerial ==
    ASSUME OneAtATime, TypeInv, SerialInv, NEW r \in Requests,
           Abort(r) \/ Invalidate(r)
    PROVE  SerialInv'
<1>1. OneTwinPerAgent' /\ AssignedTwinExists' /\ ActiveNotBlacklisted'
  BY DEF Abort, Invalidate, tables, SerialInv, OneTwinPerAgent, AssignedTwinExists,
     ActiveNotBlacklisted, RowsOf
<1>2. Knows(r)'
  BY EndFields, KnowsNothing DEF Abort, Invalidate
<1> QED BY <1>1, <1>2 DEF SerialInv, OneAtATime

LEMMA DeleteRowsSerial ==
    ASSUME OneAtATime, TypeInv, SerialInv, NEW r \in Requests, DeleteRows(r)
    PROVE  SerialInv'
<1>1. OneTwinPerAgent' /\ AssignedTwinExists' /\ ActiveNotBlacklisted'
  BY DEF DeleteRows, tables, SerialInv, OneTwinPerAgent, AssignedTwinExists,
     ActiveNotBlacklisted, RowsOf
<1>2. Knows(r)'
  <2> DEFINE seen == IF req[r].op = "deletetwin" THEN RowsTo(req[r].twin)
                     ELSE RowsOf(req[r].agent)
  <2>1. CASE End(r)
    BY <2>1, EndFields, KnowsNothing
  <2>2. CASE req' = [req EXCEPT ![r].rows = seen, ![r].step = "commit"]
    <3>1. /\ req'[r].step = "commit" /\ req'[r].op = req[r].op
          /\ req'[r].agent = req[r].agent /\ req'[r].twin = req[r].twin
          /\ req'[r].rows = seen
      <4>1. req[r] \in Request /\ req'[r] = [req[r] EXCEPT !.rows = seen, !.step = "commit"]
        BY <2>2 DEF TypeInv, TypeOK
      <4> QED BY <4>1 DEF Request
    <3>2. UNCHANGED tables /\ req[r].step = "delete" /\ Knows(r)
      BY DEF DeleteRows, At, SerialInv
    <3> QED BY <3>1, <3>2 DEF Knows, tables, RowsTo, RowsOf, CanTransitionEdge
  <2> QED BY <2>1, <2>2 DEF DeleteRows
<1> QED BY <1>1, <1>2 DEF SerialInv, OneAtATime

\* Taking rows away disturbs neither what the rows promise.
LEMMA RemovalKeeps ==
    ASSUME OneTwinPerAgent, AssignedTwinExists, NEW gone, assign' = assign \ gone,
           UNCHANGED deleted
    PROVE  OneTwinPerAgent' /\ AssignedTwinExists'
BY DEF OneTwinPerAgent, AssignedTwinExists, RowsOf

\* A row for an agent that has none, to a twin that exists, disturbs neither.
LEMMA InsertionKeeps ==
    ASSUME TypeInv, OneTwinPerAgent, AssignedTwinExists, NEW a \in Agents,
           NEW t \in Twins, NEW rest \in SUBSET assign,
           \A row \in rest : row[1] # a, t \notin deleted,
           assign' = rest \cup {<<a, t>>}, UNCHANGED deleted
    PROVE  OneTwinPerAgent' /\ AssignedTwinExists'
<1>1. AssignedTwinExists'
  BY DEF AssignedTwinExists
<1>2. ASSUME NEW b \in Agents, NEW row1 \in RowsOf(b)', NEW row2 \in RowsOf(b)'
      PROVE  row1 = row2
  <2>1. CASE b = a
    BY <2>1 DEF RowsOf
  <2>2. CASE b # a
    BY <2>2 DEF RowsOf, OneTwinPerAgent
  <2> QED BY <2>1, <2>2
<1> QED BY <1>1, <1>2 DEF OneTwinPerAgent

LEMMA CommitSerial ==
    ASSUME OneAtATime, TypeInv, SerialInv, NEW r \in Requests, Commit(r)
    PROVE  SerialInv'
<1> DEFINE a == req[r].agent
           t == req[r].twin
<1>1. /\ a \in Agents /\ StepFits(req[r]) /\ status \in [Agents -> Status]
      /\ OneTwinPerAgent /\ AssignedTwinExists /\ ActiveNotBlacklisted /\ Knows(r)
  BY DEF TypeInv, TypeOK, RequestsFit, Request, SerialInv
<1>2. At(r, "commit")
  BY DEF Commit, Commits, CommitPair, CommitUnpair, CommitRetire, CommitBlacklist,
         CommitUnregister, CommitDeleteTwin
<1>3. Knows(r)'
  <2>1. \E s \in {"idle", "invalidate"} : Finish(r, s, req[r].rows)
    BY DEF Commit, CommitPair, CommitUnpair, CommitRetire, CommitBlacklist,
           CommitUnregister, CommitDeleteTwin
  <2>2. req'[r].step \in {"idle", "invalidate"}
    BY <2>1, FinishFields
  <2> QED BY <2>2, KnowsNothing
<1>4. OneTwinPerAgent' /\ AssignedTwinExists' /\ ActiveNotBlacklisted'
  <2>1. CASE CommitPair(r)
    <3>1. /\ req[r].op = "pair" /\ t \in Twins /\ t \notin deleted
          /\ a \notin blacklist /\ req[r].rows = RowsOf(a)
      BY <1>1, <1>2, <2>1 DEF Knows, StepFits, CommitPair, Commits, At
    <3>2. \A row \in assign \ req[r].rows : row[1] # a
      BY <3>1 DEF RowsOf
    <3>3. OneTwinPerAgent' /\ AssignedTwinExists'
      BY <1>1, <2>1, <3>1, <3>2, InsertionKeeps DEF CommitPair
    <3>4. ActiveNotBlacklisted'
      BY <1>1, <2>1, <3>1 DEF CommitPair, SetStatus, ActiveNotBlacklisted
    <3> QED BY <3>3, <3>4
  <2>2. CASE CommitUnpair(r) \/ CommitRetire(r)
    <3>1. OneTwinPerAgent' /\ AssignedTwinExists'
      BY <1>1, <2>2, RemovalKeeps DEF CommitUnpair, CommitRetire
    <3>2. ActiveNotBlacklisted'
      BY <1>1, <2>2 DEF CommitUnpair, CommitRetire, SetStatus, ActiveNotBlacklisted
    <3> QED BY <3>1, <3>2
  <2>3. CASE CommitBlacklist(r)
    <3>1. OneTwinPerAgent' /\ AssignedTwinExists'
      BY <1>1, <2>3, RemovalKeeps DEF CommitBlacklist
    <3>2. ActiveNotBlacklisted'
      BY <1>1, <2>3 DEF CommitBlacklist, SetStatus, ActiveNotBlacklisted
    <3> QED BY <3>1, <3>2
  <2>4. CASE CommitUnregister(r)
    <3>1. OneTwinPerAgent' /\ AssignedTwinExists'
      BY <1>1, <2>4, RemovalKeeps DEF CommitUnregister
    <3>2. ActiveNotBlacklisted'
      BY <1>1, <2>4 DEF CommitUnregister, ActiveNotBlacklisted
    <3> QED BY <3>1, <3>2
  <2>5. CASE CommitDeleteTwin(r)
    <3>1. req[r].rows = RowsTo(t)
      BY <1>1, <1>2, <2>5 DEF Knows, CommitDeleteTwin, Commits, At
    <3>2. OneTwinPerAgent' /\ AssignedTwinExists'
      BY <1>1, <2>5, <3>1 DEF CommitDeleteTwin, RowsTo, OneTwinPerAgent,
         AssignedTwinExists, RowsOf
    <3>3. ActiveNotBlacklisted'
      BY <1>1, <2>5 DEF CommitDeleteTwin, ActiveNotBlacklisted
    <3> QED BY <3>2, <3>3
  <2> QED BY <2>1, <2>2, <2>3, <2>4, <2>5 DEF Commit
<1> QED BY <1>3, <1>4 DEF SerialInv, OneAtATime

LEMMA PlainSerial ==
    ASSUME OneAtATime, TypeInv, SerialInv, NEW r \in Requests,
           ClearRows(r) \/ InsertRow(r) \/ EraseAgent(r) \/ Upsert(r) \/ Rename(r)
    PROVE  SerialInv'
<1> DEFINE a == req[r].agent
           t == req[r].twin
<1>1. /\ a \in Agents /\ StepFits(req[r]) /\ status \in [Agents -> Status]
      /\ OneTwinPerAgent /\ AssignedTwinExists /\ ActiveNotBlacklisted /\ Knows(r)
  BY DEF TypeInv, TypeOK, RequestsFit, Request, SerialInv
<1>2. CASE ClearRows(r)
  <2>1. OneTwinPerAgent' /\ AssignedTwinExists' /\ ActiveNotBlacklisted'
    BY <1>1, <1>2, RemovalKeeps DEF ClearRows, ActiveNotBlacklisted
  <2>2. /\ req[r].op \in {"assign", "autoassign", "deleteagent"}
        /\ req[r].op # "deleteagent" => t \notin deleted
    BY <1>1, <1>2 DEF ClearRows, At, StepFits, Knows
  <2>3. CASE req[r].op = "deleteagent"
    BY <1>2, <2>3, FinishFields, KnowsNothing, <2>1 DEF ClearRows, SerialInv, OneAtATime
  <2>4. CASE req[r].op # "deleteagent"
    <3>1. /\ req'[r].step = "insert" /\ req'[r].op = req[r].op
          /\ req'[r].agent = a /\ req'[r].twin = t
      BY <1>2, <2>4, FinishFields DEF ClearRows
    <3>2. RowsOf(a)' = {} /\ UNCHANGED deleted
      BY <1>2, <3>1 DEF ClearRows, RowsOf
    <3>3. Knows(r)'
      BY <2>2, <2>4, <3>1, <3>2 DEF Knows, RowsOf
    <3> QED BY <2>1, <3>3 DEF SerialInv, OneAtATime
  <2> QED BY <2>3, <2>4
<1>3. CASE InsertRow(r)
  <2>1. t \in Twins /\ t \notin deleted /\ RowsOf(a) = {}
    BY <1>1, <1>3 DEF InsertRow, At, StepFits, Knows
  <2>2. \A row \in assign : row[1] # a
    BY <2>1 DEF RowsOf
  <2>3. OneTwinPerAgent' /\ AssignedTwinExists'
    BY <1>1, <1>3, <2>1, <2>2, InsertionKeeps DEF InsertRow
  <2>4. ActiveNotBlacklisted'
    BY <1>1, <1>3 DEF InsertRow, ActiveNotBlacklisted
  <2>5. Knows(r)'
    BY <1>3, GoFields, EndFields, KnowsNothing DEF InsertRow, GoOrEnd
  <2> QED BY <2>3, <2>4, <2>5 DEF SerialInv, OneAtATime
<1>4. CASE EraseAgent(r) \/ Upsert(r) \/ Rename(r)
  <2>1. OneTwinPerAgent' /\ AssignedTwinExists'
    BY <1>1, <1>4 DEF EraseAgent, Upsert, Rename, OneTwinPerAgent, AssignedTwinExists,
       RowsOf
  <2>2. ActiveNotBlacklisted'
    BY <1>1, <1>4 DEF EraseAgent, Upsert, Rename, ActiveNotBlacklisted
  <2>3. CASE End(r)
    BY <2>1, <2>2, <2>3, EndFields, KnowsNothing DEF SerialInv, OneAtATime
  <2>4. CASE req[r].op = "autoassign" /\ Go(r, "twin")
    <3>1. req'[r].step = "twin" /\ req'[r].op = "autoassign"
      BY <2>4, GoFields
    <3>2. Knows(r)'
      BY <3>1 DEF Knows
    <3> QED BY <2>1, <2>2, <3>2 DEF SerialInv, OneAtATime
  <2> QED BY <1>4, <2>3, <2>4 DEF EraseAgent, Upsert, Rename, GoOrEnd
<1> QED BY <1>2, <1>3, <1>4

LEMMA LookupSerial ==
    ASSUME SerialInv, UNCHANGED <<tables, req>>
    PROVE  SerialInv'
<1>1. OneTwinPerAgent' /\ AssignedTwinExists' /\ ActiveNotBlacklisted'
  BY DEF tables, SerialInv, OneTwinPerAgent, AssignedTwinExists, ActiveNotBlacklisted,
     RowsOf
<1>2. ASSUME NEW r \in Requests PROVE Knows(r)'
  BY DEF tables, SerialInv, Knows, RowsOf, RowsTo, CanTransitionEdge
<1> QED BY <1>1, <1>2 DEF SerialInv

LEMMA StepSerial ==
    ASSUME OneAtATime, TypeInv, SerialInv, [Next]_vars
    PROVE  SerialInv'
<1>1. CASE UNCHANGED vars
  BY <1>1, LookupSerial DEF vars, tables
<1>2. CASE Next
  <2>1. ASSUME \/ \E k \in Lookups : LookupStore(k) \/ \E b \in Agents : LookupRead(k, b)
               \/ CacheExpires
        PROVE  UNCHANGED <<tables, req>>
    BY <2>1 DEF LookupStore, LookupRead, CacheExpires
  <2> QED BY <1>2, <2>1, LookupSerial, BeginSerial, AbortSerial, CheckSerial,
             DeleteRowsSerial, CommitSerial, PlainSerial DEF Next, Statement
<1> QED BY <1>1, <1>2

\* When requests do not overlap, an agent has one twin at most.
THEOREM SerialOneTwin == ASSUME OneAtATime PROVE Spec => []OneTwinPerAgent
<1>1. SerialInv => OneTwinPerAgent
  BY DEF SerialInv
<1>2. TypeInv /\ SerialInv /\ [Next]_vars => (TypeInv /\ SerialInv)'
  BY StepType, StepSerial
<1> QED BY <1>1, <1>2, InitType, InitSerial, PTL DEF Spec

\* When requests do not overlap, agents are assigned to twins that exist.
THEOREM SerialTwinExists == ASSUME OneAtATime PROVE Spec => []AssignedTwinExists
<1>1. SerialInv => AssignedTwinExists
  BY DEF SerialInv
<1>2. TypeInv /\ SerialInv /\ [Next]_vars => (TypeInv /\ SerialInv)'
  BY StepType, StepSerial
<1> QED BY <1>1, <1>2, InitType, InitSerial, PTL DEF Spec

\* When requests do not overlap, no blacklisted agent is active.
THEOREM SerialBlacklist == ASSUME OneAtATime PROVE Spec => []ActiveNotBlacklisted
<1>1. SerialInv => ActiveNotBlacklisted
  BY DEF SerialInv
<1>2. TypeInv /\ SerialInv /\ [Next]_vars => (TypeInv /\ SerialInv)'
  BY StepType, StepSerial
<1> QED BY <1>1, <1>2, InitType, InitSerial, PTL DEF Spec

-----------------------------------------------------------------------------
(* Requests that do not overlap carry out the lifecycle of AgentLifecycle. *)

\* The operations of AgentLifecycle.
LifecycleOnly == Ops \cap {"assign", "autoassign", "deleteagent"} = {}

OpsInv == \A r \in Requests : req[r].op \in Ops \cup {"rename"}

LEMMA StepOps == TypeInv /\ OpsInv /\ [Next]_vars => OpsInv'
<1> SUFFICES ASSUME TypeInv, OpsInv, [Next]_vars, NEW q \in Requests
             PROVE  req'[q].op \in Ops \cup {"rename"}
  BY DEF OpsInv
<1>0. req \in [Requests -> Request] /\ req[q].op \in Ops \cup {"rename"}
  BY DEF TypeInv, TypeOK, OpsInv
<1>1. CASE UNCHANGED req
  BY <1>0, <1>1
<1>2. ASSUME NEW r \in Requests, End(r) PROVE req'[q].op \in Ops \cup {"rename"}
  BY <1>0, <1>2 DEF End, Idle
<1>3. ASSUME NEW r \in Requests, NEW s, Go(r, s)
      PROVE  req'[q].op \in Ops \cup {"rename"}
  BY <1>0, <1>3 DEF Go, Request
<1>4. ASSUME NEW r \in Requests, NEW s, NEW gone, Finish(r, s, gone)
      PROVE  req'[q].op \in Ops \cup {"rename"}
  <2>1. req[q] \in Request /\ req[r] \in Request
    BY <1>0
  <2>2. \/ req'[q] = [req[q] EXCEPT !.rows = @ \ gone]
        \/ q = r /\ req'[q] = Idle(req[r].agent)
        \/ q = r /\ req'[q] = [req[r] EXCEPT !.step = s, !.rows = {}]
    BY <1>4 DEF Finish
  <2>3. CASE req'[q] = [req[q] EXCEPT !.rows = @ \ gone]
    BY <1>0, <2>1, <2>3 DEF Request
  <2>4. CASE req'[q] = Idle(req[r].agent)
    BY <2>4 DEF Idle
  <2>5. CASE q = r /\ req'[q] = [req[r] EXCEPT !.step = s, !.rows = {}]
    BY <1>0, <2>1, <2>5 DEF Request
  <2> QED BY <2>2, <2>3, <2>4, <2>5
<1>5. ASSUME NEW r \in Requests, Check(r) PROVE req'[q].op \in Ops \cup {"rename"}
  <2>1. CASE CheckBlacklist(r) \/ CheckTwin(r)
    BY <1>2, <1>3, <2>1 DEF CheckBlacklist, CheckTwin, GoOrEnd
  <2>2. CASE CheckStatus(r)
    <3>1. req[r].op \in {"pair", "unpair", "retire", "blacklist"}
      BY <2>2 DEF TypeInv, RequestsFit, StepFits, CheckStatus, At
    <3> QED BY <1>2, <1>3, <2>2, <3>1 DEF CheckStatus, GoOrEnd
  <2>3. CASE ReadTwin(r)
    <3>1. ASSUME NEW row \in RowsOf(req[r].agent),
                 req' = [req EXCEPT ![r].twin = row[2], ![r].step = "delete"]
          PROVE  req'[q].op \in Ops \cup {"rename"}
      BY <1>0, <3>1 DEF Request
    <3> QED BY <1>2, <2>3, <3>1 DEF ReadTwin
  <2> QED BY <1>5, <2>1, <2>2, <2>3 DEF Check
<1>6. ASSUME NEW r \in Requests, DeleteRows(r)
      PROVE  req'[q].op \in Ops \cup {"rename"}
  <2>1. ASSUME NEW seen, req' = [req EXCEPT ![r].rows = seen, ![r].step = "commit"]
        PROVE  req'[q].op \in Ops \cup {"rename"}
    <3>1. req[q] \in Request /\ req[r] \in Request
      BY <1>0
    <3>2. \/ req'[q] = req[q]
          \/ q = r /\ req'[q] = [req[r] EXCEPT !.rows = seen, !.step = "commit"]
      BY <1>0, <2>1
    <3> QED BY <1>0, <3>1, <3>2 DEF Request
  <2> QED BY <1>2, <1>6, <2>1 DEF DeleteRows
<1>7. ASSUME NEW r \in Requests, Commit(r) \/ ClearRows(r)
      PROVE  req'[q].op \in Ops \cup {"rename"}
  BY <1>4, <1>7 DEF Commit, CommitPair, CommitUnpair, CommitRetire, CommitBlacklist,
     CommitUnregister, CommitDeleteTwin, ClearRows
<1>8. ASSUME NEW r \in Requests,
             \/ InsertRow(r) \/ EraseAgent(r) \/ Upsert(r) \/ Rename(r)
             \/ Invalidate(r) \/ Abort(r)
      PROVE  req'[q].op \in Ops \cup {"rename"}
  BY <1>2, <1>3, <1>8 DEF InsertRow, EraseAgent, Upsert, Rename, Invalidate, Abort,
     GoOrEnd
<1>9. ASSUME NEW r \in Requests, NEW op \in Ops, NEW a \in Agents, NEW t,
             Begin(r, op, a, t)
      PROVE  req'[q].op \in Ops \cup {"rename"}
  BY <1>0, <1>9 DEF Begin
<1>10. ASSUME \/ \E k \in Lookups : LookupStore(k) \/ \E a \in Agents : LookupRead(k, a)
              \/ CacheExpires
       PROVE  UNCHANGED req
  BY <1>10 DEF LookupStore, LookupRead, CacheExpires
<1>11. CASE Next
  BY <1>1, <1>5, <1>6, <1>7, <1>8, <1>9, <1>10, <1>11 DEF Next, Statement
<1> QED BY <1>1, <1>11 DEF vars

\* The twin of each agent in a set of rows.
HomeIn(rows) ==
    [a \in Agents |-> IF \E t \in Twins : <<a, t>> \in rows
                        THEN CHOOSE t \in Twins : <<a, t>> \in rows
                        ELSE NoTwin]

LEMMA HomeInHas ==
    ASSUME NEW rows, NEW a \in Agents, NEW t \in Twins, <<a, t>> \in rows,
           \A u \in Twins : <<a, u>> \in rows => u = t
    PROVE  HomeIn(rows)[a] = t
<1> DEFINE c == CHOOSE u \in Twins : <<a, u>> \in rows
<1>1. c \in Twins /\ <<a, c>> \in rows
  OBVIOUS
<1>2. c = t
  BY <1>1
<1> HIDE DEF c
<1> QED BY <1>2 DEF HomeIn, c

LEMMA HomeInNone ==
    ASSUME NEW rows, NEW a \in Agents, \A u \in Twins : <<a, u>> \notin rows
    PROVE  HomeIn(rows)[a] = NoTwin
BY DEF HomeIn

\* The rows of an agent with one twin.
LEMMA RowsOne ==
    ASSUME NEW rows, NEW a, NEW t, NEW u, <<a, t>> \in rows, <<a, u>> \in rows,
           \A row1, row2 \in {row \in rows : row[1] = a} : row1 = row2
    PROVE  u = t
<1>1. <<a, t>> = <<a, u>>
  OBVIOUS
<1> QED BY <1>1

\* An agent whose rows stay keeps its twin.
LEMMA HomeStays ==
    ASSUME OneTwinPerAgent, NEW after, NEW a \in Agents,
           \A u \in Twins : <<a, u>> \in after <=> <<a, u>> \in assign
    PROVE  HomeIn(after)[a] = HomeIn(assign)[a]
<1>1. CASE \A u \in Twins : <<a, u>> \notin assign
  BY <1>1, HomeInNone
<1>2. ASSUME NEW t \in Twins, <<a, t>> \in assign
      PROVE  HomeIn(after)[a] = HomeIn(assign)[a]
  <2>1. \A u \in Twins : <<a, u>> \in assign => u = t
    BY <1>2, RowsOne DEF OneTwinPerAgent, RowsOf
  <2> QED BY <1>2, <2>1, HomeInHas
<1> QED BY <1>1, <1>2

LEMMA HomeIsHomeIn ==
    Home = HomeIn(assign) /\ Home' = HomeIn(assign')
BY DEF Home, HomeIn

\* The rows of one agent go, the others stay: it loses its home.
LEMMA HomeRemoved ==
    ASSUME OneTwinPerAgent, NEW a \in Agents, assign' = assign \ RowsOf(a)
    PROVE  Home' = [Home EXCEPT ![a] = NoTwin]
<1>1. HomeIn(assign')[a] = NoTwin
  BY HomeInNone DEF RowsOf
<1>2. ASSUME NEW b \in Agents, b # a PROVE HomeIn(assign')[b] = HomeIn(assign)[b]
  <2>1. \A u \in Twins : <<b, u>> \in assign' <=> <<b, u>> \in assign
    BY <1>2 DEF RowsOf
  <2> QED BY <2>1, HomeStays
<1> QED BY <1>1, <1>2, HomeIsHomeIn DEF HomeIn

LEMMA HomeSet ==
    ASSUME OneTwinPerAgent, NEW a \in Agents, NEW t \in Twins,
           assign' = (assign \ RowsOf(a)) \cup {<<a, t>>}
    PROVE  Home' = [Home EXCEPT ![a] = t]
<1>1. HomeIn(assign')[a] = t
  <2>1. \A u \in Twins : <<a, u>> \in assign' => u = t
    BY DEF RowsOf
  <2> QED BY <2>1, HomeInHas
<1>2. ASSUME NEW b \in Agents, b # a PROVE HomeIn(assign')[b] = HomeIn(assign)[b]
  <2>1. \A u \in Twins : <<b, u>> \in assign' <=> <<b, u>> \in assign
    BY <1>2 DEF RowsOf
  <2> QED BY <2>1, HomeStays
<1> QED BY <1>1, <1>2, HomeIsHomeIn DEF HomeIn

LEMMA HomeTwinGone ==
    ASSUME OneTwinPerAgent, NEW t \in Twins, assign' = assign \ RowsTo(t)
    PROVE  Home' = [a \in Agents |-> IF Home[a] = t THEN NoTwin ELSE Home[a]]
<1>1. ASSUME NEW a \in Agents
      PROVE  HomeIn(assign')[a] = IF HomeIn(assign)[a] = t THEN NoTwin
                                  ELSE HomeIn(assign)[a]
  <2>1. CASE \A u \in Twins : <<a, u>> \notin assign
    <3>1. HomeIn(assign)[a] = NoTwin /\ HomeIn(assign')[a] = NoTwin
      BY <2>1, HomeInNone
    <3> QED BY <3>1
  <2>2. ASSUME NEW u \in Twins, <<a, u>> \in assign
        PROVE  HomeIn(assign')[a] = IF HomeIn(assign)[a] = t THEN NoTwin
                                    ELSE HomeIn(assign)[a]
    <3>1. \A w \in Twins : <<a, w>> \in assign => w = u
      BY <2>2, RowsOne DEF OneTwinPerAgent, RowsOf
    <3>2. HomeIn(assign)[a] = u
      BY <2>2, <3>1, HomeInHas
    <3>3. CASE u = t
      <4>1. \A w \in Twins : <<a, w>> \notin assign'
        BY <3>1, <3>3 DEF RowsTo
      <4> QED BY <4>1, <3>2, <3>3, HomeInNone
    <3>4. CASE u # t
      <4>1. \A w \in Twins : <<a, w>> \in assign' <=> <<a, w>> \in assign
        BY <3>1, <3>4 DEF RowsTo
      <4> QED BY <4>1, <3>2, <3>4, HomeStays
    <3> QED BY <3>3, <3>4
  <2> QED BY <2>1, <2>2
<1> QED BY <1>1, HomeIsHomeIn DEF HomeIn

LEMMA InitRefines == Init => Lifecycle!Init
<1> SUFFICES ASSUME Init PROVE Lifecycle!Init
  OBVIOUS
<1>1. Home = [a \in Agents |-> NoTwin]
  BY DEF Init, Home
<1> QED BY <1>1 DEF Init, Lifecycle!Init

\* A step that leaves the tables alone is a stuttering step of the lifecycle.
LEMMA Stutters ==
    ASSUME UNCHANGED <<status, blacklist, assign, deleted>>
    PROVE  UNCHANGED Lifecycle!vars
BY DEF Home, Lifecycle!vars

LEMMA CommitRefines ==
    ASSUME TypeInv, SerialInv, NEW r \in Requests, Commit(r)
    PROVE  Lifecycle!Next
<1> DEFINE a == req[r].agent
           t == req[r].twin
<1>1. /\ a \in Agents /\ StepFits(req[r]) /\ status \in [Agents -> Status]
      /\ OneTwinPerAgent /\ Knows(r)
  BY DEF TypeInv, TypeOK, RequestsFit, Request, SerialInv
<1>2. \A action : ~CanTransitionEdge("none", action)
  BY DEF CanTransitionEdge, Lifecycle!CanTransitionEdge, Lifecycle!EdgeValidTransitions
<1>3. CASE CommitPair(r)
  <2>1. /\ req[r].op = "pair" /\ t \in Twins /\ t \notin deleted /\ a \notin blacklist
        /\ req[r].rows = RowsOf(a) /\ CanTransitionEdge(status[a], "pair")
    BY <1>1, <1>3 DEF Knows, StepFits, CommitPair, Commits, At
  <2>2. Home' = [Home EXCEPT ![a] = t]
    BY <1>1, <1>3, <2>1, HomeSet DEF CommitPair
  <2>3. status' = [status EXCEPT ![a] = "active"]
    BY <1>2, <1>3, <2>1 DEF CommitPair, SetStatus
  <2>4. Lifecycle!Pair(a, t)
    BY <1>3, <2>1, <2>2, <2>3 DEF CommitPair, Lifecycle!Pair, CanTransitionEdge
  <2> QED BY <1>1, <2>1, <2>4 DEF Lifecycle!Next
<1>4. CASE CommitUnpair(r)
  <2>1. /\ req[r].op = "unpair" /\ t \in Twins /\ <<a, t>> \in assign
        /\ req[r].rows = RowsOf(a) /\ CanTransitionEdge(status[a], "unpair")
    BY <1>1, <1>4 DEF Knows, StepFits, CommitUnpair, Commits, At
  <2>2. Home[a] # NoTwin
    <3>1. \A u \in Twins : <<a, u>> \in assign => u = t
      BY <1>1, <2>1, RowsOne DEF OneTwinPerAgent, RowsOf
    <3>2. Home[a] = t
      BY <1>1, <2>1, <3>1, HomeInHas, HomeIsHomeIn
    <3> QED BY <3>2, <2>1, NoTwinAssumption
  <2>3. Home' = [Home EXCEPT ![a] = NoTwin]
    BY <1>1, <1>4, <2>1, HomeRemoved DEF CommitUnpair
  <2>4. status' = [status EXCEPT ![a] = "rogue"]
    BY <1>2, <1>4, <2>1 DEF CommitUnpair, SetStatus
  <2>5. Lifecycle!Unpair(a)
    BY <1>4, <2>1, <2>2, <2>3, <2>4 DEF CommitUnpair, Lifecycle!Unpair, CanTransitionEdge
  <2> QED BY <1>1, <2>5 DEF Lifecycle!Next
<1>5. CASE CommitRetire(r)
  <2>1. /\ req[r].op = "retire"
        /\ req[r].rows = RowsOf(a) /\ CanTransitionEdge(status[a], "retire")
    BY <1>1, <1>5 DEF Knows, CommitRetire, Commits, At
  <2>2. Home' = [Home EXCEPT ![a] = NoTwin]
    BY <1>1, <1>5, <2>1, HomeRemoved DEF CommitRetire
  <2>3. status' = [status EXCEPT ![a] = "retired"]
    BY <1>2, <1>5, <2>1 DEF CommitRetire, SetStatus
  <2>4. Lifecycle!Retire(a)
    BY <1>5, <2>1, <2>2, <2>3 DEF CommitRetire, Lifecycle!Retire, CanTransitionEdge
  <2> QED BY <1>1, <2>4 DEF Lifecycle!Next
<1>6. CASE CommitBlacklist(r)
  <2>1. /\ req[r].op = "blacklist"
        /\ req[r].rows = RowsOf(a) /\ status[a] # "blacklisted"
    BY <1>1, <1>6 DEF Knows, CommitBlacklist, Commits, At
  <2>2. Home' = [Home EXCEPT ![a] = NoTwin]
    BY <1>1, <1>6, <2>1, HomeRemoved DEF CommitBlacklist
  <2>3. Lifecycle!Blacklist(a)
    BY <1>6, <2>1, <2>2 DEF CommitBlacklist, SetStatus, Lifecycle!Blacklist
  <2> QED BY <1>1, <2>3 DEF Lifecycle!Next
<1>7. CASE CommitUnregister(r)
  <2>1. req[r].op = "unregister" /\ req[r].rows = RowsOf(a)
    BY <1>1, <1>7 DEF Knows, CommitUnregister, Commits, At
  <2>2. Home' = [Home EXCEPT ![a] = NoTwin]
    BY <1>1, <1>7, <2>1, HomeRemoved DEF CommitUnregister
  <2>3. Lifecycle!Unregister(a)
    BY <1>7, <2>2 DEF CommitUnregister, Lifecycle!Unregister
  <2> QED BY <1>1, <2>3 DEF Lifecycle!Next
<1>8. CASE CommitDeleteTwin(r)
  <2>1. req[r].op = "deletetwin" /\ req[r].rows = RowsTo(t) /\ t \in Twins
    BY <1>1, <1>8 DEF Knows, StepFits, CommitDeleteTwin, Commits, At
  <2>2. Home' = [b \in Agents |-> IF Home[b] = t THEN NoTwin ELSE Home[b]]
    BY <1>1, <1>8, <2>1, HomeTwinGone DEF CommitDeleteTwin
  <2>3. Lifecycle!DeleteTwin(t)
    BY <1>8, <2>2 DEF CommitDeleteTwin, Lifecycle!DeleteTwin
  <2> QED BY <2>1, <2>3 DEF Lifecycle!Next
<1> QED BY <1>3, <1>4, <1>5, <1>6, <1>7, <1>8 DEF Commit

LEMMA StepRefines ==
    ASSUME LifecycleOnly, TypeInv, SerialInv, OpsInv, [Next]_vars
    PROVE  [Lifecycle!Next]_(Lifecycle!vars)
<1>1. CASE UNCHANGED vars
  BY <1>1, Stutters DEF vars
<1>2. ASSUME NEW r \in Requests, Commit(r) PROVE Lifecycle!Next
  BY <1>2, CommitRefines
<1>3. ASSUME NEW r \in Requests, Upsert(r) \/ Rename(r)
      PROVE  [Lifecycle!Next]_(Lifecycle!vars)
  <2>1. req[r].agent \in Agents
    BY DEF TypeInv, TypeOK, Request
  <2>2. UNCHANGED Home /\ UNCHANGED <<blacklist, assign, deleted>>
    BY <1>3 DEF Upsert, Rename, Home
  <2>3. CASE UNCHANGED status
    BY <2>2, <2>3, Stutters
  <2>4. CASE Lifecycle!Register(req[r].agent) \/ Lifecycle!Rename(req[r].agent)
    BY <2>1, <2>4 DEF Lifecycle!Next
  <2>5. UNCHANGED status \/ Lifecycle!Register(req[r].agent)
                         \/ Lifecycle!Rename(req[r].agent)
    BY <1>3, <2>2 DEF Upsert, Rename, Lifecycle!Register, Lifecycle!Rename
  <2> QED BY <2>3, <2>4, <2>5
<1>4. ASSUME NEW r \in Requests PROVE ~ClearRows(r) /\ ~InsertRow(r) /\ ~EraseAgent(r)
  <2>1. req[r].op \notin {"assign", "autoassign", "deleteagent"}
    BY DEF OpsInv, LifecycleOnly
  <2>2. StepFits(req[r])
    BY DEF TypeInv, RequestsFit
  <2> QED BY <2>1, <2>2 DEF StepFits, ClearRows, InsertRow, EraseAgent, At
<1>5. ASSUME NEW r \in Requests,
             \/ Check(r) \/ DeleteRows(r) \/ Invalidate(r) \/ Abort(r)
             \/ \E op \in Ops, a \in Agents : \E t \in TwinChoices(op) :
                   Begin(r, op, a, t)
      PROVE  UNCHANGED Lifecycle!vars
  BY <1>5, Stutters DEF Check, CheckBlacklist, CheckStatus, CheckTwin, ReadTwin,
     DeleteRows, Invalidate, Abort, Begin, tables
<1>6. ASSUME \/ \E k \in Lookups : LookupStore(k) \/ \E a \in Agents : LookupRead(k, a)
             \/ CacheExpires
      PROVE  UNCHANGED Lifecycle!vars
  BY <1>6, Stutters DEF LookupStore, LookupRead, CacheExpires, tables
<1>7. CASE Next
  BY <1>2, <1>3, <1>4, <1>5, <1>6, <1>7 DEF Next, Statement
<1> QED BY <1>1, <1>7

\* The requests of agent_assignment.go, statement by statement, carry out the
\* abstract lifecycle when they do not overlap and none of them is one of the
\* operations that pass the state machine by.
THEOREM SerialRefines ==
    ASSUME OneAtATime, LifecycleOnly
    PROVE  Spec => LifecycleSpec
<1>1. Init => OpsInv
  BY DEF Init, OpsInv, Idle
<1>2. TypeInv /\ SerialInv /\ OpsInv /\ [Next]_vars => (TypeInv /\ SerialInv /\ OpsInv)'
  BY StepType, StepSerial, StepOps
<1>3. TypeInv /\ SerialInv /\ OpsInv /\ [Next]_vars => [Lifecycle!Next]_(Lifecycle!vars)
  BY StepRefines
<1> QED BY <1>1, <1>2, <1>3, InitType, InitSerial, InitRefines, PTL
        DEF Spec, LifecycleSpec, Lifecycle!Spec
=============================================================================
