------------------------ MODULE AgentDeliveryProofs ------------------------
(***************************************************************************)
(* Proofs about AgentDelivery, for every set of layers, every bound and    *)
(* every capacity of the raw channel.  The argument has four inductive     *)
(* invariants, the first of which the others use: BusyInv (what tasks      *)
(* hold), Accounted itself, OwnerInv (the queues are disjoint and hold     *)
(* only what layers have handed over) and ConnectInv (who drains is        *)
(* connected).                                                             *)
(***************************************************************************)
EXTENDS AgentDelivery, FiniteSetTheorems, TLAPS

(***************************************************************************)
(* Facts about queues.                                                     *)
(***************************************************************************)

\* Appending an entry.
LEMMA AppendSet ==
    ASSUME NEW S, NEW q \in Seq(S), NEW x \in S
    PROVE  /\ Append(q, x) \in Seq(S)
           /\ ToSet(Append(q, x)) = ToSet(q) \cup {x}
           /\ \A n \in DOMAIN Append(q, x) :
                \/ n \in DOMAIN q /\ Append(q, x)[n] = q[n]
                \/ n = Len(q) + 1 /\ Append(q, x)[n] = x
<1>1. Append(q, x) \in Seq(S) /\ Len(Append(q, x)) = Len(q) + 1
  OBVIOUS
<1>2. DOMAIN q = 1 .. Len(q) /\ DOMAIN Append(q, x) = 1 .. (Len(q) + 1) /\ Len(q) \in Nat
  BY <1>1
<1>3. \A n \in DOMAIN q : n \in DOMAIN Append(q, x) /\ Append(q, x)[n] = q[n]
  BY <1>2
<1>4. Append(q, x)[Len(q) + 1] = x /\ Len(q) + 1 \in DOMAIN Append(q, x)
  BY <1>2
<1>5. \A n \in DOMAIN Append(q, x) : n \in DOMAIN q \/ n = Len(q) + 1
  BY <1>2
<1>6. ToSet(Append(q, x)) = ToSet(q) \cup {x}
  BY <1>3, <1>4, <1>5 DEF ToSet
<1> QED BY <1>1, <1>3, <1>4, <1>5, <1>6

\* A queue without entries is empty.
LEMMA EmptyLen ==
    ASSUME NEW S, NEW q \in Seq(S)
    PROVE  q = <<>> <=> Len(q) = 0
OBVIOUS

\* Taking the first entry.
LEMMA TailSet ==
    ASSUME NEW S, NEW q \in Seq(S), q # <<>>
    PROVE  /\ Head(q) \in S /\ Tail(q) \in Seq(S)
           /\ ToSet(q) = {Head(q)} \cup ToSet(Tail(q))
           /\ Tail(q) = <<>> <=> Len(q) = 1
           /\ \A n \in DOMAIN Tail(q) : n \in Nat /\ n + 1 \in DOMAIN q /\ Tail(q)[n] = q[n + 1]
<1>1. Head(q) = q[1] /\ Len(q) \in Nat /\ Len(q) # 0
  OBVIOUS
<1>2. Tail(q) \in Seq(S) /\ Len(Tail(q)) = Len(q) - 1
  OBVIOUS
<1>3. DOMAIN q = 1 .. Len(q) /\ DOMAIN Tail(q) = 1 .. (Len(q) - 1)
  BY <1>2
<1>4. \A n \in DOMAIN Tail(q) : n \in Nat /\ n + 1 \in DOMAIN q /\ Tail(q)[n] = q[n + 1]
  BY <1>1, <1>2, <1>3
<1>5. \A m \in DOMAIN q : m = 1 \/ (m - 1 \in DOMAIN Tail(q) /\ q[m] = Tail(q)[m - 1])
  BY <1>1, <1>3, <1>4
<1>6. ToSet(q) = {Head(q)} \cup ToSet(Tail(q))
  <2>1. 1 \in DOMAIN q
    BY <1>1, <1>3
  <2>2. ASSUME NEW y \in ToSet(q) PROVE y \in {Head(q)} \cup ToSet(Tail(q))
    <3>1. PICK m \in DOMAIN q : y = q[m]
      BY <2>2 DEF ToSet
    <3>2. CASE m = 1
      BY <3>1, <3>2, <1>1
    <3>3. CASE m # 1
      <4>1. m - 1 \in DOMAIN Tail(q) /\ y = Tail(q)[m - 1]
        BY <3>1, <3>3, <1>5
      <4> QED BY <4>1 DEF ToSet
    <3> QED BY <3>2, <3>3
  <2>3. ASSUME NEW y \in ToSet(Tail(q)) PROVE y \in ToSet(q)
    BY <2>3, <1>4 DEF ToSet
  <2>4. Head(q) \in ToSet(q)
    BY <1>1, <2>1 DEF ToSet
  <2> QED BY <2>2, <2>3, <2>4
<1>7. Tail(q) = <<>> <=> Len(q) = 1
  <2>1. Tail(q) = <<>> <=> Len(Tail(q)) = 0
    BY <1>2, EmptyLen
  <2> QED BY <1>1, <1>2, <2>1
<1>8. Head(q) \in S
  BY <1>1
<1> QED BY <1>2, <1>4, <1>6, <1>7, <1>8

\* The empty queue.
LEMMA EmptySet ==
    /\ \A S : <<>> \in Seq(S)
    /\ ToSet(<<>>) = {} /\ DOMAIN <<>> = {}
<1>1. DOMAIN <<>> = {}
  OBVIOUS
<1> QED BY <1>1 DEF ToSet

\* The entries of a queue.
LEMMA ToSetType ==
    ASSUME NEW S, NEW q \in Seq(S)
    PROVE  ToSet(q) \subseteq S
BY DEF ToSet

(***************************************************************************)
(* Types, and what the tasks hold.                                         *)
(***************************************************************************)

\* The invariant of this part.
WorkInv == TypeOK /\ BusyInv

\* A layer at work has collected its item.
LEMMA CurrentType ==
    ASSUME WorkInv, NEW l \in Layers, layer[l] \notin {"idle", "stopped"}
    PROVE  Current(l) \in Item
<1>1. taken[l] \in 1 .. MaxItems
  BY BoundAssumption DEF WorkInv, TypeOK, BusyInv
<1> QED BY <1>1 DEF Current, Item

\* What a drain does to what the tasks hold.
LEMMA DrainWork ==
    ASSUME WorkInv, NEW f \in Flushers, Drain(f)
    PROVE  /\ flusher' \in [Flushers -> {"idle", "next", "queue", "connecting",
                                           "register", "asking", "stopped"}]
           /\ batch' \in [Flushers -> Seq(Item)]
           /\ buffer' \in Seq(Item)
           /\ flusher[f] \notin {"next", "queue"} =>
                \A g \in Flushers : batch'[g] = <<>> <=> flusher'[g] \notin {"next", "queue"}
           /\ \A g \in Flushers \ {f} : flusher'[g] = flusher[g]
<1>1. /\ flusher \in [Flushers -> {"idle", "next", "queue", "connecting",
                                     "register", "asking", "stopped"}]
      /\ batch \in [Flushers -> Seq(Item)] /\ buffer \in Seq(Item)
      /\ \A g \in Flushers : batch[g] = <<>> <=> flusher[g] \notin {"next", "queue"}
  BY DEF WorkInv, TypeOK, BusyInv
<1>2. /\ batch' = [batch EXCEPT ![f] = buffer] /\ buffer' = <<>>
      /\ flusher' = [flusher EXCEPT ![f] = IF buffer = <<>> THEN "idle" ELSE "next"]
  BY DEF Drain
<1>3. buffer' \in Seq(Item)
  BY <1>2, EmptySet
<1>4. batch' \in [Flushers -> Seq(Item)]
  BY <1>1, <1>2
<1>5. flusher' \in [Flushers -> {"idle", "next", "queue", "connecting",
                                  "register", "asking", "stopped"}]
  BY <1>1, <1>2
<1>6. \A g \in Flushers : batch'[g] = <<>> <=> flusher'[g] \notin {"next", "queue"}
  BY <1>1, <1>2
<1> QED BY <1>1, <1>2, <1>3, <1>4, <1>5, <1>6

\* Every step keeps types and what the tasks hold.
LEMMA WorkStep == WorkInv /\ [Next]_vars => WorkInv'
<1> SUFFICES ASSUME WorkInv, [Next]_vars PROVE WorkInv'
  OBVIOUS
<1> USE DEF netVars, flagVars, flushVars, rawVars, lifeVars
<1>0. TypeOK /\ BusyInv
  BY DEF WorkInv
<1>1. CASE ClusterDown \/ ClusterUp
  <2>1. outages' \in 0 .. MaxOutages
    BY <1>0, <1>1, BoundAssumption DEF ClusterDown, ClusterUp, TypeOK
  <2>2. up' \in BOOLEAN
    BY <1>1 DEF ClusterDown, ClusterUp
  <2> QED BY <1>0, <1>1, <2>1, <2>2 DEF ClusterDown, ClusterUp, WorkInv, TypeOK, BusyInv
<1>2. ASSUME NEW l \in Layers, Collect(l) PROVE WorkInv'
  BY <1>0, <1>2, LayersAssumption, BoundAssumption DEF Collect, Goto, WorkInv, TypeOK, BusyInv
<1>3. CASE SampleOut
  BY <1>0, <1>3, CurrentType, AppendSet DEF SampleOut, Goto, BufferWrite, WorkInv, TypeOK, BusyInv
<1>4. CASE PassGate
  BY <1>0, <1>4 DEF PassGate, Goto, WorkInv, TypeOK, BusyInv
<1>5. CASE SendLive
  <2>1. Current("metal") \in Item /\ "metal" \in Layers
    BY <1>5, CurrentType DEF SendLive
  <2>2. raw' \subseteq Item /\ rawLen' \in 0 .. RawCap
    BY <1>0, <1>5, <2>1, BoundAssumption DEF SendLive, RawSend, TypeOK
  <2> QED BY <1>0, <1>5, <2>1, <2>2 DEF SendLive, Goto, WorkInv, TypeOK, BusyInv
<1>6. ASSUME NEW l \in Layers, SendFails(l) PROVE WorkInv'
  BY <1>0, <1>6 DEF SendFails, Goto, WorkInv, TypeOK, BusyInv
<1>7. ASSUME NEW l \in Layers, NEW answered \in BOOLEAN, SendTaken(l, answered) PROVE WorkInv'
  BY <1>0, <1>7, CurrentType DEF SendTaken, Goto, WorkInv, TypeOK, BusyInv
<1>8. ASSUME NEW l \in Layers, SendRejected(l) PROVE WorkInv'
  <2>1. Current(l) \in Item /\ "rejected" \in Reasons
    BY <1>8, CurrentType DEF SendRejected, Reasons
  <2>2. gone' \subseteq Item \X Reasons
    BY <1>0, <1>8, <2>1 DEF SendRejected, TypeOK
  <2> QED BY <1>0, <1>8, <2>2 DEF SendRejected, Goto, WorkInv, TypeOK, BusyInv
<1>9. ASSUME NEW l \in Layers, Write(l) PROVE WorkInv'
  BY <1>0, <1>9, CurrentType, AppendSet DEF Write, Goto, BufferWrite, WorkInv, TypeOK, BusyInv
<1>10. ASSUME NEW l \in Layers, SendRaw(l) PROVE WorkInv'
  BY <1>0, <1>10, CurrentType, BoundAssumption DEF SendRaw, Goto, RawSend, WorkInv, TypeOK, BusyInv
<1>11. ASSUME NEW l \in Layers, LayerStops(l) PROVE WorkInv'
  <2>1. layer[l] # "stopped" => gone' \subseteq Item \X Reasons
    BY <1>0, <1>11, CurrentType DEF LayerStops, TypeOK, Reasons
  <2>2. layer[l] = "stopped" => l \in joined
    BY <1>0 DEF BusyInv
  <2> QED BY <1>0, <1>11, <2>1, <2>2 DEF LayerStops, Goto, WorkInv, TypeOK, BusyInv
<1>12. ASSUME NEW f \in Flushers, FlushNext(f) PROVE WorkInv'
  BY <1>0, <1>12 DEF FlushNext, WorkInv, TypeOK, BusyInv
<1>13. ASSUME NEW f \in Flushers, FlushQueue(f) PROVE WorkInv'
  <2>1. batch[f] \in Seq(Item) /\ batch[f] # <<>> /\ flusher[f] = "queue"
    BY <1>0, <1>13 DEF FlushQueue, TypeOK, BusyInv
  <2>2. /\ Head(batch[f]) \in Item /\ Tail(batch[f]) \in Seq(Item)
        /\ Tail(batch[f]) = <<>> <=> Len(batch[f]) = 1
    BY <2>1, TailSet
  <2>3. raw' \subseteq Item /\ rawLen' \in 0 .. RawCap
    BY <1>0, <1>13, <2>2, BoundAssumption DEF FlushQueue, RawSend, TypeOK
  <2>4. batch' \in [Flushers -> Seq(Item)]
    BY <1>0, <1>13, <2>2 DEF FlushQueue, TypeOK
  <2>5. /\ batch' = [batch EXCEPT ![f] = Tail(batch[f])]
        /\ flusher' = [flusher EXCEPT ![f] = IF Len(batch[f]) = 1 THEN "idle" ELSE "next"]
    BY <1>13 DEF FlushQueue
  <2>6. BusyInv'
    BY <1>0, <1>13, <2>1, <2>2, <2>5 DEF FlushQueue, TypeOK, BusyInv
  <2> QED BY <1>0, <1>13, <2>3, <2>4, <2>6 DEF FlushQueue, WorkInv, TypeOK
<1>14. ASSUME NEW f \in Flushers, FlushBreaks(f) PROVE WorkInv'
  BY <1>0, <1>14, ToSetType, EmptySet DEF FlushBreaks, WorkInv, TypeOK, BusyInv, Reasons
<1>15. CASE LoopTick
  <2>1. CASE connected
    <3>1. Drain("loop") /\ "loop" \in Flushers /\ flusher["loop"] = "idle" /\ "shutdown" # "loop"
      BY <1>15, <2>1 DEF LoopTick, Flushers
    <3>2. "shutdown" \in Flushers \ {"loop"}
      BY DEF Flushers
    <3> QED BY <1>0, <1>15, <3>1, <3>2, DrainWork DEF LoopTick, WorkInv, TypeOK, BusyInv
  <2>2. CASE ~connected
    BY <1>0, <1>15, <2>2 DEF LoopTick, WorkInv, TypeOK, BusyInv, Flushers
  <2> QED BY <2>1, <2>2
<1>16. CASE LoopConnect \/ LoopStops
  BY <1>0, <1>16 DEF LoopConnect, LoopStops, WorkInv, TypeOK, BusyInv, Flushers
<1>17. CASE LoopRegister
  BY <1>0, <1>17, DrainWork DEF LoopRegister, WorkInv, TypeOK, BusyInv, Flushers
<1>18. CASE Register
  BY <1>0, <1>18 DEF Register, WorkInv, TypeOK, BusyInv
<1>19. CASE Heartbeat \/ HeartbeatStep
  BY <1>0, <1>19 DEF Heartbeat, HeartbeatStep, HeartbeatEnds, HeartbeatStops, WorkInv, TypeOK,
       BusyInv, Flushers
<1>20. CASE FlushBufferCommand
  <2>1. Drain("command") /\ "command" \in Flushers /\ flusher["command"] = "asking"
    BY <1>20 DEF FlushBufferCommand, CommandArrives, Flushers
  <2>2. "shutdown" \in Flushers \ {"command"}
    BY DEF Flushers
  <2>3. commands' \in 0 .. MaxCommands
    BY <1>0, <1>20, BoundAssumption DEF FlushBufferCommand, CommandArrives, TypeOK
  <2> QED BY <1>0, <1>20, <2>1, <2>2, <2>3, DrainWork DEF FlushBufferCommand, WorkInv, TypeOK,
            BusyInv
<1>21. CASE UploadBacklogCommand
  <2>1. Drain("upload") /\ "upload" \in Flushers /\ flusher["upload"] = "idle"
    BY <1>21 DEF UploadBacklogCommand, Flushers
  <2>2. "shutdown" \in Flushers \ {"upload"}
    BY DEF Flushers
  <2>3. commands' \in 0 .. MaxCommands
    BY <1>0, <1>21, BoundAssumption DEF UploadBacklogCommand, CommandArrives, TypeOK
  <2> QED BY <1>0, <1>21, <2>1, <2>2, <2>3, DrainWork DEF UploadBacklogCommand, WorkInv, TypeOK,
            BusyInv
<1>22. CASE DeleteBacklogCommand
  BY <1>0, <1>22, ToSetType, EmptySet, BoundAssumption DEF DeleteBacklogCommand,
       CommandArrives, WorkInv, TypeOK, BusyInv, Reasons
<1>23. CASE RetireCommand \/ IdentityCommand
  <2>1. commands' \in 0 .. MaxCommands
    BY <1>0, <1>23, BoundAssumption DEF RetireCommand, IdentityCommand, CommandArrives, TypeOK
  <2> QED BY <1>0, <1>23, <2>1 DEF RetireCommand, IdentityCommand, WorkInv, TypeOK, BusyInv
<1>24. ASSUME NEW pause \in BOOLEAN, NEW rate \in BOOLEAN, FlowSignal(pause, rate) PROVE WorkInv'
  BY <1>0, <1>24, BoundAssumption DEF FlowSignal, WorkInv, TypeOK, BusyInv
<1>25. CASE CtrlC \/ ShutdownBegin
  BY <1>0, <1>25 DEF CtrlC, ShutdownBegin, WorkInv, TypeOK, BusyInv
<1>26. CASE ShutdownFlush
  BY <1>0, <1>26, DrainWork DEF ShutdownFlush, WorkInv, TypeOK, BusyInv, Flushers
<1>27. CASE ShutdownDisconnect
  BY <1>0, <1>27 DEF ShutdownDisconnect, WorkInv, TypeOK, BusyInv
<1>28. CASE Exit
  <2>1. gone' \subseteq Item \X Reasons
    BY <1>0, <1>28 DEF Exit, Collected, TypeOK, Reasons
  <2>2. batch' \in [Flushers -> Seq(Item)] /\ buffer' \in Seq(Item)
    BY <1>28, EmptySet DEF Exit
  <2>3. BusyInv'
    BY <1>28 DEF Exit, BusyInv
  <2>4. rawLen' \in 0 .. RawCap /\ raw' \subseteq Item
    BY <1>28, BoundAssumption DEF Exit
  <2> QED BY <1>0, <1>28, <2>1, <2>2, <2>3, <2>4 DEF Exit, WorkInv, TypeOK
<1>29. CASE Ended \/ UNCHANGED vars
  BY <1>0, <1>29 DEF Ended, vars, WorkInv, TypeOK, BusyInv
<1> QED BY <1>1, <1>2, <1>3, <1>4, <1>5, <1>6, <1>7, <1>8, <1>9, <1>10, <1>11, <1>12,
           <1>13, <1>14, <1>15, <1>16, <1>17, <1>18, <1>19, <1>20, <1>21, <1>22, <1>23,
           <1>24, <1>25, <1>26, <1>27, <1>28, <1>29
        DEF Next, LayerStep, MetalStep, FlushStep, LoopStep, Command, ShutdownStep

(***************************************************************************)
(* No item is lost without a reason.                                       *)
(***************************************************************************)

\* Where an item may be.
Kept(i) ==
    \/ i \in ingested \cup Left \cup InHand
    \/ i \in ToSet(buffer) \cup raw
    \/ \E f \in Flushers : i \in ToSet(batch[f])

\* A step accounts for every item when it forgets none of the ghosts and of the
\* channel, and accounts for what layers, buffer and flushing tasks held.
LEMMA AccountedBy ==
    ASSUME Accounted, taken' = taken,
           ingested \subseteq ingested', gone \subseteq gone', raw \subseteq raw',
           \A j \in InHand : Kept(j)',
           \A j \in ToSet(buffer) : Kept(j)',
           \A f \in Flushers : \A j \in ToSet(batch[f]) : Kept(j)'
    PROVE  Accounted'
<1>1. Collected' = Collected
  BY DEF Collected
<1>2. Left \subseteq Left'
  BY DEF Left
<1>3. ASSUME NEW i \in Collected PROVE Kept(i)'
  <2>1. Kept(i)
    BY <1>3 DEF Accounted, Kept
  <2>2. CASE i \in ingested \cup Left \cup raw
    BY <2>2, <1>2 DEF Kept
  <2>3. CASE i \in InHand \/ i \in ToSet(buffer) \/ \E f \in Flushers : i \in ToSet(batch[f])
    BY <2>3
  <2> QED BY <2>1, <2>2, <2>3 DEF Kept
<1> QED BY <1>1, <1>3 DEF Accounted, Kept

\* What a step gives up for one reason has left.
LEMMA LeftGrows ==
    ASSUME NEW S, NEW r, gone' = gone \cup {<<i, r>> : i \in S}
    PROVE  \A j \in S : j \in Left'
<1> TAKE j \in S
<1>1. <<j, r>> \in gone' /\ <<j, r>>[1] = j
  OBVIOUS
<1> QED BY <1>1 DEF Left

\* A layer that goes on puts down nothing but its own item.
LEMMA HandStep ==
    ASSUME WorkInv, NEW l \in Layers, NEW where,
           layer' = [layer EXCEPT ![l] = where], taken' = taken,
           NEW j \in InHand
    PROVE  \/ j \in InHand'
           \/ j = Current(l) /\ where \notin {"gate", "live", "send", "write"}
<1>1. PICK m \in Layers : j = Current(m) /\ layer[m] \in {"gate", "live", "send", "write"}
  BY DEF InHand
<1>2. layer \in [Layers -> {"idle", "gate", "live", "send", "write", "raw", "stopped"}]
  BY DEF WorkInv, TypeOK
<1>3. CASE m # l
  BY <1>1, <1>2, <1>3 DEF InHand, Current
<1>4. CASE m = l /\ where \in {"gate", "live", "send", "write"}
  BY <1>1, <1>2, <1>4 DEF InHand, Current
<1> QED BY <1>1, <1>3, <1>4

\* A drain moves the buffer to a task that held nothing.
LEMMA DrainAccounted ==
    ASSUME WorkInv, Accounted, NEW f \in Flushers, Drain(f),
           flusher[f] \notin {"next", "queue"},
           UNCHANGED <<layer, taken, ingested, gone, raw>>
    PROVE  Accounted'
<1>1. batch \in [Flushers -> Seq(Item)] /\ batch[f] = <<>>
  BY DEF WorkInv, TypeOK, BusyInv
<1>2. batch' = [batch EXCEPT ![f] = buffer]
  BY DEF Drain
<1>3. \A j \in ToSet(buffer) : Kept(j)'
  BY <1>1, <1>2 DEF Kept
<1>4. ASSUME NEW g \in Flushers, NEW j \in ToSet(batch[g]) PROVE Kept(j)'
  <2>1. g # f
    BY <1>1, <1>4, EmptySet
  <2>2. batch'[g] = batch[g]
    BY <1>1, <1>2, <2>1
  <2> QED BY <1>4, <2>2 DEF Kept
<1>5. \A j \in InHand : Kept(j)'
  BY DEF Kept, InHand, Current
<1> QED BY <1>3, <1>4, <1>5, AccountedBy

\* Every step accounts for every item.
LEMMA AccountedStep == WorkInv /\ Accounted /\ [Next]_vars => Accounted'
<1> SUFFICES ASSUME WorkInv, Accounted, [Next]_vars PROVE Accounted'
  OBVIOUS
<1> USE DEF netVars, flagVars, flushVars, rawVars, lifeVars
<1>t. TypeOK /\ BusyInv
  BY DEF WorkInv
\* Steps that move no item.
<1>q. ASSUME UNCHANGED <<layer, taken, ingested, gone, raw, buffer, batch>> PROVE Accounted'
  BY <1>q DEF Accounted, Collected, InHand, Current, Left
\* Steps of a layer that change nothing but the ghosts, the channel and the buffer.
<1>l. ASSUME NEW l \in Layers, NEW where, Goto(l, where),
             taken' = taken, batch' = batch, ingested \subseteq ingested', gone \subseteq gone',
             raw \subseteq raw', ToSet(buffer) \subseteq ToSet(buffer'),
             \/ where \in {"gate", "live", "send", "write"}
             \/ Kept(Current(l))'
             \/ Current(l) \notin InHand
      PROVE  Accounted'
  <2>1. \A j \in InHand : Kept(j)'
    BY <1>l, HandStep DEF Goto, Kept, Current
  <2>2. \A j \in ToSet(buffer) : Kept(j)'
    BY <1>l DEF Kept
  <2>3. \A f \in Flushers : \A j \in ToSet(batch[f]) : Kept(j)'
    BY <1>l DEF Kept
  <2> QED BY <1>l, <2>1, <2>2, <2>3, AccountedBy
<1>1. CASE ClusterDown \/ ClusterUp
  BY <1>1, <1>q DEF ClusterDown, ClusterUp
<1>2. ASSUME NEW l \in Layers, Collect(l) PROVE Accounted'
  <2>1. layer \in [Layers -> {"idle", "gate", "live", "send", "write", "raw", "stopped"}]
    BY <1>t DEF TypeOK
  <2>2. taken \in [Layers -> 0 .. MaxItems] /\ MaxItems \in Nat
    BY <1>t, BoundAssumption DEF TypeOK
  <2>3. /\ layer[l] = "idle" /\ taken' = [taken EXCEPT ![l] = taken[l] + 1]
        /\ UNCHANGED <<ingested, gone, raw, buffer, batch>>
    BY <1>2 DEF Collect
  <2>4. layer'[l] \in {"gate", "send", "write"} /\ \A m \in Layers \ {l} : layer'[m] = layer[m]
    BY <1>2, <2>1, LayersAssumption DEF Collect, Goto
  <2>5. InHand \subseteq InHand' /\ <<l, taken[l] + 1>> \in InHand'
    BY <2>1, <2>2, <2>3, <2>4 DEF InHand, Current
  <2>6. ASSUME NEW i \in Collected' PROVE i \in Collected \/ i = <<l, taken[l] + 1>>
    <3>1. i \in Item /\ i[2] <= taken'[i[1]]
      BY <2>6 DEF Collected, Item
    <3>2. PICK m \in Layers, n \in 1 .. MaxItems : i = <<m, n>>
      BY <3>1 DEF Item
    <3>3. n <= taken'[m]
      BY <3>1, <3>2
    <3>4. CASE m = l
      <4>1. n <= taken[l] \/ n = taken[l] + 1
        BY <2>2, <2>3, <3>2, <3>3, <3>4
      <4> QED BY <3>1, <3>2, <3>4, <4>1 DEF Collected
    <3>5. CASE m # l
      <4>1. n <= taken[m]
        BY <2>2, <2>3, <3>2, <3>3, <3>5
      <4> QED BY <3>1, <3>2, <4>1 DEF Collected
    <3> QED BY <3>4, <3>5
  <2>7. \A i : Kept(i) => Kept(i)'
    BY <2>3, <2>5 DEF Kept, Left
  <2> QED BY <2>5, <2>6, <2>7 DEF Accounted, Kept
<1>3. CASE SampleOut
  <2>1. "metal" \in Layers /\ Current("metal") \in Item /\ buffer \in Seq(Item)
    BY <1>t, <1>3, CurrentType DEF SampleOut, TypeOK
  <2>2. ToSet(buffer') = ToSet(buffer) \cup {Current("metal")}
    BY <1>3, <2>1, AppendSet DEF SampleOut, BufferWrite
  <2> QED BY <1>3, <1>l, <2>1, <2>2 DEF SampleOut, Kept, Current
<1>4. CASE PassGate
  BY <1>4, <1>l DEF PassGate
<1>5. CASE SendLive
  BY <1>5, <1>l DEF SendLive, RawSend
<1>6. ASSUME NEW l \in Layers, SendFails(l) PROVE Accounted'
  BY <1>6, <1>l DEF SendFails
<1>7. ASSUME NEW l \in Layers, NEW answered \in BOOLEAN, SendTaken(l, answered) PROVE Accounted'
  BY <1>7, <1>l DEF SendTaken, Kept, Current
<1>8. ASSUME NEW l \in Layers, SendRejected(l) PROVE Accounted'
  <2>1. CASE l = "metal"
    BY <1>8, <1>l, <2>1 DEF SendRejected
  <2>2. CASE l # "metal"
    <3>1. Current(l) \in Left'
      BY <1>8, <2>2 DEF SendRejected, Left
    <3> QED BY <1>8, <1>l, <2>2, <3>1 DEF SendRejected, Kept, Current
  <2> QED BY <2>1, <2>2
<1>9. ASSUME NEW l \in Layers, Write(l) PROVE Accounted'
  <2>1. Current(l) \in Item /\ buffer \in Seq(Item)
    BY <1>t, <1>9, CurrentType DEF Write, TypeOK
  <2>2. ToSet(buffer') = ToSet(buffer) \cup {Current(l)}
    BY <1>9, <2>1, AppendSet DEF Write, BufferWrite
  <2> QED BY <1>9, <1>l, <2>2 DEF Write, Kept, Current
<1>10. ASSUME NEW l \in Layers, SendRaw(l) PROVE Accounted'
  BY <1>10, <1>l DEF SendRaw, RawSend, Kept, Current
<1>11. ASSUME NEW l \in Layers, LayerStops(l) PROVE Accounted'
  <2>1. CASE l = "events"
    BY <1>11, <2>1, <1>q DEF LayerStops
  <2>2. CASE l # "events" /\ layer[l] # "idle"
    <3>1. Current(l) \in ingested' \/ Current(l) \in Left'
      BY <1>11, <2>2 DEF LayerStops, Left
    <3> QED BY <1>11, <1>l, <2>2, <3>1 DEF LayerStops, Kept, Current
  <2>3. CASE l # "events" /\ layer[l] = "idle"
    <3>1. Current(l) \notin InHand
      BY <2>3 DEF InHand, Current
    <3> QED BY <1>11, <1>l, <2>3, <3>1 DEF LayerStops
  <2> QED BY <2>1, <2>2, <2>3
<1>12. ASSUME NEW f \in Flushers, FlushNext(f) PROVE Accounted'
  BY <1>12, <1>q DEF FlushNext
<1>13. ASSUME NEW f \in Flushers, FlushQueue(f) PROVE Accounted'
  <2>1. batch \in [Flushers -> Seq(Item)] /\ batch[f] \in Seq(Item) /\ batch[f] # <<>>
    BY <1>t, <1>13 DEF FlushQueue, TypeOK, BusyInv
  <2>2. ToSet(batch[f]) = {Head(batch[f])} \cup ToSet(Tail(batch[f]))
    BY <2>1, TailSet
  <2>3. /\ batch'[f] = Tail(batch[f]) /\ \A g \in Flushers \ {f} : batch'[g] = batch[g]
        /\ raw' = raw \cup {Head(batch[f])}
        /\ UNCHANGED <<layer, taken, ingested, gone, buffer>>
    BY <1>13, <2>1 DEF FlushQueue, RawSend
  <2>4. \A g \in Flushers : \A j \in ToSet(batch[g]) : Kept(j)'
    BY <2>2, <2>3 DEF Kept
  <2>5. \A j \in InHand : Kept(j)'
    BY <2>3 DEF Kept, InHand, Current
  <2>6. \A j \in ToSet(buffer) : Kept(j)'
    BY <2>3 DEF Kept
  <2> QED BY <2>3, <2>4, <2>5, <2>6, AccountedBy
<1>14. ASSUME NEW f \in Flushers, FlushBreaks(f) PROVE Accounted'
  <2>1. batch \in [Flushers -> Seq(Item)]
    BY <1>t DEF TypeOK
  <2>2. /\ \A g \in Flushers \ {f} : batch'[g] = batch[g]
        /\ gone' = gone \cup {<<i, "unsent">> : i \in ToSet(batch[f])}
        /\ UNCHANGED <<layer, taken, ingested, raw, buffer>>
    BY <1>14, <2>1 DEF FlushBreaks
  <2>3. \A j \in ToSet(batch[f]) : j \in Left'
    BY <2>2, LeftGrows
  <2>4. \A g \in Flushers : \A j \in ToSet(batch[g]) : Kept(j)'
    BY <2>2, <2>3 DEF Kept
  <2>5. \A j \in InHand : Kept(j)'
    BY <2>2 DEF Kept, InHand, Current
  <2>6. \A j \in ToSet(buffer) : Kept(j)'
    BY <2>2 DEF Kept
  <2> QED BY <2>2, <2>4, <2>5, <2>6, AccountedBy
<1>15. CASE LoopTick
  BY <1>15, <1>q, DrainAccounted DEF LoopTick, Flushers
<1>16. CASE LoopConnect \/ LoopStops \/ Register \/ Heartbeat \/ HeartbeatStep
  BY <1>16, <1>q DEF LoopConnect, LoopStops, Register, Heartbeat, HeartbeatStep,
       HeartbeatEnds, HeartbeatStops
<1>17. CASE LoopRegister
  BY <1>17, DrainAccounted DEF LoopRegister, Flushers
<1>18. CASE FlushBufferCommand \/ UploadBacklogCommand
  BY <1>18, DrainAccounted DEF FlushBufferCommand, UploadBacklogCommand, CommandArrives, Flushers
<1>19. CASE DeleteBacklogCommand
  <2>1. \A j \in ToSet(buffer) : j \in Left'
    BY <1>19, LeftGrows DEF DeleteBacklogCommand
  <2>2. \A j \in ToSet(buffer) : Kept(j)'
    BY <2>1 DEF Kept
  <2>3. \A j \in InHand : Kept(j)'
    BY <1>19 DEF DeleteBacklogCommand, Kept, InHand, Current
  <2>4. \A f \in Flushers : \A j \in ToSet(batch[f]) : Kept(j)'
    BY <1>19 DEF DeleteBacklogCommand, Kept
  <2> QED BY <1>19, <2>2, <2>3, <2>4, AccountedBy DEF DeleteBacklogCommand
<1>20. CASE RetireCommand \/ IdentityCommand \/ CtrlC \/ ShutdownBegin \/ ShutdownDisconnect
            \/ \E pause, rate \in BOOLEAN : FlowSignal(pause, rate)
  BY <1>20, <1>q DEF RetireCommand, IdentityCommand, CtrlC, ShutdownBegin, ShutdownDisconnect,
       FlowSignal
<1>21. CASE ShutdownFlush
  <2>1. CASE connected
    <3>1. "shutdown" \in Flushers /\ flusher["shutdown"] = "idle"
      BY <1>t, <1>21 DEF ShutdownFlush, BusyInv, Flushers
    <3> QED BY <1>21, <2>1, <3>1, DrainAccounted DEF ShutdownFlush
  <2>2. CASE ~connected
    BY <1>21, <1>q, <2>2 DEF ShutdownFlush
  <2> QED BY <2>1, <2>2
<1>22. CASE Exit
  <2>1. /\ gone' = gone \cup {<<i, "exit">> : i \in Collected \ (ingested \cup Left)}
        /\ UNCHANGED <<taken, ingested>>
    BY <1>22 DEF Exit
  <2>2. Collected' = Collected
    BY <2>1 DEF Collected
  <2>3. \A i \in Collected : i \in ingested \cup Left'
    <3>1. \A i \in Collected \ (ingested \cup Left) : i \in Left'
      BY <2>1, LeftGrows
    <3>2. Left \subseteq Left'
      BY <2>1 DEF Left
    <3> QED BY <3>1, <3>2
  <2> QED BY <2>1, <2>2, <2>3 DEF Accounted
<1>23. CASE Ended \/ UNCHANGED vars
  BY <1>23, <1>q DEF Ended, vars
<1> QED BY <1>1, <1>2, <1>3, <1>4, <1>5, <1>6, <1>7, <1>8, <1>9, <1>10, <1>11, <1>12,
           <1>13, <1>14, <1>15, <1>16, <1>17, <1>18, <1>19, <1>20, <1>21, <1>22, <1>23
        DEF Next, LayerStep, MetalStep, FlushStep, LoopStep, Command, ShutdownStep

(***************************************************************************)
(* One owner for what waits to be flushed.                                 *)
(***************************************************************************)

\* The queues have their types, and the buffer is none of the batches.
LEMMA QueueType ==
    ASSUME WorkInv
    PROVE  /\ \A p \in Queues : Queue(p) \in Seq(Item)
           /\ "buffer" \in Queues /\ Queue("buffer") = buffer
           /\ Queue("buffer")' = buffer'
           /\ \A f \in Flushers : /\ f \in Queues /\ f # "buffer"
                                  /\ Queue(f) = batch[f] /\ Queue(f)' = batch'[f]
           /\ Queues = Flushers \cup {"buffer"}
BY DEF WorkInv, TypeOK, Queue, Queues, Flushers

\* A layer that goes on picks nothing up, and puts its own item down when it
\* stops to work on it.
LEMMA HandDown ==
    ASSUME WorkInv, NEW l \in Layers, NEW where,
           layer' = [layer EXCEPT ![l] = where], taken' = taken,
           \/ layer[l] \in {"gate", "live", "send", "write"}
           \/ where \notin {"gate", "live", "send", "write"}
    PROVE  /\ InHand' \subseteq InHand
           /\ where \notin {"gate", "live", "send", "write"} => Current(l) \notin InHand'
<1>1. layer \in [Layers -> {"idle", "gate", "live", "send", "write", "raw", "stopped"}]
  BY DEF WorkInv, TypeOK
<1>2. \A m \in Layers : layer'[m] = IF m = l THEN where ELSE layer[m]
  BY <1>1
<1>3. \A j \in InHand' : \E m \in Layers : /\ j = Current(m)
                                           /\ layer'[m] \in {"gate", "live", "send", "write"}
  BY DEF InHand, Current
<1>4. \A m \in Layers : Current(m) = Current(l) => m = l
  BY DEF Current
<1>5. InHand' \subseteq InHand
  BY <1>2, <1>3 DEF InHand
<1>6. where \notin {"gate", "live", "send", "write"} => Current(l) \notin InHand'
  BY <1>2, <1>3, <1>4
<1> QED BY <1>5, <1>6

\* The item in hand was collected.
LEMMA HandCollected ==
    ASSUME WorkInv, NEW l \in Layers, layer[l] \in {"gate", "live", "send", "write"}
    PROVE  Current(l) \in Item /\ Current(l) \in Collected /\ Current(l) \in InHand
<1>1. Current(l) \in Item
  BY CurrentType
<1>2. taken[l] <= taken[l]
  BY BoundAssumption DEF WorkInv, TypeOK
<1> QED BY <1>1, <1>2 DEF Collected, Current, InHand

\* A step that only takes entries from one queue keeps one owner.
LEMMA OwnerShrink ==
    ASSUME WorkInv, OwnerInv, Collected \subseteq Collected',
           InHand' \cap Collected \subseteq InHand,
           NEW c \in Queues, \A p \in Queues \ {c} : Queue(p)' = Queue(p),
           \/ Queue(c)' = Queue(c) \/ Queue(c)' = <<>>
           \/ Queue(c) # <<>> /\ Queue(c)' = Tail(Queue(c))
    PROVE  OwnerInv'
<1>0. Queue(c) \in Seq(Item)
  BY QueueType
<1>1. /\ ToSet(Queue(c)') \subseteq ToSet(Queue(c))
      /\ \A m, n \in DOMAIN Queue(c)' : Queue(c)'[m] = Queue(c)'[n] => m = n
  <2>1. CASE Queue(c)' = Queue(c)
    BY <2>1 DEF OwnerInv
  <2>2. CASE Queue(c)' = <<>>
    BY <2>2, EmptySet
  <2>3. CASE Queue(c) # <<>> /\ Queue(c)' = Tail(Queue(c))
    <3>1. /\ ToSet(Queue(c)) = {Head(Queue(c))} \cup ToSet(Tail(Queue(c)))
          /\ \A n \in DOMAIN Tail(Queue(c)) : /\ n \in Nat /\ n + 1 \in DOMAIN Queue(c)
                                              /\ Tail(Queue(c))[n] = Queue(c)[n + 1]
      BY <1>0, <2>3, TailSet
    <3>2. \A m, n \in DOMAIN Queue(c) : Queue(c)[m] = Queue(c)[n] => m = n
      BY DEF OwnerInv
    <3>3. ASSUME NEW m \in DOMAIN Tail(Queue(c)), NEW n \in DOMAIN Tail(Queue(c)),
                 Tail(Queue(c))[m] = Tail(Queue(c))[n]
          PROVE  m = n
      <4>1. m + 1 = n + 1
        BY <3>1, <3>2, <3>3
      <4> QED BY <3>1, <3>3, <4>1
    <3> QED BY <2>3, <3>1, <3>3
  <2> QED BY <2>1, <2>2, <2>3
<1>2. \A p \in Queues : ToSet(Queue(p)') \subseteq ToSet(Queue(p))
  BY <1>1
<1>3. \A p \in Queues : \A m, n \in DOMAIN Queue(p)' : Queue(p)'[m] = Queue(p)'[n] => m = n
  <2> TAKE p \in Queues
  <2>1. CASE p = c
    BY <1>1, <2>1
  <2>2. CASE p # c
    BY <2>2 DEF OwnerInv
  <2> QED BY <2>1, <2>2
<1>4. \A p, q \in Queues : p # q => ToSet(Queue(p)') \cap ToSet(Queue(q)') = {}
  BY <1>2 DEF OwnerInv
<1>5. \A p \in Queues : ToSet(Queue(p)') \subseteq Collected' \ InHand'
  BY <1>2 DEF OwnerInv
<1>6. Queues' = Queues
  BY DEF Queues, Flushers
<1> QED BY <1>3, <1>4, <1>5, <1>6 DEF OwnerInv

\* A step that changes no queue.
LEMMA OwnerQuiet ==
    ASSUME WorkInv, OwnerInv, Collected \subseteq Collected',
           InHand' \cap Collected \subseteq InHand, UNCHANGED <<buffer, batch>>
    PROVE  OwnerInv'
<1>1. \A p \in Queues : Queue(p)' = Queue(p)
  BY DEF Queue
<1>2. "buffer" \in Queues
  BY DEF Queues
<1> QED BY <1>1, <1>2, OwnerShrink

\* A layer hands its item to the buffer.
LEMMA OwnerWrite ==
    ASSUME WorkInv, OwnerInv, NEW l \in Layers, BufferWrite(Current(l)),
           layer[l] \in {"gate", "live", "send", "write"},
           NEW where, Goto(l, where), where \notin {"gate", "live", "send", "write"},
           UNCHANGED <<taken, batch>>
    PROVE  OwnerInv'
<1>1. /\ Current(l) \in Item /\ Current(l) \in Collected /\ Current(l) \in InHand
  BY HandCollected
<1>2. InHand' \subseteq InHand /\ Current(l) \notin InHand'
  BY HandDown DEF Goto
<1>3. buffer \in Seq(Item) /\ buffer' = Append(buffer, Current(l))
  BY QueueType DEF BufferWrite
<1>4. /\ ToSet(buffer') = ToSet(buffer) \cup {Current(l)}
      /\ \A n \in DOMAIN buffer' :
           \/ n \in DOMAIN buffer /\ buffer'[n] = buffer[n]
           \/ n = Len(buffer) + 1 /\ buffer'[n] = Current(l)
  BY <1>1, <1>3, AppendSet
<1>5. \A p \in Queues : Current(l) \notin ToSet(Queue(p))
  BY <1>1 DEF OwnerInv
<1>6. Current(l) \notin ToSet(buffer) /\ \A n \in DOMAIN buffer : buffer[n] # Current(l)
  BY <1>5, QueueType DEF ToSet
<1>7. \A m, n \in DOMAIN buffer : buffer[m] = buffer[n] => m = n
  BY QueueType DEF OwnerInv
<1>8. \A m, n \in DOMAIN buffer' : buffer'[m] = buffer'[n] => m = n
  BY <1>4, <1>6, <1>7
<1>9. \A p \in Queues \ {"buffer"} : Queue(p)' = Queue(p)
  BY DEF Queue
<1>10. Queue("buffer") = buffer /\ Queue("buffer")' = buffer' /\ "buffer" \in Queues
  BY QueueType
<1>11. \A p \in Queues : \A m, n \in DOMAIN Queue(p)' : Queue(p)'[m] = Queue(p)'[n] => m = n
  <2> TAKE p \in Queues
  <2>1. CASE p = "buffer"
    BY <1>8, <1>10, <2>1
  <2>2. CASE p # "buffer"
    BY <1>9, <2>2 DEF OwnerInv
  <2> QED BY <2>1, <2>2
<1>12. \A p, q \in Queues : p # q => ToSet(Queue(p)) \cap ToSet(Queue(q)) = {}
  BY DEF OwnerInv
<1>13. \A p \in Queues : ToSet(Queue(p)') = ToSet(Queue(p)) \cup
                            (IF p = "buffer" THEN {Current(l)} ELSE {})
  BY <1>4, <1>9, <1>10
<1>14. \A p, q \in Queues : p # q => ToSet(Queue(p)') \cap ToSet(Queue(q)') = {}
  BY <1>5, <1>12, <1>13
<1>15. Collected' = Collected
  BY DEF Collected
<1>16. \A p \in Queues : ToSet(Queue(p)) \subseteq Collected \ InHand
  BY DEF OwnerInv
<1>17. \A p \in Queues : ToSet(Queue(p)') \subseteq Collected' \ InHand'
  BY <1>1, <1>2, <1>13, <1>15, <1>16
<1>18. Queues' = Queues
  BY DEF Queues, Flushers
<1> QED BY <1>11, <1>14, <1>17, <1>18 DEF OwnerInv

\* A drain: one task gets what the buffer had, and held nothing before.
LEMMA OwnerDrain ==
    ASSUME WorkInv, OwnerInv, NEW f \in Flushers, Drain(f),
           flusher[f] \notin {"next", "queue"}, UNCHANGED <<layer, taken>>
    PROVE  OwnerInv'
<1>1. batch \in [Flushers -> Seq(Item)] /\ batch[f] = <<>>
  BY DEF WorkInv, TypeOK, BusyInv
<1>2. batch' = [batch EXCEPT ![f] = buffer] /\ buffer' = <<>>
  BY DEF Drain
<1>3. /\ Queue("buffer")' = <<>> /\ f \in Queues /\ "buffer" \in Queues /\ f # "buffer"
      /\ Queue(f)' = Queue("buffer") /\ Queue(f) = <<>>
  BY <1>1, <1>2, QueueType
<1>4. \A p \in Queues \ {f, "buffer"} : Queue(p)' = Queue(p)
  BY <1>1, <1>2, QueueType
<1>5. \A p \in Queues : \A m, n \in DOMAIN Queue(p) : Queue(p)[m] = Queue(p)[n] => m = n
  BY DEF OwnerInv
<1>6. \A p \in Queues : \A m, n \in DOMAIN Queue(p)' : Queue(p)'[m] = Queue(p)'[n] => m = n
  <2> TAKE p \in Queues
  <2>1. CASE p = "buffer"
    BY <1>3, <2>1, EmptySet
  <2>2. CASE p = f
    BY <1>3, <1>5, <2>2
  <2>3. CASE p \notin {f, "buffer"}
    BY <1>4, <1>5, <2>3
  <2> QED BY <2>1, <2>2, <2>3
<1>7. \A p \in Queues : ToSet(Queue(p)') = IF p = "buffer" THEN {} ELSE
                           IF p = f THEN ToSet(Queue("buffer")) ELSE ToSet(Queue(p))
  BY <1>3, <1>4, EmptySet
<1>8. \A p, q \in Queues : p # q => ToSet(Queue(p)) \cap ToSet(Queue(q)) = {}
  BY DEF OwnerInv
<1>9. \A p, q \in Queues : p # q => ToSet(Queue(p)') \cap ToSet(Queue(q)') = {}
  BY <1>3, <1>7, <1>8
<1>10. Collected' = Collected /\ InHand' = InHand
  BY DEF Collected, InHand, Current
<1>11. \A p \in Queues : ToSet(Queue(p)) \subseteq Collected \ InHand
  BY DEF OwnerInv
<1>12. \A p \in Queues : ToSet(Queue(p)') \subseteq Collected' \ InHand'
  BY <1>3, <1>7, <1>10, <1>11
<1>13. Queues' = Queues
  BY DEF Queues, Flushers
<1> QED BY <1>6, <1>9, <1>12, <1>13 DEF OwnerInv

\* Every step keeps one owner.
LEMMA OwnerStep == WorkInv /\ OwnerInv /\ [Next]_vars => OwnerInv'
<1> SUFFICES ASSUME WorkInv, OwnerInv, [Next]_vars PROVE OwnerInv'
  OBVIOUS
<1> USE DEF netVars, flagVars, flushVars, rawVars, lifeVars
<1>t. TypeOK /\ BusyInv
  BY DEF WorkInv
\* Steps that move no item, and steps of a layer that leave the buffer alone.
<1>q. ASSUME UNCHANGED <<layer, taken, buffer, batch>> PROVE OwnerInv'
  BY <1>q, OwnerQuiet DEF Collected, InHand, Current
<1>l. ASSUME NEW l \in Layers, NEW where, Goto(l, where), UNCHANGED <<taken, buffer, batch>>,
             \/ layer[l] \in {"gate", "live", "send", "write"}
             \/ where \notin {"gate", "live", "send", "write"}
      PROVE  OwnerInv'
  <2>1. InHand' \subseteq InHand
    BY <1>l, HandDown DEF Goto
  <2>2. Collected' = Collected
    BY <1>l DEF Collected
  <2> QED BY <1>l, <2>1, <2>2, OwnerQuiet
<1>1. CASE ClusterDown \/ ClusterUp
  BY <1>1, <1>q DEF ClusterDown, ClusterUp
<1>2. ASSUME NEW l \in Layers, Collect(l) PROVE OwnerInv'
  <2>1. layer \in [Layers -> {"idle", "gate", "live", "send", "write", "raw", "stopped"}]
    BY <1>t DEF TypeOK
  <2>2. taken \in [Layers -> 0 .. MaxItems] /\ MaxItems \in Nat
    BY <1>t, BoundAssumption DEF TypeOK
  <2>3. /\ layer[l] = "idle" /\ taken' = [taken EXCEPT ![l] = taken[l] + 1]
        /\ UNCHANGED <<buffer, batch>>
    BY <1>2 DEF Collect
  <2>4. \A m \in Layers \ {l} : layer'[m] = layer[m] /\ taken'[m] = taken[m]
    BY <1>2, <2>1, <2>2 DEF Collect, Goto
  <2>5. taken[l] + 1 = taken'[l] /\ taken[l] \in Nat
    BY <2>2, <2>3
  <2>6. Collected \subseteq Collected'
    <3> SUFFICES ASSUME NEW i \in Collected PROVE i \in Collected'
      OBVIOUS
    <3>1. PICK m \in Layers, n \in 1 .. MaxItems : i = <<m, n>>
      BY DEF Collected, Item
    <3>2. n <= taken[m]
      BY <3>1 DEF Collected
    <3>3. n <= taken'[m]
      BY <3>1, <3>2, <2>2, <2>4, <2>5
    <3>4. i \in Item
      BY DEF Collected
    <3> QED BY <3>1, <3>3, <3>4 DEF Collected, Item
  <2>7. InHand' \cap Collected \subseteq InHand
    <3> SUFFICES ASSUME NEW i \in InHand', i \in Collected PROVE i \in InHand
      OBVIOUS
    <3>1. PICK m \in Layers : i = <<m, taken'[m]>> /\ layer'[m] \in {"gate", "live", "send", "write"}
      BY DEF InHand, Current
    <3>2. taken'[m] <= taken[m]
      BY <3>1 DEF Collected
    <3>3. m # l
      BY <2>5, <3>2
    <3> QED BY <2>4, <3>1, <3>3 DEF InHand, Current
  <2> QED BY <2>3, <2>6, <2>7, OwnerQuiet
<1>3. CASE SampleOut
  BY <1>3, OwnerWrite DEF SampleOut
<1>4. CASE PassGate
  BY <1>4, <1>l DEF PassGate
<1>5. CASE SendLive
  BY <1>5, <1>l DEF SendLive
<1>6. ASSUME NEW l \in Layers, SendFails(l) PROVE OwnerInv'
  BY <1>6, <1>l DEF SendFails
<1>7. ASSUME NEW l \in Layers, NEW answered \in BOOLEAN, SendTaken(l, answered) PROVE OwnerInv'
  BY <1>7, <1>l DEF SendTaken
<1>8. ASSUME NEW l \in Layers, SendRejected(l) PROVE OwnerInv'
  BY <1>8, <1>l DEF SendRejected
<1>9. ASSUME NEW l \in Layers, Write(l) PROVE OwnerInv'
  BY <1>9, OwnerWrite DEF Write
<1>10. ASSUME NEW l \in Layers, SendRaw(l) PROVE OwnerInv'
  BY <1>10, <1>l DEF SendRaw
<1>11. ASSUME NEW l \in Layers, LayerStops(l) PROVE OwnerInv'
  BY <1>11, <1>q, <1>l DEF LayerStops
<1>12. ASSUME NEW f \in Flushers, FlushNext(f) PROVE OwnerInv'
  BY <1>12, <1>q DEF FlushNext
<1>13. ASSUME NEW f \in Flushers, FlushQueue(f) \/ FlushBreaks(f) PROVE OwnerInv'
  <2>1. /\ batch \in [Flushers -> Seq(Item)] /\ batch[f] # <<>>
        /\ UNCHANGED <<layer, taken, buffer>>
    BY <1>t, <1>13 DEF FlushQueue, FlushBreaks, TypeOK, BusyInv
  <2>2. /\ batch'[f] = Tail(batch[f]) \/ batch'[f] = <<>>
        /\ \A g \in Flushers \ {f} : batch'[g] = batch[g]
    BY <1>13, <2>1 DEF FlushQueue, FlushBreaks
  <2>3. /\ f \in Queues /\ Queue(f) # <<>>
        /\ \A p \in Queues \ {f} : Queue(p)' = Queue(p)
        /\ Queue(f)' = Tail(Queue(f)) \/ Queue(f)' = <<>>
    BY <2>1, <2>2, QueueType
  <2>4. Collected' = Collected /\ InHand' = InHand
    BY <2>1 DEF Collected, InHand, Current
  <2> QED BY <2>3, <2>4, OwnerShrink
<1>14. CASE LoopTick
  BY <1>14, <1>q, OwnerDrain DEF LoopTick, Flushers
<1>15. CASE LoopConnect \/ LoopStops \/ Register \/ Heartbeat \/ HeartbeatStep
  BY <1>15, <1>q DEF LoopConnect, LoopStops, Register, Heartbeat, HeartbeatStep,
       HeartbeatEnds, HeartbeatStops
<1>16. CASE LoopRegister
  BY <1>16, OwnerDrain DEF LoopRegister, Flushers
<1>17. CASE FlushBufferCommand \/ UploadBacklogCommand
  BY <1>17, OwnerDrain DEF FlushBufferCommand, UploadBacklogCommand, CommandArrives, Flushers
<1>18. CASE DeleteBacklogCommand
  <2>1. buffer' = <<>> /\ UNCHANGED <<layer, taken, batch>>
    BY <1>18 DEF DeleteBacklogCommand
  <2>2. /\ "buffer" \in Queues /\ Queue("buffer")' = <<>>
        /\ \A p \in Queues \ {"buffer"} : Queue(p)' = Queue(p)
    BY <2>1, QueueType
  <2>3. Collected' = Collected /\ InHand' = InHand
    BY <2>1 DEF Collected, InHand, Current
  <2> QED BY <2>2, <2>3, OwnerShrink
<1>19. CASE RetireCommand \/ IdentityCommand \/ CtrlC \/ ShutdownBegin \/ ShutdownDisconnect
            \/ \E pause, rate \in BOOLEAN : FlowSignal(pause, rate)
  BY <1>19, <1>q DEF RetireCommand, IdentityCommand, CtrlC, ShutdownBegin, ShutdownDisconnect,
       FlowSignal
<1>20. CASE ShutdownFlush
  <2>1. CASE connected
    <3>1. "shutdown" \in Flushers /\ flusher["shutdown"] = "idle"
      BY <1>t, <1>20 DEF ShutdownFlush, BusyInv, Flushers
    <3> QED BY <1>20, <2>1, <3>1, OwnerDrain DEF ShutdownFlush
  <2>2. CASE ~connected
    BY <1>20, <1>q, <2>2 DEF ShutdownFlush
  <2> QED BY <2>1, <2>2
<1>21. CASE Exit
  <2>1. \A p \in Queues : Queue(p)' = <<>>
    BY <1>21, QueueType DEF Exit
  <2>2. Queues' = Queues
    BY DEF Queues, Flushers
  <2> QED BY <2>1, <2>2, EmptySet DEF OwnerInv
<1>22. CASE Ended \/ UNCHANGED vars
  BY <1>22, <1>q DEF Ended, vars
<1> QED BY <1>1, <1>2, <1>3, <1>4, <1>5, <1>6, <1>7, <1>8, <1>9, <1>10, <1>11, <1>12,
           <1>13, <1>14, <1>15, <1>16, <1>17, <1>18, <1>19, <1>20, <1>21, <1>22
        DEF Next, LayerStep, MetalStep, FlushStep, LoopStep, Command, ShutdownStep

\* An item is in a queue without duplicates once or not at all.
LEMMA CopiesOne ==
    ASSUME NEW q, NEW i, \A m, n \in DOMAIN q : q[m] = q[n] => m = n
    PROVE  Copies(q, i) = IF i \in ToSet(q) THEN 1 ELSE 0
<1>1. CASE i \in ToSet(q)
  <2>1. PICK k \in DOMAIN q : q[k] = i
    BY <1>1 DEF ToSet
  <2>2. {n \in DOMAIN q : q[n] = i} = {k}
    BY <2>1
  <2> QED BY <1>1, <2>2, FS_Singleton DEF Copies
<1>2. CASE i \notin ToSet(q)
  <2>1. {n \in DOMAIN q : q[n] = i} = {}
    BY <1>2 DEF ToSet
  <2> QED BY <1>2, <2>1, FS_EmptySet DEF Copies
<1> QED BY <1>1, <1>2

\* The invariant gives OneOwner.
LEMMA OwnerOne == OwnerInv => OneOwner
<1> SUFFICES ASSUME OwnerInv, NEW i \in Item
             PROVE  Copies(buffer, i) + Copies(batch["loop"], i) + Copies(batch["command"], i)
                      + Copies(batch["upload"], i) + Copies(batch["shutdown"], i) <= 1
  BY DEF OneOwner
<1> DEFINE In(p) == i \in ToSet(Queue(p))
<1>1. \A p \in Queues : Copies(Queue(p), i) = IF In(p) THEN 1 ELSE 0
  BY CopiesOne DEF OwnerInv
<1>2. \A p, q \in Queues : p # q => ~(In(p) /\ In(q))
  BY DEF OwnerInv
<1>3. /\ Queues = {"buffer", "loop", "command", "upload", "shutdown"}
      /\ Queue("buffer") = buffer /\ Queue("loop") = batch["loop"]
      /\ Queue("command") = batch["command"] /\ Queue("upload") = batch["upload"]
      /\ Queue("shutdown") = batch["shutdown"]
  BY DEF Queues, Flushers, Queue
<1> DEFINE C(p) == IF In(p) THEN 1 ELSE 0
<1>4. C("buffer") + C("loop") + C("command") + C("upload") + C("shutdown") <= 1
  BY <1>2, <1>3
<1> QED BY <1>1, <1>3, <1>4

(***************************************************************************)
(* What is thrown away, and when.                                          *)
(***************************************************************************)

\* What excuses a drop; once there it stays.
Excused == root \/ outages > 0

\* A step that drops nothing, or is excused, keeps DropsOnlyAtShutdown.
LEMMA DropStep ==
    ASSUME DropsOnlyAtShutdown, Excused => Excused',
           \/ Excused
           \/ \A g \in gone' \ gone : g[2] \notin {"dropped", "unsent"}
    PROVE  DropsOnlyAtShutdown'
BY DEF DropsOnlyAtShutdown, Excused

\* A step of the invariant, from its parts.
LEMMA ConnectParts ==
    ConnectInv <=>
      /\ main # "running" => root
      /\ outages = 0 /\ connected => up
      /\ \/ Excused \/ connected
         \/ /\ flusher["loop"] # "register" /\ flusher["command"] # "asking"
            /\ \A f \in Flushers : flusher[f] \notin {"next", "queue"}
      /\ DropsOnlyAtShutdown
BY DEF ConnectInv, Excused

\* Every step keeps the connection of whoever drains.
LEMMA ConnectStep == WorkInv /\ ConnectInv /\ [Next]_vars => ConnectInv'
<1> SUFFICES ASSUME WorkInv, ConnectInv, [Next]_vars PROVE ConnectInv'
  OBVIOUS
<1> USE DEF netVars, flagVars, flushVars, rawVars, lifeVars
<1>t. /\ outages \in 0 .. MaxOutages /\ MaxOutages \in Nat
      /\ flusher \in [Flushers -> {"idle", "next", "queue", "connecting",
                                     "register", "asking", "stopped"}]
  BY BoundAssumption DEF WorkInv, TypeOK
<1>c. /\ main # "running" => root
      /\ outages = 0 /\ connected => up
      /\ \/ Excused \/ connected
         \/ /\ flusher["loop"] # "register" /\ flusher["command"] # "asking"
            /\ \A f \in Flushers : flusher[f] \notin {"next", "queue"}
      /\ DropsOnlyAtShutdown
  BY ConnectParts
<1> DEFINE Rest(fl) == /\ fl["loop"] # "register" /\ fl["command"] # "asking"
                       /\ \A f \in Flushers : fl[f] \notin {"next", "queue"}
\* Steps of a layer.
<1>l. ASSUME UNCHANGED <<up, outages, connected, root, main, flusher>>,
             \/ Excused
             \/ \A g \in gone' \ gone : g[2] \notin {"dropped", "unsent"}
      PROVE  ConnectInv'
  <2>1. DropsOnlyAtShutdown'
    BY <1>c, <1>l, DropStep DEF Excused
  <2> QED BY <1>c, <1>l, <2>1 DEF ConnectInv, Excused
\* Steps of a flushing task, none of which drops anything.
<1>f. ASSUME UNCHANGED <<up, outages, connected, root, main, gone>>,
             Excused \/ connected \/ (Rest(flusher) => Rest(flusher'))
      PROVE  ConnectInv'
  <2>1. DropsOnlyAtShutdown'
    BY <1>c, <1>f DEF DropsOnlyAtShutdown
  <2> QED BY <1>c, <1>f, <2>1 DEF ConnectInv, Excused
<1>1. CASE ClusterDown
  <2>1. outages' > 0 /\ UNCHANGED <<root, main, gone>>
    BY <1>1, <1>t DEF ClusterDown
  <2>2. outages' # 0
    BY <2>1
  <2> QED BY <1>c, <2>1, <2>2 DEF ConnectInv, DropsOnlyAtShutdown
<1>2. CASE ClusterUp
  <2>1. up' /\ UNCHANGED <<root, main, gone, outages, connected, flusher>>
    BY <1>2 DEF ClusterUp
  <2> QED BY <1>c, <2>1 DEF ConnectInv, DropsOnlyAtShutdown, Excused
<1>3. ASSUME NEW l \in Layers, Collect(l) \/ LayerStep(l) PROVE ConnectInv'
  <2>1. UNCHANGED <<up, outages, connected, root, main, flusher>>
    BY <1>3 DEF Collect, LayerStep, SendFails, SendTaken, SendRejected, Write, SendRaw
  <2>2. gone' = gone \/ gone' = gone \cup {<<Current(l), "rejected">>}
    BY <1>3 DEF Collect, LayerStep, SendFails, SendTaken, SendRejected, Write, SendRaw
  <2>3. \A g \in gone' \ gone : g[2] \notin {"dropped", "unsent"}
    BY <2>2
  <2> QED BY <1>l, <2>1, <2>3
<1>4. CASE MetalStep
  BY <1>4, <1>l DEF MetalStep, SampleOut, PassGate, SendLive
<1>5. ASSUME NEW l \in Layers, LayerStops(l) PROVE ConnectInv'
  BY <1>5, <1>l DEF LayerStops, Excused
<1>6. ASSUME NEW f \in Flushers, FlushNext(f) \/ FlushQueue(f) PROVE ConnectInv'
  <2>1. ~Rest(flusher) /\ UNCHANGED <<up, outages, connected, root, main, gone>>
    BY <1>6 DEF FlushNext, FlushQueue
  <2> QED BY <1>f, <2>1
<1>7. ASSUME NEW f \in Flushers, FlushBreaks(f) PROVE ConnectInv'
  <2>1. Excused
    BY <1>c, <1>7 DEF FlushBreaks
  <2>2. UNCHANGED <<up, outages, connected, root, main>>
    BY <1>7 DEF FlushBreaks
  <2>3. DropsOnlyAtShutdown'
    BY <1>c, <2>1, <2>2, DropStep DEF Excused
  <2> QED BY <1>c, <2>1, <2>2, <2>3 DEF ConnectInv, Excused
<1>8. CASE LoopTick
  <2>1. CASE connected
    BY <1>8, <1>f, <2>1 DEF LoopTick
  <2>2. CASE ~connected
    <3>1. flusher' = [flusher EXCEPT !["loop"] = "connecting"]
      BY <1>8, <2>2 DEF LoopTick
    <3>2. Rest(flusher) => Rest(flusher')
      BY <1>t, <3>1 DEF Flushers
    <3> QED BY <1>8, <1>f, <3>2 DEF LoopTick
  <2> QED BY <2>1, <2>2
<1>9. CASE LoopConnect
  <2>1. /\ UNCHANGED <<up, outages, root, main, gone>> /\ connected' = up
        /\ flusher' = [flusher EXCEPT !["loop"] = IF up THEN "register" ELSE "idle"]
    BY <1>9 DEF LoopConnect
  <2>2. DropsOnlyAtShutdown'
    BY <1>c, <2>1 DEF DropsOnlyAtShutdown
  <2>3. CASE up
    BY <1>c, <2>1, <2>2, <2>3 DEF ConnectInv
  <2>4. CASE ~up
    <3>1. Rest(flusher) => Rest(flusher')
      BY <1>t, <2>1, <2>4 DEF Flushers
    <3>2. Excused \/ ~connected
      BY <1>c, <1>t, <2>4 DEF Excused
    <3> QED BY <1>c, <2>1, <2>2, <2>4, <3>1, <3>2 DEF ConnectInv, Excused
  <2> QED BY <2>3, <2>4
<1>10. CASE LoopRegister
  <2>1. ~Rest(flusher) /\ UNCHANGED <<up, outages, connected, root, main, gone>>
    BY <1>10 DEF LoopRegister
  <2> QED BY <1>f, <2>1
<1>11. CASE LoopStops \/ HeartbeatStep
  <2>1. Rest(flusher) => Rest(flusher')
    BY <1>11, <1>t DEF LoopStops, HeartbeatStep, HeartbeatEnds, HeartbeatStops, Flushers
  <2> QED BY <1>11, <1>f, <2>1 DEF LoopStops, HeartbeatStep, HeartbeatEnds, HeartbeatStops
<1>12. CASE Heartbeat \/ Register
  BY <1>12, <1>f DEF Heartbeat, Register
<1>13. CASE FlushBufferCommand \/ UploadBacklogCommand
  <2>1. ~Rest(flusher) /\ UNCHANGED <<up, outages, connected, root, main, gone>>
    BY <1>13 DEF FlushBufferCommand, UploadBacklogCommand, CommandArrives
  <2> QED BY <1>f, <2>1
<1>14. CASE DeleteBacklogCommand
  <2>1. \A g \in gone' \ gone : g[2] \notin {"dropped", "unsent"}
    BY <1>14 DEF DeleteBacklogCommand
  <2> QED BY <1>14, <1>l, <2>1 DEF DeleteBacklogCommand
<1>15. CASE RetireCommand \/ IdentityCommand \/ \E pause, rate \in BOOLEAN : FlowSignal(pause, rate)
  BY <1>15, <1>f DEF RetireCommand, IdentityCommand, FlowSignal
<1>16. CASE CtrlC \/ ShutdownBegin \/ ShutdownFlush \/ ShutdownDisconnect
  <2>1. root' /\ UNCHANGED <<outages, gone, up>> /\ (connected' => connected)
    BY <1>16, <1>c DEF CtrlC, ShutdownBegin, ShutdownFlush, ShutdownDisconnect
  <2> QED BY <1>c, <2>1 DEF ConnectInv, DropsOnlyAtShutdown
<1>17. CASE Exit
  <2>1. root' /\ ~connected'
    BY <1>17, <1>c DEF Exit
  <2> QED BY <2>1 DEF ConnectInv, DropsOnlyAtShutdown
<1>18. CASE Ended \/ UNCHANGED vars
  BY <1>18, <1>f DEF Ended, vars
<1> QED BY <1>1, <1>2, <1>3, <1>4, <1>5, <1>6, <1>7, <1>8, <1>9, <1>10, <1>11, <1>12,
           <1>13, <1>14, <1>15, <1>16, <1>17, <1>18
        DEF Next, FlushStep, LoopStep, Command, ShutdownStep

(***************************************************************************)
(* The theorems.                                                           *)
(***************************************************************************)

\* The agent starts with every task at rest and nothing collected.
LEMMA DeliveryInit == Init => WorkInv /\ Accounted /\ OwnerInv /\ ConnectInv
<1> SUFFICES ASSUME Init PROVE WorkInv /\ Accounted /\ OwnerInv /\ ConnectInv
  OBVIOUS
<1>1. TypeOK
  <2>1. {up, connected, registered, valid, paused, sampling, cancelled, root} \subseteq BOOLEAN
    BY DEF Init
  <2>2. buffer \in Seq(Item) /\ batch \in [Flushers -> Seq(Item)]
    BY EmptySet DEF Init
  <2> QED BY <2>1, <2>2, BoundAssumption DEF Init, TypeOK
<1>2. BusyInv
  BY DEF Init, BusyInv, Flushers
<1>3. Collected = {}
  BY DEF Init, Collected, Item
<1>4. Accounted
  BY <1>3 DEF Accounted
<1>5. \A p \in Queues : Queue(p) = <<>>
  BY DEF Init, Queue, Queues
<1>6. OwnerInv
  BY <1>5, EmptySet DEF OwnerInv
<1>7. ConnectInv
  <2>1. connected => up
    BY DEF Init
  <2>2. \A f \in Flushers : flusher[f] = "idle"
    BY DEF Init
  <2> QED BY <2>1, <2>2 DEF Init, ConnectInv, DropsOnlyAtShutdown, Flushers
<1> QED BY <1>1, <1>2, <1>4, <1>6, <1>7 DEF WorkInv

\* Types are kept by every task of the agent (communication/mod.rs), and a task
\* holds drained entries exactly while it sends them, for every number of
\* items, outages and commands and every capacity of the raw channel.
THEOREM DeliveryTypes == Spec => [](TypeOK /\ BusyInv)
<1>1. Init => WorkInv
  BY DeliveryInit
<1>2. WorkInv /\ [Next]_vars => WorkInv'
  BY WorkStep
<1>3. WorkInv <=> TypeOK /\ BusyInv
  BY DEF WorkInv
<1> QED BY <1>1, <1>2, <1>3, PTL DEF Spec

\* The types alone.
THEOREM DeliveryTypeCorrect == Spec => []TypeOK
BY DeliveryTypes, PTL

\* No collected item disappears: whatever the RPCs, the flushes, the commands
\* and the shutdown do, it was taken by the cluster, was given up for a named
\* reason or is still held by someone.
THEOREM ItemsAccounted == Spec => []Accounted
<1>1. Init => WorkInv /\ Accounted
  BY DeliveryInit
<1>2. WorkInv /\ Accounted /\ [Next]_vars => WorkInv' /\ Accounted'
  BY WorkStep, AccountedStep
<1> QED BY <1>1, <1>2, PTL DEF Spec

\* The buffer and the four flushing tasks never hold the same item twice: the
\* drains of concurrent flushes are disjoint.
THEOREM OneOwnerCorrect == Spec => []OneOwner
<1>1. Init => WorkInv /\ OwnerInv
  BY DeliveryInit
<1>2. WorkInv /\ OwnerInv /\ [Next]_vars => WorkInv' /\ OwnerInv'
  BY WorkStep, OwnerStep
<1> QED BY <1>1, <1>2, OwnerOne, PTL DEF Spec

\* Without a shutdown and without an outage no item is dropped: every flush
\* is started by a task that is connected.
THEOREM DropsCorrect == Spec => []DropsOnlyAtShutdown
<1>1. Init => WorkInv /\ ConnectInv
  BY DeliveryInit
<1>2. WorkInv /\ ConnectInv /\ [Next]_vars => WorkInv' /\ ConnectInv'
  BY WorkStep, ConnectStep
<1>3. ConnectInv => DropsOnlyAtShutdown
  BY DEF ConnectInv
<1> QED BY <1>1, <1>2, <1>3, PTL DEF Spec
=============================================================================
