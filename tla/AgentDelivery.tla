--------------------------- MODULE AgentDelivery ---------------------------
(***************************************************************************)
(* How the agent gets what it collects to the cluster                      *)
(* (agent/src/communication/mod.rs and grpc_client.rs), from the first     *)
(* connection to the end of the process (agent/src/main.rs).               *)
(*                                                                         *)
(* Three collection layers hand items to the client: `metal` through       *)
(* send_metrics, `net` through send_network_events_proto, `events` through *)
(* send_events (send_traces and send_network_events do the same).  What    *)
(* cannot be sent goes to the edge buffer, whose inner working is module   *)
(* EdgeBuffer; here it is the sequence of its entries.  Four tasks flush   *)
(* it: the reconnection loop, the FlushBuffer command, the task spawned by *)
(* UploadBacklog and the shutdown.  A flush sends over a raw byte channel  *)
(* (an mpsc channel of RawCap slots) that no task ever reads.              *)
(*                                                                         *)
(* An action is what a task does between two awaits that can really wait:  *)
(* a full channel, an RPC, a sleep, the loop's select.                     *)
(***************************************************************************)
EXTENDS Integers, Sequences, FiniteSets, SequencesExt

CONSTANTS
    Layers,      \* the collection layers that are enabled
    MaxItems,    \* bound: items each layer collects
    RawCap,      \* capacity of the mpsc channel of GrpcClient::new
    MaxOutages,  \* bound: times the cluster becomes unreachable
    MaxCommands  \* bound: commands the cluster sends

ASSUME LayersAssumption == Layers \subseteq {"metal", "net", "events"}
ASSUME BoundAssumption ==
    /\ MaxItems \in Nat /\ RawCap \in Nat
    /\ MaxOutages \in Nat /\ MaxCommands \in Nat

VARIABLES
    up,          \* whether the cluster is reachable
    outages,     \* how often it became unreachable
    connected,   \* GrpcClient.state = Connected (and the typed client exists)
    registered,  \* Client.registered
    valid,       \* Client.identity_valid
    paused,      \* FlowControl.backpressure_active
    sampling,    \* whether FlowControl.sampling_rate is below 1.0
    buffer,      \* the entries of the edge buffer, oldest first
    raw,         \* items with a copy in the mpsc channel of the GrpcClient
    rawLen,      \* how many messages that channel holds
    layer,       \* what each layer is about to do
    taken,       \* how many items each layer has collected
    joined,      \* layers whose task handle has finished
    flusher,     \* what each flushing task is about to do
    batch,       \* the drained entries a flushing task still has to send
    cancelled,   \* Client.cancel_token
    root,        \* the cancellation token of main
    main,        \* where main is
    commands,    \* how many commands the cluster has sent
    ingested,    \* ghost: items the cluster has taken
    gone         \* ghost: items that left the agent, with the reason

vars == <<up, outages, connected, registered, valid, paused, sampling, buffer,
          raw, rawLen, layer, taken, joined, flusher, batch, cancelled, root, main,
          commands, ingested, gone>>
netVars == <<up, outages, connected, registered>>
flagVars == <<valid, paused, sampling>>
flushVars == <<flusher, batch>>
rawVars == <<raw, rawLen>>
lifeVars == <<cancelled, root, main, commands, joined>>

-----------------------------------------------------------------------------
Item == Layers \X (1 .. MaxItems)
Flushers == {"loop", "command", "upload", "shutdown"}
Reasons == {"dropped", "unsent", "deleted", "rejected", "exit"}

\* The item a layer is working on.
Current(l) == <<l, taken[l]>>
Collected == {i \in Item : i[2] <= taken[i[1]]}
Left == {g[1] : g \in gone}

Init ==
    /\ up \in BOOLEAN /\ connected \in {FALSE, up} /\ outages = 0
    /\ registered = FALSE
    /\ valid \in BOOLEAN /\ paused = FALSE /\ sampling = FALSE
    /\ buffer = <<>> /\ raw = {} /\ rawLen = 0
    /\ layer = [l \in Layers |-> "idle"]
    /\ taken = [l \in Layers |-> 0]
    /\ flusher = [f \in Flushers |-> "idle"]
    /\ batch = [f \in Flushers |-> <<>>]
    /\ cancelled = FALSE /\ root = FALSE /\ main = "running" /\ commands = 0
    /\ joined = {}
    /\ ingested = {} /\ gone = {}

-----------------------------------------------------------------------------
(* The network.                                                            *)

ClusterDown ==
    /\ up /\ outages < MaxOutages
    /\ up' = FALSE /\ outages' = outages + 1
    /\ UNCHANGED <<connected, registered, flagVars, buffer, rawVars, layer, taken,
                   flushVars, lifeVars, ingested, gone>>

ClusterUp ==
    /\ ~up
    /\ up' = TRUE
    /\ UNCHANGED <<outages, connected, registered, flagVars, buffer, rawVars,
                   layer, taken, flushVars, lifeVars, ingested, gone>>

-----------------------------------------------------------------------------
(* The collection layers.                                                  *)

Goto(l, where) == layer' = [layer EXCEPT ![l] = where]
BufferWrite(i) == buffer' = Append(buffer, i)

\* Mutant: the channel is taken to be unbounded.
RawSendUnbounded(i) == raw' = raw \cup {i} /\ rawLen' = rawLen + 1

\* tx.send(data).await: waits for a free slot.  No task receives from the
\* channel, so the order of its messages cannot be observed.
RawSend(i) ==
    /\ rawLen < RawCap
    /\ raw' = raw \cup {i} /\ rawLen' = rawLen + 1

\* A layer has collected the next item and calls the client.
Collect(l) ==
    /\ layer[l] = "idle" /\ taken[l] < MaxItems
    /\ taken' = [taken EXCEPT ![l] = @ + 1]
    /\ Goto(l, CASE l = "metal" -> "gate"
                 [] l = "net" -> "send"
                 [] l = "events" -> "write")
    /\ UNCHANGED <<netVars, flagVars, buffer, rawVars, flushVars, lifeVars,
                   ingested, gone>>

\* send_metrics under backpressure: the sampled-out item is buffered and the
\* call returns.
SampleOut ==
    /\ "metal" \in Layers /\ layer["metal"] = "gate"
    /\ paused /\ sampling
    /\ BufferWrite(Current("metal"))
    /\ Goto("metal", "idle")
    /\ UNCHANGED <<netVars, flagVars, rawVars, taken, flushVars, lifeVars,
                   ingested, gone>>

\* send_metrics past the sampling: the live send comes first when the
\* identity is valid (and the client is connected).
PassGate ==
    /\ "metal" \in Layers /\ layer["metal"] = "gate"
    /\ Goto("metal", IF valid /\ connected THEN "live" ELSE "send")
    /\ UNCHANGED <<netVars, flagVars, buffer, rawVars, taken, flushVars, lifeVars,
                   ingested, gone>>

\* The live send; its result is only logged.
SendLive ==
    /\ "metal" \in Layers /\ layer["metal"] = "live"
    /\ RawSend(Current("metal"))
    /\ Goto("metal", "send")
    /\ UNCHANGED <<netVars, flagVars, buffer, taken, flushVars, lifeVars,
                   ingested, gone>>

\* Not connected, or the RPC failed before the cluster took the batch.
SendFails(l) ==
    /\ layer[l] = "send" /\ l \in {"metal", "net"}
    /\ Goto(l, "write")
    /\ UNCHANGED <<netVars, flagVars, buffer, rawVars, taken, flushVars, lifeVars,
                   ingested, gone>>

\* The cluster takes the item; the answer reaches the agent or is lost.
SendTaken(l, answered) ==
    /\ layer[l] = "send" /\ l \in {"metal", "net"}
    /\ connected /\ up
    /\ ingested' = ingested \cup {Current(l)}
    /\ Goto(l, IF answered THEN "idle" ELSE "write")
    /\ UNCHANGED <<netVars, flagVars, buffer, rawVars, taken, flushVars, lifeVars,
                   gone>>

\* Mutant: the rejected batch is logged and forgotten.
SendRejectedForgets(l) ==
    /\ layer[l] = "send" /\ l \in {"metal", "net"}
    /\ connected /\ up
    /\ Goto(l, "idle")
    /\ UNCHANGED <<netVars, flagVars, buffer, rawVars, taken, flushVars, lifeVars,
                   ingested, gone>>

\* The cluster answers that it did not take it.  send_metrics then buffers the
\* batch; send_network_events_proto only logs rejected_count and returns.
SendRejected(l) ==
    /\ layer[l] = "send" /\ l \in {"metal", "net"}
    /\ connected /\ up
    /\ IF l = "metal"
         THEN Goto(l, "write") /\ UNCHANGED gone
         ELSE Goto(l, "idle") /\ gone' = gone \cup {<<Current(l), "rejected">>}
    /\ UNCHANGED <<netVars, flagVars, buffer, rawVars, taken, flushVars, lifeVars,
                   ingested>>

\* The item goes to the edge buffer; send_events then also tries the channel.
Write(l) ==
    /\ layer[l] = "write"
    /\ BufferWrite(Current(l))
    /\ Goto(l, IF l = "events" /\ connected THEN "raw" ELSE "idle")
    /\ UNCHANGED <<netVars, flagVars, rawVars, taken, flushVars, lifeVars,
                   ingested, gone>>

\* send_events, second half: its copy waits for a slot of the channel.
SendRaw(l) ==
    /\ layer[l] = "raw"
    /\ RawSend(Current(l))
    /\ Goto(l, "idle")
    /\ UNCHANGED <<netVars, flagVars, buffer, taken, flushVars, lifeVars,
                   ingested, gone>>

\* main's token is cancelled: the select drops the layer's future wherever it
\* waits, and with it the item it was working on.  The supervisor's select
\* drops only the wait for the tasks it has spawned: those go on.
LayerStops(l) ==
    /\ root /\ l \notin joined
    /\ joined' = joined \cup {l}
    /\ IF l = "events"
         THEN UNCHANGED <<layer, gone>>
         ELSE /\ Goto(l, "stopped")
              /\ gone' = IF layer[l] = "idle" \/ Current(l) \in ingested
                           THEN gone
                           ELSE gone \cup {<<Current(l), "dropped">>}
    /\ UNCHANGED <<netVars, flagVars, buffer, rawVars, taken, flushVars, cancelled,
                   root, main, commands, ingested>>

-----------------------------------------------------------------------------
(* Flushing: flush_buffer and upload_backlog_stream.                       *)

\* Mutant: the drain copies the entries and leaves them in the buffer.
DrainCopies(f) ==
    /\ batch' = [batch EXCEPT ![f] = buffer]
    /\ UNCHANGED buffer
    /\ flusher' = [flusher EXCEPT ![f] = IF buffer = <<>> THEN "idle" ELSE "next"]

\* buffer.drain(): the task now holds every entry.
Drain(f) ==
    /\ batch' = [batch EXCEPT ![f] = buffer]
    /\ buffer' = <<>>
    /\ flusher' = [flusher EXCEPT ![f] = IF buffer = <<>> THEN "idle" ELSE "next"]

\* The loop over the entries: each needs the client to be connected.
FlushNext(f) ==
    /\ flusher[f] = "next" /\ connected
    /\ flusher' = [flusher EXCEPT ![f] = "queue"]
    /\ UNCHANGED <<netVars, flagVars, buffer, rawVars, layer, taken, batch,
                   lifeVars, ingested, gone>>

FlushQueue(f) ==
    /\ flusher[f] = "queue"
    /\ RawSend(Head(batch[f]))
    /\ batch' = [batch EXCEPT ![f] = Tail(@)]
    /\ flusher' = [flusher EXCEPT ![f] = IF Len(batch[f]) = 1 THEN "idle" ELSE "next"]
    /\ UNCHANGED <<netVars, flagVars, buffer, layer, taken, lifeVars, ingested,
                   gone>>

\* A send fails: "stopping flush".  The rest of the drained entries is dropped.
FlushBreaks(f) ==
    /\ flusher[f] = "next" /\ ~connected
    /\ gone' = gone \cup {<<i, "unsent">> : i \in ToSet(batch[f])}
    /\ batch' = [batch EXCEPT ![f] = <<>>]
    /\ flusher' = [flusher EXCEPT ![f] = "idle"]
    /\ UNCHANGED <<netVars, flagVars, buffer, rawVars, layer, taken, lifeVars,
                   ingested>>

-----------------------------------------------------------------------------
(* The reconnection loop and the registration loop.                        *)

\* Mutant: the loop flushes before it looks at the connection.
LoopTickFlushesFirst ==
    /\ flusher["loop"] = "idle" /\ ~cancelled
    /\ Drain("loop")
    /\ UNCHANGED <<netVars, flagVars, rawVars, layer, taken, lifeVars, ingested,
                   gone>>

\* Mutant: a connected client just continues.
LoopTickNoFlush ==
    /\ flusher["loop"] = "idle" /\ ~cancelled /\ ~connected
    /\ flusher' = [flusher EXCEPT !["loop"] = "connecting"]
    /\ UNCHANGED <<netVars, flagVars, rawVars, layer, taken, lifeVars, ingested,
                   gone, buffer, batch>>

\* Every 5 seconds: flush when connected and registered, else reconnect.  A
\* client that is connected but not registered does nothing in this round.
LoopTick ==
    /\ flusher["loop"] = "idle" /\ ~cancelled
    /\ IF connected
         THEN registered /\ Drain("loop")
         ELSE /\ flusher' = [flusher EXCEPT !["loop"] = "connecting"]
              /\ UNCHANGED <<buffer, batch>>
    /\ UNCHANGED <<netVars, flagVars, rawVars, layer, taken, lifeVars, ingested, gone>>

\* ReconnectionEngine::reconnect, after the delay: one attempt to connect.
LoopConnect ==
    /\ flusher["loop"] = "connecting"
    /\ connected' = up
    /\ flusher' = [flusher EXCEPT !["loop"] = IF up THEN "register" ELSE "idle"]
    /\ UNCHANGED <<up, outages, registered, flagVars, buffer, rawVars, layer, taken,
                   batch, lifeVars, ingested, gone>>

\* Re-registration is best effort; the flush follows in any case.
LoopRegister ==
    /\ flusher["loop"] = "register"
    /\ registered' \in {registered, registered \/ (up /\ connected)}
    /\ Drain("loop")
    /\ UNCHANGED <<up, outages, connected, flagVars, rawVars, layer, taken, lifeVars,
                   ingested, gone>>

LoopStops ==
    /\ flusher["loop"] = "idle" /\ cancelled
    /\ flusher' = [flusher EXCEPT !["loop"] = "stopped"]
    /\ UNCHANGED <<netVars, flagVars, buffer, rawVars, layer, taken, batch, lifeVars,
                   ingested, gone>>

\* start_registration_loop: register_on_connect succeeds.
Register ==
    /\ ~registered /\ connected /\ up
    /\ registered' = TRUE
    /\ UNCHANGED <<up, outages, connected, flagVars, buffer, rawVars, layer, taken,
                   flushVars, lifeVars, ingested, gone>>

-----------------------------------------------------------------------------
(* The heartbeat loop, and the commands its answers carry.                 *)

Heartbeat ==
    /\ flusher["command"] = "idle" /\ ~cancelled /\ connected
    /\ flusher' = [flusher EXCEPT !["command"] = "asking"]
    /\ UNCHANGED <<netVars, flagVars, buffer, rawVars, layer, taken, batch, lifeVars,
                   ingested, gone>>

\* Mutant: a heartbeat that is not answered is not given up.
HeartbeatEndsAnswered ==
    /\ flusher["command"] = "asking" /\ up
    /\ flusher' = [flusher EXCEPT !["command"] = "idle"]
    /\ UNCHANGED <<netVars, flagVars, buffer, rawVars, layer, taken, batch,
                   lifeVars, ingested, gone>>

\* No answer, or no (further) command in it.
HeartbeatEnds ==
    /\ flusher["command"] = "asking"
    /\ flusher' = [flusher EXCEPT !["command"] = "idle"]
    /\ UNCHANGED <<netVars, flagVars, buffer, rawVars, layer, taken, batch, lifeVars,
                   ingested, gone>>

HeartbeatStops ==
    /\ flusher["command"] = "idle" /\ cancelled
    /\ flusher' = [flusher EXCEPT !["command"] = "stopped"]
    /\ UNCHANGED <<netVars, flagVars, buffer, rawVars, layer, taken, batch, lifeVars,
                   ingested, gone>>

CommandArrives ==
    /\ flusher["command"] = "asking" /\ up /\ commands < MaxCommands
    /\ commands' = commands + 1

FlushBufferCommand ==
    /\ CommandArrives
    /\ Drain("command")
    /\ UNCHANGED <<netVars, flagVars, rawVars, layer, taken, cancelled, root, main,
                   joined, ingested, gone>>

\* The spawned task is not bound to the loop that received the command.  (One
\* upload at a time: a bound of the model.)
UploadBacklogCommand ==
    /\ CommandArrives
    /\ flusher["upload"] = "idle"
    /\ Drain("upload")
    /\ UNCHANGED <<netVars, flagVars, rawVars, layer, taken, cancelled, root, main,
                   joined, ingested, gone>>

DeleteBacklogCommand ==
    /\ CommandArrives
    /\ buffer' = <<>>
    /\ gone' = gone \cup {<<i, "deleted">> : i \in ToSet(buffer)}
    /\ UNCHANGED <<netVars, flagVars, rawVars, layer, taken, flushVars, cancelled,
                   root, main, joined, ingested>>

\* Retire and Blacklist cancel the client's token, and nothing else.
RetireCommand ==
    /\ CommandArrives
    /\ cancelled' = TRUE
    /\ UNCHANGED <<netVars, flagVars, buffer, rawVars, layer, taken, flushVars, root,
                   main, joined, ingested, gone>>

\* AssignIdentity and Unpair, as far as the send paths see them.
IdentityCommand ==
    /\ CommandArrives
    /\ valid' = ~valid
    /\ UNCHANGED <<netVars, paused, sampling, buffer, rawVars, layer, taken,
                   flushVars, cancelled, root, main, joined, ingested, gone>>

\* A FlowControl message on the stream.  apply_server_signal: pause = TRUE
\* sets the flag, FALSE leaves it.
FlowSignal(pause, rate) ==
    /\ ~cancelled /\ connected /\ up /\ commands < MaxCommands
    /\ commands' = commands + 1
    /\ paused' = (paused \/ pause) /\ sampling' = rate
    /\ UNCHANGED <<netVars, valid, buffer, rawVars, layer, taken, flushVars,
                   cancelled, root, main, joined, ingested, gone>>

-----------------------------------------------------------------------------
(* main: Ctrl+C, Client::shutdown, the end of the process.                 *)

CtrlC ==
    /\ ~root /\ root' = TRUE
    /\ UNCHANGED <<netVars, flagVars, buffer, rawVars, layer, taken, flushVars,
                   cancelled, main, commands, joined, ingested, gone>>

\* shutdown(): cancel the loops, then wait 100 ms.
ShutdownBegin ==
    /\ root /\ main = "running"
    /\ cancelled' = TRUE /\ main' = "grace"
    /\ UNCHANGED <<netVars, flagVars, buffer, rawVars, layer, taken, flushVars, root,
                   commands, joined, ingested, gone>>

ShutdownFlush ==
    /\ main = "grace"
    /\ main' = "flush"
    /\ IF connected THEN Drain("shutdown") ELSE UNCHANGED <<buffer, flushVars>>
    /\ UNCHANGED <<netVars, flagVars, rawVars, layer, taken, cancelled, root,
                   commands, joined, ingested, gone>>

\* Mutant: the disconnect waits for the cluster's answer.
ShutdownDisconnectAnswered ==
    /\ main = "flush" /\ flusher["shutdown"] = "idle" /\ up
    /\ connected' = FALSE /\ main' = "join"
    /\ UNCHANGED <<up, outages, registered, flagVars, buffer, rawVars, layer, taken,
                   flushVars, cancelled, root, commands, joined, ingested, gone>>

\* The flush is over: disconnect and close the buffer.
ShutdownDisconnect ==
    /\ main = "flush" /\ flusher["shutdown"] = "idle"
    /\ connected' = FALSE /\ main' = "join"
    /\ UNCHANGED <<up, outages, registered, flagVars, buffer, rawVars, layer, taken,
                   flushVars, cancelled, root, commands, joined, ingested, gone>>

\* Every layer's handle has been awaited: main returns and the process ends,
\* with every task and everything that is only in memory.
Exit ==
    /\ main = "join" /\ joined = Layers
    /\ main' = "exited"
    /\ gone' = gone \cup {<<i, "exit">> : i \in Collected \ (ingested \cup Left)}
    /\ buffer' = <<>> /\ raw' = {} /\ rawLen' = 0
    /\ batch' = [f \in Flushers |-> <<>>]
    /\ flusher' = [f \in Flushers |-> "stopped"]
    /\ layer' = [l \in Layers |-> "stopped"]
    /\ connected' = FALSE
    /\ UNCHANGED <<up, outages, registered, flagVars, taken, cancelled, root,
                   commands, joined, ingested>>

Ended == main = "exited" /\ UNCHANGED vars

-----------------------------------------------------------------------------
LayerStep(l) ==
    \/ SendFails(l)
    \/ \E answered \in BOOLEAN : SendTaken(l, answered)
    \/ SendRejected(l)
    \/ Write(l) \/ SendRaw(l)

MetalStep == SampleOut \/ PassGate \/ SendLive

FlushStep(f) == FlushNext(f) \/ FlushQueue(f) \/ FlushBreaks(f)

LoopStep == LoopTick \/ LoopConnect \/ LoopRegister \/ LoopStops

HeartbeatStep == HeartbeatEnds \/ HeartbeatStops

Command ==
    \/ FlushBufferCommand \/ UploadBacklogCommand \/ DeleteBacklogCommand
    \/ RetireCommand \/ IdentityCommand
    \/ \E pause, rate \in BOOLEAN : FlowSignal(pause, rate)

ShutdownStep == ShutdownBegin \/ ShutdownFlush \/ ShutdownDisconnect \/ Exit

Next ==
    \/ ClusterDown \/ ClusterUp
    \/ \E l \in Layers : Collect(l) \/ LayerStep(l) \/ LayerStops(l)
    \/ MetalStep
    \/ \E f \in Flushers : FlushStep(f)
    \/ LoopStep \/ Register
    \/ Heartbeat \/ HeartbeatStep \/ Command
    \/ CtrlC \/ ShutdownStep \/ Ended

\* The runtime keeps polling every task that can go on; an RPC ends (it has a
\* timeout), a select with a ready branch takes one.  Nothing is assumed of the
\* cluster, of its commands or of Ctrl+C.
Fairness ==
    /\ \A l \in Layers : WF_vars(LayerStep(l)) /\ WF_vars(LayerStops(l))
    /\ WF_vars(MetalStep)
    /\ \A f \in Flushers : WF_vars(FlushStep(f))
    /\ WF_vars(LoopStep) /\ WF_vars(HeartbeatStep)
    /\ WF_vars(ShutdownStep)

Spec == Init /\ [][Next]_vars
FairSpec == Spec /\ Fairness

\* A cluster that stays reachable accepts the registration at some point: the
\* registration loop never gives up.
AcceptingSpec == FairSpec /\ WF_vars(Register)

-----------------------------------------------------------------------------
(* Properties.                                                             *)

TypeOK ==
    /\ {up, connected, registered, valid, paused, sampling, cancelled, root}
         \subseteq BOOLEAN
    /\ buffer \in Seq(Item) /\ raw \subseteq Item /\ rawLen \in 0 .. RawCap
    /\ layer \in [Layers -> {"idle", "gate", "live", "send", "write", "raw",
                              "stopped"}]
    /\ taken \in [Layers -> 0 .. MaxItems] /\ joined \subseteq Layers
    /\ flusher \in [Flushers -> {"idle", "next", "queue", "connecting",
                                  "register", "asking", "stopped"}]
    /\ batch \in [Flushers -> Seq(Item)]
    /\ main \in {"running", "grace", "flush", "join", "exited"}
    /\ commands \in 0 .. MaxCommands /\ outages \in 0 .. MaxOutages
    /\ ingested \subseteq Item /\ gone \subseteq Item \X Reasons

\* The items that layers are working on.
InHand == {Current(l) : l \in {k \in Layers :
                                layer[k] \in {"gate", "live", "send", "write"}}}

\* Every item the agent has collected was taken by the cluster, was given up
\* for a known reason, or is still somewhere: with its layer, in the edge
\* buffer, with a task that drained it, or in the channel.  An RPC that fails,
\* is rejected or is answered too late must put its item into the buffer.
Accounted ==
    \A i \in Collected :
        \/ i \in ingested \cup Left \cup InHand
        \/ i \in ToSet(buffer) \cup raw
        \/ \E f \in Flushers : i \in ToSet(batch[f])

Copies(q, i) == Cardinality({n \in DOMAIN q : q[n] = i})

\* An item waiting to be flushed has one owner: the buffer or one of the four
\* flushing tasks, and once.  The drains of concurrent flushes are disjoint.
OneOwner ==
    \A i \in Item :
        Copies(buffer, i) + Copies(batch["loop"], i) + Copies(batch["command"], i)
          + Copies(batch["upload"], i) + Copies(batch["shutdown"], i) <= 1

\* As long as nobody stops the agent and the connection has never failed, no
\* collected item is thrown away: a flush is only ever started on a connected
\* client, whichever task starts it.
DropsOnlyAtShutdown ==
    (\E g \in gone : g[2] \in {"dropped", "unsent"}) => root \/ outages > 0

\* The inductive strengthening of TypeOK and Accounted: a layer at work has an
\* item, a layer that stopped has been joined, and a task holds drained entries
\* exactly while it sends them.  A task about to drain the buffer therefore
\* holds none that it would forget.
BusyInv ==
    /\ \A l \in Layers : layer[l] \notin {"idle", "stopped"} => taken[l] > 0
    /\ \A l \in Layers : layer[l] = "stopped" => l \in joined
    /\ \A f \in Flushers : batch[f] = <<>> <=> flusher[f] \notin {"next", "queue"}
    /\ main \in {"running", "grace"} => flusher["shutdown"] = "idle"

\* The inductive strengthening of OneOwner, for the buffer and the batches
\* alike: no queue holds an item twice or shares one with another, and none
\* has an item that its layer has yet to hand over.
Queues == Flushers \cup {"buffer"}
Queue(p) == IF p = "buffer" THEN buffer ELSE batch[p]

OwnerInv ==
    /\ \A p \in Queues : \A m, n \in DOMAIN Queue(p) : Queue(p)[m] = Queue(p)[n] => m = n
    /\ \A p, q \in Queues : p # q => ToSet(Queue(p)) \cap ToSet(Queue(q)) = {}
    /\ \A p \in Queues : ToSet(Queue(p)) \subseteq Collected \ InHand

\* The inductive strengthening of DropsOnlyAtShutdown: until the shutdown or
\* the first outage, whoever is about to drain the buffer, or has, is connected.
ConnectInv ==
    /\ main # "running" => root
    /\ outages = 0 /\ connected => up
    /\ \/ root \/ outages > 0 \/ connected
       \/ /\ flusher["loop"] # "register" /\ flusher["command"] # "asking"
          /\ \A f \in Flushers : flusher[f] \notin {"next", "queue"}
    /\ DropsOnlyAtShutdown

\* Ctrl+C ends the process (main.rs: "Initiating graceful shutdown").
ShutdownEnds == root ~> main = "exited"

\* Cancelling the client's token stops the reconnection and heartbeat loops,
\* wherever they are ("background tasks will stop"), unless the process ends
\* first.
LoopsStop ==
    cancelled ~> \/ main = "exited"
                 \/ flusher["loop"] = "stopped" /\ flusher["command"] = "stopped"

\* What is in the buffer is flushed, as long as the cluster is reachable and
\* the agent is not told to stop.
BufferFlushed ==
    \A i \in Item :
        i \in ToSet(buffer) ~> i \notin ToSet(buffer) \/ cancelled \/ ~up

\* The edge buffer is there "for zero data loss": an entry drained from it is
\* sent, or is put back.
ZeroLoss == \A g \in gone : g[2] # "unsent"

\* What grpc.send accepted is streamed to a cluster that stays reachable.
RawDelivered ==
    \A i \in Item : i \in raw ~> i \in ingested \/ ~up \/ root

\* A RETIRE command makes the agent shut down.
RetireEnds == cancelled ~> main = "exited"
=============================================================================
