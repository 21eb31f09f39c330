-------------------------- MODULE NetworkObserver --------------------------
(***************************************************************************)
(* The network observer of the agent (ebpf/mod.rs, ebpf/loader.rs): it     *)
(* loads the programs of TcpTracker and FlowProbes while the kernel runs,  *)
(* then polls their ring buffers, drains the trackers and hands the batch  *)
(* to the client, in one task of a thread of its own.                      *)
(*                                                                         *)
(* pc is where the task is.  It gives way only in the await of the send    *)
(* and of the sleep; only there a cancelled token ends it, which drops the *)
(* programs.  The client either delivers a batch or puts it into the edge  *)
(* buffer, so the hand-over does not fail.  A poll of a ring buffer runs   *)
(* the callback until the ring is empty.                                   *)
(***************************************************************************)
EXTENDS TcpTracker, FlowProbes

CONSTANT
    Configs   \* the sets of layers that the configuration may enable

ASSUME ConfigsAssumption == Configs \subseteq SUBSET {"tcp", "dns", "http"}

VARIABLES
    enabled,   \* the layers that the configuration enables
    polled,    \* the layers whose ring buffer could be set up
    pc,
    batch,     \* all_events: the state of each socket, and the other events
    sent       \* what the last batch that had the socket said of it

loopVars == <<enabled, polled, pc, batch, sent>>
observerVars == <<vars, flowVars, loopVars>>

Loading == {"load_tcp", "load_dns", "load_http"}
PCs == Loading \cup {"setup", "poll_tcp", "poll_dns", "poll_http", "drain", "send",
                     "sleep", "proc", "failed", "stopped"}

NoBatch == [tcp |-> [s \in Sockets |-> Nothing], dns |-> {}, http |-> <<>>]

ObserverInit ==
    /\ Init /\ FlowInit
    /\ enabled \in Configs /\ polled = {}
    /\ pc = "load_tcp" /\ batch = NoBatch
    /\ sent = [s \in Sockets |-> Nothing]

Goto(from, to) == pc = from /\ pc' = to

-----------------------------------------------------------------------------
(* Loading.                                                                *)

\* load_program of tcp_tracker: its probes are attached one after the other.
LoadTcp ==
    /\ pc = "load_tcp"
    /\ \/ /\ "tcp" \in enabled /\ Attach
          /\ pc' = IF todo' = <<>> THEN "load_dns" ELSE pc
       \/ /\ "tcp" \notin enabled /\ pc' = "load_dns" /\ UNCHANGED vars
    /\ UNCHANGED <<flowVars, enabled, polled, batch, sent>>

\* load_program of a program with one probe.
LoadFlow(layer, from, to) ==
    /\ Goto(from, to)
    /\ \/ layer \in enabled /\ probing' = probing \cup {layer}
       \/ (layer \notin enabled \/ MayFail) /\ probing' = probing
    /\ UNCHANGED <<vars, dns_events, http_events, cache, events, sends, enabled, polled, batch,
                   sent>>

LoadDns == LoadFlow("dns", "load_dns", "load_http")
\* Without any object the observer goes over to /proc.
LoadHttp == LoadFlow("http", "load_http", IF enabled = {} THEN "proc" ELSE "setup")

\* The future, or what load() has made so far, is dropped.
Drop ==
    /\ Detach
    /\ probing' = {} /\ dns_events' = <<>> /\ http_events' = <<>>
    /\ cache' = {} /\ events' = <<>>
    /\ batch' = NoBatch /\ UNCHANGED <<sends, enabled, polled, sent>>

\* The capability check, or the loading of an object, fails: load() returns
\* the error and run_ebpf with it.
LoadFails ==
    /\ \/ pc = "load_tcp" /\ todo = Probes
       \/ pc = "load_dns" /\ "dns" \in enabled
       \/ pc = "load_http" /\ "http" \in enabled
    /\ pc' = "failed"
    /\ Drop

\* setup_ring_buffer for every object; a failure is logged.
Setup ==
    /\ Goto("setup", "poll_tcp")
    /\ polled' \in IF MayFail THEN SUBSET enabled ELSE {enabled}
    /\ UNCHANGED <<vars, flowVars, enabled, batch, sent>>

-----------------------------------------------------------------------------
(* The loop.                                                               *)

Unlooped == UNCHANGED <<enabled, polled, batch, sent>>

PollTcp ==
    /\ \/ "tcp" \in polled /\ handle_tcp_event /\ Goto("poll_tcp", "poll_tcp")
       \/ /\ "tcp" \in polled => tcp_events = <<>>
          /\ Goto("poll_tcp", "poll_dns") /\ UNCHANGED vars
    /\ UNCHANGED flowVars /\ Unlooped

PollDns ==
    /\ \/ "dns" \in polled /\ handle_dns_event /\ Goto("poll_dns", "poll_dns")
       \/ /\ "dns" \in polled => dns_events = <<>>
          /\ Goto("poll_dns", "poll_http") /\ UNCHANGED flowVars
    /\ UNCHANGED vars /\ Unlooped

PollHttp ==
    /\ \/ "http" \in polled /\ handle_http_event /\ Goto("poll_http", "poll_http")
       \/ /\ "http" \in polled => http_events = <<>>
          /\ Goto("poll_http", "drain") /\ UNCHANGED flowVars
    /\ UNCHANGED vars /\ Unlooped

Report(s) == IF s \in Pending THEN connections[s].state ELSE Nothing

\* The three drains, and the batch of what they return.
Drain ==
    /\ drain_events /\ drain_flows
    /\ batch' = [tcp |-> [s \in Sockets |-> Report(s)], dns |-> cache', http |-> events]
    /\ Goto("drain", IF batch' = NoBatch THEN "sleep" ELSE "send")
    /\ UNCHANGED <<enabled, polled, sent>>

\* Mutant: what arrives during the send is thrown away.
SendDiscards ==
    /\ Goto("send", "sleep")
    /\ tcp_events' = <<>>
    /\ sent' = [s \in Sockets |-> IF batch.tcp[s] # Nothing THEN batch.tcp[s] ELSE sent[s]]
    /\ batch' = NoBatch
    /\ UNCHANGED <<sk, conn, todo, attached, connect_info, connections, shown, opener, result,
                   told, unseen, lost, flowVars, enabled, polled>>

\* send_network_events_proto returns.
SendBatch ==
    /\ Goto("send", "sleep")
    /\ sent' = [s \in Sockets |-> IF batch.tcp[s] # Nothing THEN batch.tcp[s] ELSE sent[s]]
    /\ batch' = NoBatch
    /\ UNCHANGED <<vars, flowVars, enabled, polled>>

Wake ==
    /\ Goto("sleep", "poll_tcp")
    /\ UNCHANGED <<vars, flowVars>> /\ Unlooped

\* The token is cancelled: select! drops the future where it waits.
Cancel ==
    /\ pc \in {"send", "sleep", "proc"} \/ (pc = "load_tcp" /\ todo = Probes)
    /\ pc' = "stopped"
    /\ Drop

-----------------------------------------------------------------------------
KernelStep == Kernel /\ UNCHANGED <<flowVars, loopVars>>

Send ==
    /\ \E port \in Ports : handle_udp_sendmsg(port) \/ handle_tcp_sendmsg(port)
    /\ UNCHANGED <<vars, loopVars>>

Loop == PollTcp \/ PollDns \/ PollHttp \/ Drain \/ SendBatch \/ Wake

ObserverNext ==
    \/ LoadTcp \/ LoadDns \/ LoadHttp \/ LoadFails \/ Setup
    \/ Loop \/ Cancel
    \/ KernelStep \/ Send

ObserverSpec == ObserverInit /\ [][ObserverNext]_observerVars

\* The thread of the observer runs its loop; a batch is handed over because
\* the connection has a timeout of 60 s for every request.
FairObserver == ObserverSpec /\ WF_observerVars(Loop)

-----------------------------------------------------------------------------
(* Properties.                                                             *)

ObserverTypeOK ==
    /\ TypeOK /\ FlowTypeOK
    /\ enabled \in Configs /\ polled \subseteq enabled /\ pc \in PCs
    /\ batch \in [tcp : [Sockets -> Names \cup {Nothing}], dns : SUBSET Texts,
                  http : Seq(HttpEvents)]
    /\ sent \in [Sockets -> Names \cup {Nothing}]

ClosedName == tcp_state_name(TCP_CLOSE)

\* Over all batches, a connection that was reported closed is never reported
\* in another state again (handle_tcp_set_state and handle_tcp_v4_connect_ret
\* in two threads, handle_tcp_event, drain_events, run_ebpf).
ClosedStaysClosed ==
    [][\A s \in Sockets : sent[s] = ClosedName => sent'[s] = ClosedName]_sent

\* The close of a connection reaches a batch that is handed over, unless the
\* ring was full, the probe was not attached or the observer is gone
\* (handle_tcp_set_state to run_ebpf).
CloseReported ==
    \A s \in Sockets \ Excluded :
        (sk[s] = TCP_CLOSE /\ "tcp" \in polled)
            ~> (sent[s] = ClosedName \/ s \in lost)

(* What comments say and the code does not keep.                           *)

\* "Falls back to /proc polling if no programs can be loaded".
FallsBack == pc # "failed"

\* "Actual payload parsing (method, path, SNI) is handled by the Rust userspace
\* consumer": a request that the probe has seen is queued or the observer ends.
FlowReported ==
    (http_events # <<>> /\ "http" \in polled)
        ~> (events # <<>> \/ pc \in {"failed", "stopped"})
=============================================================================
