------------------------ MODULE NetworkObserverProofs ------------------------
(***************************************************************************)
(* The observer, with its loader, its loop and its cancellation, is one of *)
(* the readers that TcpTracker allows: what is proved of the probes holds  *)
(* in the composed system.                                                 *)
(***************************************************************************)
EXTENDS NetworkObserver, TcpTrackerProofs

LEMMA ObserverStep == [ObserverNext]_observerVars => [Next]_vars
<1> SUFFICES ASSUME [ObserverNext]_observerVars PROVE [Next]_vars
  OBVIOUS
<1>1. CASE UNCHANGED observerVars
  BY <1>1 DEF observerVars
<1>2. CASE LoadTcp
  BY <1>2 DEF LoadTcp, Next
<1>3. CASE LoadDns \/ LoadHttp \/ Setup
  BY <1>3 DEF LoadDns, LoadHttp, LoadFlow, Setup
<1>4. CASE LoadFails \/ Cancel
  BY <1>4 DEF LoadFails, Cancel, Drop, Next
<1>5. CASE Loop
  <2>1. CASE PollTcp
    BY <2>1 DEF PollTcp, Next
  <2>2. CASE PollDns \/ PollHttp \/ SendBatch \/ Wake
    BY <2>2 DEF PollDns, PollHttp, SendBatch, Wake
  <2>3. CASE Drain
    BY <2>3 DEF Drain, Next
  <2> QED BY <1>5, <2>1, <2>2, <2>3 DEF Loop
<1>6. CASE KernelStep
  BY <1>6 DEF KernelStep, Next
<1>7. CASE Send
  BY <1>7 DEF Send
<1> QED BY <1>1, <1>2, <1>3, <1>4, <1>5, <1>6, <1>7 DEF ObserverNext

\* The loop of run_ebpf, load and the cancellation do to the probes, the ring
\* and the table only what TcpTracker allows, in every configuration.
THEOREM ObserverRefines == ObserverSpec => Spec
<1>1. ObserverInit => Init
  BY DEF ObserverInit
<1> QED BY <1>1, ObserverStep, PTL DEF ObserverSpec, Spec

\* So the probes pair calls correctly in the running agent too: an entry that
\* outlives its call is of a call whose return no probe saw (load_program,
\* run_ebpf, handle_tcp_v4_connect_ret).
THEOREM ObserverLeftovers == ObserverSpec => []LeftoversUnseen
BY ObserverRefines, OnlyUnseenLeft, PTL

\* And without fast open every connect event that the observer can read is true
\* (handle_tcp_event, handle_tcp_v4_connect_ret).
THEOREM ObserverConnects ==
    ASSUME FastOpen = FALSE
    PROVE  ObserverSpec => []ConnectTruthful
<1>1. Spec => []ConnectTruthful
  BY ConnectsCorrect
<1> QED BY <1>1, ObserverRefines, PTL

-----------------------------------------------------------------------------
(* The types of the observer.                                              *)

\* The types of what TcpTracker does not have.
LoopTypeOK ==
    /\ FlowTypeOK
    /\ enabled \in Configs /\ polled \subseteq enabled /\ pc \in PCs
    /\ batch \in [tcp : [Sockets -> Names \cup {Nothing}], dns : SUBSET Texts,
                  http : Seq(HttpEvents)]
    /\ sent \in [Sockets -> Names \cup {Nothing}]

\* An empty batch.
LEMMA NoBatchType ==
    /\ NoBatch \in [tcp : [Sockets -> Names \cup {Nothing}], dns : SUBSET Texts,
                    http : Seq(HttpEvents)]
    /\ NoBatch.tcp = [s \in Sockets |-> Nothing]
BY DEF NoBatch

\* The probes and the callbacks keep the types of the rings, the cache and the
\* queue: a placeholder is not cached, an event without payload is not queued.
LEMMA FlowTypes ==
    ASSUME FlowTypeOK,
           \/ \E port \in Ports : handle_udp_sendmsg(port) \/ handle_tcp_sendmsg(port)
           \/ handle_dns_event \/ handle_http_event \/ drain_flows
    PROVE  FlowTypeOK'
<1>0. /\ probing \subseteq {"dns", "http"}
      /\ dns_events \in Seq(DnsEvents) /\ http_events \in Seq(HttpEvents)
      /\ cache \subseteq Texts \ {no_domain, pending_domain}
      /\ events \in Seq({evt \in HttpEvents : evt.payload # NoPayload})
      /\ sends \in 0 .. MaxSends
  BY DEF FlowTypeOK
<1>m. MaxSends \in Nat
  BY FlowAssumption
<1>1. ASSUME NEW port \in Ports, handle_udp_sendmsg(port) PROVE FlowTypeOK'
  <2>1. [event_type |-> EVENT_DNS_QUERY, dst_port |-> port, domain |-> pending_domain] \in DnsEvents
    BY <1>1, TextsAssumption DEF handle_udp_sendmsg, DnsEvents
  <2>2. dns_events' \in Seq(DnsEvents)
    BY <1>0, <1>1, <2>1 DEF handle_udp_sendmsg, Submit
  <2>3. sends' \in 0 .. MaxSends
    BY <1>0, <1>m, <1>1 DEF handle_udp_sendmsg, CountSend
  <2> QED BY <1>0, <1>1, <2>2, <2>3 DEF handle_udp_sendmsg, FlowTypeOK
<1>2. ASSUME NEW port \in Ports, handle_tcp_sendmsg(port) PROVE FlowTypeOK'
  <2> DEFINE evt == [event_type |-> IF is_https_port(port) THEN EVENT_HTTPS_SNI
                                                          ELSE EVENT_HTTP_REQUEST,
                     dst_port |-> port, payload |-> NoPayload]
  <2>1. evt \in HttpEvents
    BY TextsAssumption DEF HttpEvents
  <2>2. http_events' = Submit(http_events, FlowRing, evt)
    BY <1>2 DEF handle_tcp_sendmsg
  <2> HIDE DEF evt
  <2>3. http_events' \in Seq(HttpEvents)
    BY <1>0, <2>1, <2>2 DEF Submit
  <2>4. sends' \in 0 .. MaxSends
    BY <1>0, <1>m, <1>2 DEF handle_tcp_sendmsg, CountSend
  <2> QED BY <1>0, <1>2, <2>3, <2>4 DEF handle_tcp_sendmsg, FlowTypeOK
<1>3. CASE handle_dns_event
  <2>1. Head(dns_events) \in DnsEvents /\ dns_events' \in Seq(DnsEvents)
    BY <1>0, <1>3 DEF handle_dns_event
  <2>2. Head(dns_events).domain \in Texts
    BY <2>1 DEF DnsEvents
  <2>3. cache' \subseteq Texts \ {no_domain, pending_domain}
    BY <1>0, <1>3, <2>2 DEF handle_dns_event, Cached
  <2> QED BY <1>0, <1>3, <2>1, <2>3 DEF handle_dns_event, FlowTypeOK
<1>4. CASE handle_http_event
  <2> DEFINE Q == {evt \in HttpEvents : evt.payload # NoPayload}
  <2>1. Head(http_events) \in HttpEvents /\ http_events' \in Seq(HttpEvents)
    BY <1>0, <1>4 DEF handle_http_event
  <2>2. CASE events' = events
    BY <1>0, <1>4, <2>1, <2>2 DEF handle_http_event, FlowTypeOK
  <2>3. CASE events' # events
    <3>1. Head(http_events) \in Q
      BY <1>4, <2>1, <2>3 DEF handle_http_event, Queued, Parses
    <3>2. events' = Append(IF Len(events) >= MaxEventQueue THEN Tail(events) ELSE events,
                           Head(http_events))
      BY <1>4, <2>3 DEF handle_http_event, Queued
    <3>3. events \in Seq(Q)
      BY <1>0
    <3> HIDE DEF Q
    <3>4. Len(events) >= MaxEventQueue => Tail(events) \in Seq(Q)
      <4>1. MaxEventQueue \in Nat \ {0}
        BY FlowAssumption
      <4> QED BY <3>3, <4>1
    <3>5. events' \in Seq(Q)
      BY <3>1, <3>2, <3>3, <3>4
    <3>6. FlowTypeOK'
      BY <1>0, <1>4, <2>1, <3>5 DEF handle_http_event, FlowTypeOK, Q
    <3> QED BY <3>6
  <2> QED BY <2>2, <2>3
<1>5. CASE drain_flows
  <2>1. events' \in Seq({evt \in HttpEvents : evt.payload # NoPayload})
    BY <1>5 DEF drain_flows
  <2>2. cache' \subseteq Texts \ {no_domain, pending_domain}
    BY <1>0, <1>5 DEF drain_flows
  <2> QED BY <1>0, <1>5, <2>1, <2>2 DEF drain_flows, FlowTypeOK
<1> QED BY <1>1, <1>2, <1>3, <1>4, <1>5

\* The places of the task.
LEMMA PCsType ==
    {"load_tcp", "load_dns", "load_http", "setup", "poll_tcp", "poll_dns", "poll_http", "drain",
     "send", "sleep", "proc", "failed", "stopped"} = PCs
BY DEF PCs, Loading

LEMMA LoopTypeStep ==
    TypeOK /\ LoopTypeOK /\ [ObserverNext]_observerVars => LoopTypeOK'
<1> SUFFICES ASSUME TypeOK, LoopTypeOK, [ObserverNext]_observerVars PROVE LoopTypeOK'
  OBVIOUS
<1> USE DEF flowVars
<1>0. /\ FlowTypeOK
      /\ enabled \in Configs /\ polled \subseteq enabled /\ pc \in PCs
      /\ batch \in [tcp : [Sockets -> Names \cup {Nothing}], dns : SUBSET Texts,
                    http : Seq(HttpEvents)]
      /\ sent \in [Sockets -> Names \cup {Nothing}]
  BY DEF LoopTypeOK
\* Steps outside the loop's own state.
<1>q. ASSUME UNCHANGED flowVars, UNCHANGED <<enabled, polled, batch, sent>>, pc' \in PCs
      PROVE  LoopTypeOK'
  BY <1>q, <1>0 DEF LoopTypeOK, FlowTypeOK
<1>1. CASE UNCHANGED observerVars
  BY <1>1, <1>0, <1>q DEF observerVars, loopVars
<1>2. CASE LoadTcp
  BY <1>2, <1>0, <1>q, PCsType DEF LoadTcp
<1>3. CASE LoadDns \/ LoadHttp
  <2>1. /\ UNCHANGED <<dns_events, http_events, cache, events, sends, enabled, polled, batch, sent>>
        /\ pc' \in {"load_http", "proc", "setup"}
        /\ probing' \subseteq probing \cup {"dns", "http"}
    BY <1>3 DEF LoadDns, LoadHttp, LoadFlow, Goto
  <2>2. pc' \in PCs
    BY <2>1, PCsType
  <2>3. probing' \subseteq {"dns", "http"}
    BY <1>0, <2>1 DEF FlowTypeOK
  <2> QED BY <1>0, <2>1, <2>2, <2>3 DEF LoopTypeOK, FlowTypeOK
<1>4. CASE LoadFails \/ Cancel
  <2>1. Drop /\ pc' \in PCs
    BY <1>4, PCsType DEF LoadFails, Cancel
  <2>2. FlowTypeOK'
    BY <1>0, <2>1 DEF Drop, FlowTypeOK
  <2>3. /\ batch' \in [tcp : [Sockets -> Names \cup {Nothing}], dns : SUBSET Texts,
                       http : Seq(HttpEvents)]
        /\ UNCHANGED <<enabled, polled, sent>>
    BY <2>1, NoBatchType DEF Drop
  <2> QED BY <1>0, <2>1, <2>2, <2>3 DEF LoopTypeOK
<1>5. CASE Setup
  <2>1. polled' \subseteq enabled /\ pc' \in PCs /\ UNCHANGED <<flowVars, enabled, batch, sent>>
    BY <1>5, PCsType DEF Setup, Goto
  <2> QED BY <1>0, <2>1 DEF LoopTypeOK, FlowTypeOK
<1>6. CASE PollTcp \/ Wake
  BY <1>6, <1>q, PCsType DEF PollTcp, Wake, Goto, Unlooped
<1>7. CASE PollDns \/ PollHttp
  <2>1. FlowTypeOK'
    BY <1>7, <1>0, FlowTypes DEF PollDns, PollHttp, FlowTypeOK
  <2>2. UNCHANGED <<enabled, polled, batch, sent>> /\ pc' \in PCs
    BY <1>7, PCsType DEF PollDns, PollHttp, Goto, Unlooped
  <2> QED BY <1>0, <2>1, <2>2 DEF LoopTypeOK
<1>8. CASE Drain
  <2>1. FlowTypeOK' /\ pc' \in PCs /\ UNCHANGED <<enabled, polled, sent>>
    BY <1>8, <1>0, FlowTypes, PCsType DEF Drain, Goto
  <2>2. batch' = [tcp |-> [s \in Sockets |-> Report(s)], dns |-> cache', http |-> events]
    BY <1>8 DEF Drain
  <2>3. \A s \in Sockets : Report(s) \in Names \cup {Nothing}
    BY DEF TypeOK, Report, Pending, Tracked
  <2>4. cache' \in SUBSET Texts
    BY <2>1 DEF FlowTypeOK
  <2>5. events \in Seq(HttpEvents)
    BY <1>0 DEF FlowTypeOK
  <2>6. [s \in Sockets |-> Report(s)] \in [Sockets -> Names \cup {Nothing}]
    BY <2>3
  <2>7. batch' \in [tcp : [Sockets -> Names \cup {Nothing}], dns : SUBSET Texts,
                    http : Seq(HttpEvents)]
    BY <2>2, <2>4, <2>5, <2>6
  <2> QED BY <1>0, <2>1, <2>7 DEF LoopTypeOK
<1>9. CASE SendBatch
  <2>1. /\ sent' = [s \in Sockets |-> IF batch.tcp[s] # Nothing THEN batch.tcp[s] ELSE sent[s]]
        /\ batch' = NoBatch /\ UNCHANGED <<flowVars, enabled, polled>> /\ pc' \in PCs
    BY <1>9, PCsType DEF SendBatch, Goto
  <2>2. sent' \in [Sockets -> Names \cup {Nothing}]
    BY <1>0, <2>1
  <2> QED BY <1>0, <2>1, <2>2, NoBatchType DEF LoopTypeOK, FlowTypeOK
<1>10. CASE KernelStep
  BY <1>10, <1>0, <1>q DEF KernelStep, loopVars
<1>11. CASE Send
  <2>1. FlowTypeOK'
    BY <1>11, <1>0, FlowTypes DEF Send
  <2> QED BY <1>11, <1>0, <2>1 DEF Send, loopVars, LoopTypeOK
<1> QED BY <1>1, <1>2, <1>3, <1>4, <1>5, <1>6, <1>7, <1>8, <1>9, <1>10, <1>11
        DEF ObserverNext, Loop

LEMMA LoopTypeInit == ObserverInit => LoopTypeOK
<1> SUFFICES ASSUME ObserverInit PROVE LoopTypeOK
  OBVIOUS
<1>1. FlowTypeOK
  BY FlowAssumption DEF ObserverInit, FlowInit, FlowTypeOK
<1> QED BY <1>1, NoBatchType, PCsType DEF ObserverInit, LoopTypeOK

\* Every variable of the observer keeps its type in every configuration; the
\* DNS cache never holds a placeholder and the queue never an event without
\* payload (handle_dns_event, handle_http_event, run_ebpf).
THEOREM ObserverTypeCorrect == ObserverSpec => []ObserverTypeOK
<1>1. ObserverSpec => []TypeOK
  BY ObserverRefines, TypeCorrect, PTL
<1>2. TypeOK /\ LoopTypeOK => ObserverTypeOK
  BY DEF LoopTypeOK, ObserverTypeOK
<1> QED BY <1>1, <1>2, LoopTypeInit, LoopTypeStep, PTL DEF ObserverSpec

-----------------------------------------------------------------------------
(* A reported close is final.                                              *)

\* Nothing but closes is still to come of a socket: from the ring, from the
\* table too, from the batch too.
RingClosed(s) ==
    sk[s] = TCP_CLOSE /\ \A i \in InRing(s) : tcp_events[i].tcp_state = TCP_CLOSE
TableClosed(s) ==
    RingClosed(s) /\ (connections[s] # Nothing => connections[s].state = ClosedName)
BatchClosed(s) == TableClosed(s) /\ batch.tcp[s] \in {Nothing, ClosedName}

\* The close of a socket is the last of its records in the ring.
RingOrder(s) ==
    \A i, j \in InRing(s) :
        i <= j /\ tcp_events[i].tcp_state = TCP_CLOSE
          => sk[s] = TCP_CLOSE /\ tcp_events[j].tcp_state = TCP_CLOSE

\* The inductive invariant: what says that a socket is closed, at any place on
\* the way from the ring to the cluster, is followed by nothing else.
OrderInv ==
    \A s \in Sockets :
        /\ RingOrder(s)
        /\ connections[s] # Nothing /\ connections[s].state = ClosedName => RingClosed(s)
        /\ batch.tcp[s] = ClosedName => TableClosed(s)
        /\ sent[s] = ClosedName => BatchClosed(s)

\* Only the close has its name.
LEMMA ClosedNames ==
    /\ \A n \in KernelStates : tcp_state_name(n) = ClosedName <=> n = TCP_CLOSE
    /\ ClosedName # Nothing
<1>1. \A n \in KernelStates : tcp_state_name(n) = ClosedName <=> n = TCP_CLOSE
  BY DEF ClosedName, KernelStates, tcp_state_name, TCP_CLOSE, TCP_ESTABLISHED, TCP_SYN_SENT,
         KERNEL_FIN_WAIT1, KERNEL_CLOSE_WAIT
<1>2. ClosedName \in Names
  BY ZeroIsNoState DEF Names, ClosedName
<1> QED BY <1>1, <1>2, NothingAssumption

\* What the probe of tcp_set_state adds to the ring.
LEMMA SetStateAdds ==
    ASSUME NEW t \in Threads, NEW s \in Sockets, NEW state \in KernelStates,
           handle_tcp_set_state(t, s, state)
    PROVE  \/ tcp_events' = tcp_events
           \/ \E evt \in TcpEvents : /\ tcp_events' = Append(tcp_events, evt)
                                     /\ evt.sock = s /\ evt.tcp_state = state
<1> DEFINE evt == [event_type |-> IF state = TCP_ESTABLISHED
                                    THEN EVENT_TCP_ACCEPT ELSE EVENT_TCP_CLOSE,
                   tid |-> t, sock |-> s, tcp_state |-> state]
<1>1. evt \in TcpEvents /\ evt.sock = s /\ evt.tcp_state = state
  BY DEF TcpEvents
<1>2. tcp_events' = tcp_events \/ tcp_events' = Append(tcp_events, evt)
  BY DEF handle_tcp_set_state, Unnoticed, NoEmit, emit_event, Submit
<1> QED BY <1>1, <1>2

\* What the kernel and the probes do: a closed socket stays closed, and a record
\* is only ever added for a socket that is not closed yet.
LEMMA KernelAdds ==
    ASSUME FastOpen = FALSE, CloseInv, Kernel
    PROVE  /\ UNCHANGED connections
           /\ \A s \in Sockets : sk[s] = TCP_CLOSE => sk'[s] = TCP_CLOSE
           /\ \/ tcp_events' = tcp_events
              \/ \E evt \in TcpEvents :
                   /\ tcp_events' = Append(tcp_events, evt)
                   /\ sk[evt.sock] # TCP_CLOSE
                   /\ evt.tcp_state = TCP_CLOSE => sk'[evt.sock] = TCP_CLOSE
<1> USE DEF kernelVars, probeVars, userVars, ghostVars
<1>p. PairInv /\ SentOpen
  BY DEF CloseInv
<1>k. sk \in [Sockets -> KernelStates \cup {0}] /\ TypeOK
  BY <1>p DEF PairInv, TypeOK
<1>1. CASE \E t \in Threads, s \in Sockets : EnterConnect(t, s)
  BY <1>1 DEF EnterConnect
<1>2. ASSUME NEW t \in Threads, TcpConnect(t)
      PROVE  /\ UNCHANGED <<connections, tcp_events>>
             /\ \A s \in Sockets : sk[s] = TCP_CLOSE => sk'[s] = TCP_CLOSE
  <2>1. conn[t].sock \in Sockets /\ sk[conn[t].sock] = 0
    BY <1>2, <1>p DEF TcpConnect, PairInv, CallOK
  <2> QED BY <1>2, <1>k, <2>1, StateNames DEF TcpConnect
<1>3. ASSUME NEW t \in Threads, FailConnect(t)
      PROVE  /\ UNCHANGED connections
             /\ \A s \in Sockets : sk[s] = TCP_CLOSE => sk'[s] = TCP_CLOSE
             /\ \/ tcp_events' = tcp_events
                \/ \E evt \in TcpEvents :
                     /\ tcp_events' = Append(tcp_events, evt)
                     /\ sk[evt.sock] # TCP_CLOSE
                     /\ evt.tcp_state = TCP_CLOSE => sk'[evt.sock] = TCP_CLOSE
  <2>1. conn[t].sock \in Sockets /\ sk[conn[t].sock] # TCP_CLOSE
    BY <1>3, <1>p, StateNames DEF FailConnect, PairInv, CallOK, SentOpen
  <2>2. /\ sk' = [sk EXCEPT ![conn[t].sock] = TCP_CLOSE] /\ UNCHANGED connections
        /\ handle_tcp_set_state(t, conn[t].sock, TCP_CLOSE)
    BY <1>3 DEF FailConnect
  <2>3. sk'[conn[t].sock] = TCP_CLOSE /\ \A s \in Sockets : sk[s] = TCP_CLOSE => sk'[s] = TCP_CLOSE
    BY <1>k, <2>1, <2>2
  <2> QED BY <2>1, <2>2, <2>3, SetStateAdds, ZeroIsNoState
<1>4. ASSUME NEW t \in Threads, NEW ret \in {-1, 0}, ReturnConnect(t, ret)
      PROVE  /\ UNCHANGED <<sk, connections>>
             /\ \/ tcp_events' = tcp_events
                \/ \E evt \in TcpEvents :
                     /\ tcp_events' = Append(tcp_events, evt)
                     /\ sk[evt.sock] # TCP_CLOSE /\ evt.tcp_state # TCP_CLOSE
  <2>1. UNCHANGED <<sk, connections>>
    BY <1>4, <1>p, ReturnFacts
  <2>2. CASE NoEmit
    BY <2>1, <2>2 DEF NoEmit
  <2>3. CASE connect_info[t] # NoEvent /\ ret = 0 /\ conn[t].hooked /\ emit_event(Completed(t))
    <3>1. conn[t].at = "sent"
      BY <1>4, <2>3 DEF ReturnConnect
    <3>2. connect_info[t] \in Partial /\ connect_info[t].sock = conn[t].sock
      BY <1>p, <1>k, <2>3, <3>1 DEF PairInv, TypeOK, EntryOK
    <3>3. Completed(t) \in TcpEvents /\ sk[Completed(t).sock] # TCP_CLOSE
          /\ Completed(t).tcp_state # TCP_CLOSE
      BY <1>p, <3>1, <3>2, ZeroIsNoState, StateNames DEF Completed, TcpEvents, Partial, SentOpen
    <3>4. tcp_events' = tcp_events \/ tcp_events' = Append(tcp_events, Completed(t))
      BY <2>3 DEF emit_event, Submit
    <3> QED BY <2>1, <3>3, <3>4
  <2> QED BY <1>4, <1>p, <2>2, <2>3, ReturnCases
<1>5. ASSUME NEW t \in Threads, NEW s \in Sockets, NEW state \in KernelStates, SetState(t, s, state)
      PROVE  /\ UNCHANGED connections
             /\ \A r \in Sockets : sk[r] = TCP_CLOSE => sk'[r] = TCP_CLOSE
             /\ \/ tcp_events' = tcp_events
                \/ \E evt \in TcpEvents :
                     /\ tcp_events' = Append(tcp_events, evt)
                     /\ sk[evt.sock] # TCP_CLOSE
                     /\ evt.tcp_state = TCP_CLOSE => sk'[evt.sock] = TCP_CLOSE
  <2>1. /\ <<sk[s], state>> \in Moves /\ handle_tcp_set_state(t, s, state)
        /\ sk' = [sk EXCEPT ![s] = state] /\ UNCHANGED connections
    BY <1>5 DEF SetState
  <2>2. sk[s] # TCP_CLOSE
    BY <2>1, StateNames DEF Moves
  <2>3. sk'[s] = state /\ \A r \in Sockets : sk[r] = TCP_CLOSE => sk'[r] = TCP_CLOSE
    BY <1>k, <2>1, <2>2
  <2> QED BY <2>1, <2>2, <2>3, SetStateAdds
<1> QED BY <1>1, <1>2, <1>3, <1>4, <1>5 DEF Kernel

\* A step that leaves ring, sockets, table, batch and report alone.
LEMMA OrderSame ==
    ASSUME OrderInv, UNCHANGED <<tcp_events, sk, connections, batch, sent>>
    PROVE  OrderInv'
BY DEF OrderInv, RingOrder, RingClosed, TableClosed, BatchClosed, InRing

\* A record of a socket that was not closed.
LEMMA OrderAdds ==
    ASSUME TypeOK, OrderInv, NEW evt \in TcpEvents,
           tcp_events' = Append(tcp_events, evt), sk[evt.sock] # TCP_CLOSE,
           evt.tcp_state = TCP_CLOSE => sk'[evt.sock] = TCP_CLOSE,
           \A s \in Sockets : sk[s] = TCP_CLOSE => sk'[s] = TCP_CLOSE,
           UNCHANGED <<connections, batch, sent>>
    PROVE  OrderInv'
<1>1. tcp_events \in Seq(TcpEvents)
  BY DEF TypeOK
<1>2. /\ Len(tcp_events) \in Nat /\ Len(tcp_events') = Len(tcp_events) + 1
      /\ tcp_events'[Len(tcp_events) + 1] = evt
      /\ \A i \in 1 .. Len(tcp_events) : tcp_events'[i] = tcp_events[i]
  BY <1>1
<1> SUFFICES ASSUME NEW s \in Sockets
             PROVE  /\ RingOrder(s)'
                    /\ connections'[s] # Nothing /\ connections'[s].state = ClosedName
                         => RingClosed(s)'
                    /\ batch'.tcp[s] = ClosedName => TableClosed(s)'
                    /\ sent'[s] = ClosedName => BatchClosed(s)'
  BY DEF OrderInv
<1>3. CASE s # evt.sock
  <2>1. InRing(s)' = InRing(s) /\ \A i \in InRing(s) : tcp_events'[i] = tcp_events[i]
    BY <1>2, <1>3 DEF InRing
  <2>2. (RingOrder(s) => RingOrder(s)') /\ (RingClosed(s) => RingClosed(s)')
    BY <2>1 DEF RingOrder, RingClosed
  <2> QED BY <2>2 DEF OrderInv, TableClosed, BatchClosed
<1>4. CASE s = evt.sock
  <2>1. sk[s] # TCP_CLOSE
    BY <1>4
  <2>2. \A i \in InRing(s) : tcp_events[i].tcp_state # TCP_CLOSE
    BY <2>1 DEF OrderInv, RingOrder, InRing
  <2>3. ~(connections[s] # Nothing /\ connections[s].state = ClosedName)
        /\ batch.tcp[s] # ClosedName /\ sent[s] # ClosedName
    BY <2>1 DEF OrderInv, RingClosed, TableClosed, BatchClosed
  <2>4. \A i \in InRing(s)' : \/ i = Len(tcp_events) + 1 /\ tcp_events'[i] = evt
                              \/ i \in InRing(s) /\ tcp_events'[i] = tcp_events[i]
    BY <1>2 DEF InRing
  <2>5. ASSUME NEW i \in InRing(s)', NEW j \in InRing(s)', i <= j,
               tcp_events'[i].tcp_state = TCP_CLOSE
        PROVE  sk'[s] = TCP_CLOSE /\ tcp_events'[j].tcp_state = TCP_CLOSE
    <3>1. i = Len(tcp_events) + 1 /\ tcp_events'[i] = evt
      BY <2>2, <2>4, <2>5
    <3>2. j \in 1 .. (Len(tcp_events) + 1)
      BY <1>2 DEF InRing
    <3>3. j = i
      BY <1>2, <2>5, <3>1, <3>2
    <3> QED BY <1>4, <2>5, <3>1, <3>3
  <2>6. RingOrder(s)'
    BY <2>5 DEF RingOrder
  <2> QED BY <2>3, <2>6
<1> QED BY <1>3, <1>4

\* The callback moves the oldest record into the table.
LEMMA OrderCallback ==
    ASSUME TypeOK, OrderInv, handle_tcp_event, UNCHANGED <<batch, sent>>
    PROVE  OrderInv'
<1>1. tcp_events \in Seq(TcpEvents) /\ tcp_events # <<>> /\ tcp_events' = Tail(tcp_events)
  BY DEF TypeOK, handle_tcp_event
<1>2. /\ Len(tcp_events) \in Nat /\ Len(tcp_events) >= 1
      /\ Len(tcp_events') = Len(tcp_events) - 1
      /\ Head(tcp_events) = tcp_events[1]
      /\ \A i \in 1 .. (Len(tcp_events) - 1) : tcp_events'[i] = tcp_events[i + 1]
      /\ tcp_events[1] \in TcpEvents
  BY <1>1
<1>3. \A s : \A i \in InRing(s)' : /\ i \in Int /\ i >= 1 /\ i + 1 \in InRing(s)
                                   /\ tcp_events'[i] = tcp_events[i + 1]
  BY <1>2 DEF InRing
<1>4. /\ connections' = Upsert(tcp_events[1], connections) /\ UNCHANGED sk
      /\ connections \in [Sockets -> Tracked \cup {Nothing}]
  BY <1>2 DEF handle_tcp_event, TypeOK, kernelVars
<1> SUFFICES ASSUME NEW s \in Sockets
             PROVE  /\ RingOrder(s)'
                    /\ connections'[s] # Nothing /\ connections'[s].state = ClosedName
                         => RingClosed(s)'
                    /\ batch'.tcp[s] = ClosedName => TableClosed(s)'
                    /\ sent'[s] = ClosedName => BatchClosed(s)'
  BY DEF OrderInv
<1>5. RingOrder(s)'
  <2> SUFFICES ASSUME NEW i \in InRing(s)', NEW j \in InRing(s)', i <= j,
                      tcp_events'[i].tcp_state = TCP_CLOSE
               PROVE  sk'[s] = TCP_CLOSE /\ tcp_events'[j].tcp_state = TCP_CLOSE
    BY DEF RingOrder
  <2>1. i + 1 \in InRing(s) /\ j + 1 \in InRing(s) /\ i + 1 <= j + 1
    BY <1>3
  <2> QED BY <1>3, <1>4, <2>1 DEF OrderInv, RingOrder
<1>6. RingClosed(s) => RingClosed(s)'
  BY <1>3, <1>4 DEF RingClosed
<1>7. CASE connections'[s] = connections[s]
  BY <1>5, <1>6, <1>7 DEF OrderInv, TableClosed, BatchClosed
<1>8. CASE connections'[s] # connections[s]
  <2>1. tcp_events[1].sock = s
    BY <1>4, <1>8 DEF Upsert
  <2>2. connections'[s] = [state |-> tcp_state_name(tcp_events[1].tcp_state),
                           tid |-> tcp_events[1].tid]
    BY <1>4, <1>8 DEF Upsert
  <2>3. /\ connections'[s].state = ClosedName <=> tcp_events[1].tcp_state = TCP_CLOSE
    BY <1>2, <2>2, ClosedNames DEF TcpEvents
  <2>4. 1 \in InRing(s)
    BY <1>2, <2>1 DEF InRing
  <2>5. \A j \in InRing(s) : 1 <= j
    BY DEF InRing
  <2>6. tcp_events[1].tcp_state = TCP_CLOSE => RingClosed(s)
    BY <2>4, <2>5 DEF OrderInv, RingOrder, RingClosed
  <2>7. RingClosed(s) => TableClosed(s)'
    BY <1>6, <2>3, <2>4 DEF RingClosed, TableClosed
  <2> QED BY <1>5, <1>6, <2>3, <2>6, <2>7 DEF OrderInv, TableClosed, BatchClosed
<1> QED BY <1>7, <1>8

LEMMA OrderStep ==
    ASSUME FastOpen = FALSE
    PROVE  CloseInv /\ LoopTypeOK /\ OrderInv /\ [ObserverNext]_observerVars => OrderInv'
<1> SUFFICES ASSUME CloseInv, LoopTypeOK, OrderInv, [ObserverNext]_observerVars PROVE OrderInv'
  OBVIOUS
<1> USE DEF kernelVars, probeVars, userVars, ghostVars
<1>t. /\ TypeOK
      /\ batch \in [tcp : [Sockets -> Names \cup {Nothing}], dns : SUBSET Texts,
                    http : Seq(HttpEvents)]
  BY DEF CloseInv, PairInv, LoopTypeOK
<1>n. NoBatch.tcp = [s \in Sockets |-> Nothing] /\ ClosedName # Nothing
  BY NoBatchType, ClosedNames
<1>1. CASE UNCHANGED observerVars
  BY <1>1, OrderSame DEF observerVars, vars, loopVars
<1>2. CASE LoadTcp \/ LoadDns \/ LoadHttp \/ Setup
  BY <1>2, OrderSame DEF LoadTcp, Attach, LoadDns, LoadHttp, LoadFlow, Setup, vars
<1>3. CASE LoadFails \/ Cancel
  <2>1. /\ tcp_events' = <<>> /\ connections' = [s \in Sockets |-> Nothing]
        /\ batch' = NoBatch /\ UNCHANGED <<sk, sent>>
    BY <1>3 DEF LoadFails, Cancel, Drop, Detach
  <2>2. \A s : InRing(s)' = {}
    BY <2>1 DEF InRing
  <2>3. \A s \in Sockets : connections'[s] = Nothing /\ batch'.tcp[s] = Nothing
    BY <1>n, <2>1
  <2> QED BY <1>n, <2>1, <2>2, <2>3 DEF OrderInv, RingOrder, RingClosed, TableClosed, BatchClosed
<1>4. CASE PollTcp
  <2>1. CASE handle_tcp_event
    BY <1>4, <1>t, <2>1, OrderCallback DEF PollTcp, Unlooped
  <2>2. CASE UNCHANGED vars
    BY <1>4, <2>2, OrderSame DEF PollTcp, Unlooped, vars
  <2> QED BY <1>4, <2>1, <2>2 DEF PollTcp
<1>5. CASE PollDns \/ PollHttp \/ Wake
  BY <1>5, OrderSame DEF PollDns, PollHttp, Wake, Unlooped, vars
<1>6. CASE Drain
  <2>1. /\ tcp_events' = tcp_events /\ UNCHANGED <<sk, sent>>
        /\ connections' = [s \in Sockets |-> Nothing]
        /\ batch' = [tcp |-> [s \in Sockets |-> Report(s)], dns |-> cache', http |-> events]
    BY <1>6 DEF Drain, drain_events
  <2>2. \A s \in Sockets : connections'[s] = Nothing /\ batch'.tcp[s] = Report(s)
    BY <2>1
  <2>3. \A s \in Sockets : RingClosed(s)' <=> RingClosed(s)
    BY <2>1 DEF RingClosed, InRing
  <2>4. \A s \in Sockets : Report(s) = IF connections[s] # Nothing THEN connections[s].state
                                         ELSE Nothing
    BY DEF Report, Pending
  <2>5. \A s \in Sockets : RingOrder(s)'
    BY <2>1 DEF OrderInv, RingOrder, InRing
  <2>6. \A s \in Sockets : batch'.tcp[s] = ClosedName => TableClosed(s)'
    BY <1>n, <2>2, <2>3, <2>4 DEF OrderInv, TableClosed
  <2>7. \A s \in Sockets : sent'[s] = ClosedName => BatchClosed(s)'
    BY <2>1, <2>2, <2>3, <2>4 DEF OrderInv, BatchClosed, TableClosed
  <2> QED BY <2>2, <2>5, <2>6, <2>7 DEF OrderInv
<1>7. CASE SendBatch
  <2>1. /\ sent' = [s \in Sockets |-> IF batch.tcp[s] # Nothing THEN batch.tcp[s] ELSE sent[s]]
        /\ batch' = NoBatch /\ UNCHANGED <<tcp_events, sk, connections>>
    BY <1>7 DEF SendBatch, vars
  <2>2. \A s \in Sockets : /\ batch'.tcp[s] = Nothing
                           /\ sent'[s] = ClosedName =>
                                batch.tcp[s] = ClosedName \/ sent[s] = ClosedName
    BY <1>n, <2>1
  <2>3. \A s \in Sockets : (RingOrder(s) => RingOrder(s)') /\ (RingClosed(s) => RingClosed(s)')
    BY <2>1 DEF RingOrder, RingClosed, InRing
  <2>4. \A s \in Sockets : TableClosed(s) => TableClosed(s)' /\ BatchClosed(s)'
    BY <2>1, <2>2, <2>3 DEF TableClosed, BatchClosed
  <2> QED BY <1>n, <2>1, <2>2, <2>3, <2>4 DEF OrderInv, BatchClosed
<1>8. CASE KernelStep
  <2>1. Kernel /\ UNCHANGED <<batch, sent>>
    BY <1>8 DEF KernelStep, loopVars
  <2>2. /\ UNCHANGED connections
        /\ \A s \in Sockets : sk[s] = TCP_CLOSE => sk'[s] = TCP_CLOSE
        /\ \/ tcp_events' = tcp_events
           \/ \E evt \in TcpEvents :
                /\ tcp_events' = Append(tcp_events, evt)
                /\ sk[evt.sock] # TCP_CLOSE
                /\ evt.tcp_state = TCP_CLOSE => sk'[evt.sock] = TCP_CLOSE
    BY <2>1, KernelAdds
  <2>3. CASE tcp_events' = tcp_events
    <3>1. \A s \in Sockets : (RingOrder(s) => RingOrder(s)') /\ (RingClosed(s) => RingClosed(s)')
      BY <2>2, <2>3 DEF RingOrder, RingClosed, InRing
    <3> QED BY <2>1, <2>2, <3>1 DEF OrderInv, TableClosed, BatchClosed
  <2>4. CASE tcp_events' # tcp_events
    BY <1>t, <2>1, <2>2, <2>4, OrderAdds
  <2> QED BY <2>3, <2>4
<1>9. CASE Send
  BY <1>9, OrderSame DEF Send, vars, loopVars
<1> QED BY <1>1, <1>2, <1>3, <1>4, <1>5, <1>6, <1>7, <1>8, <1>9 DEF ObserverNext, Loop

LEMMA OrderInit == ObserverInit => OrderInv
<1> SUFFICES ASSUME ObserverInit PROVE OrderInv
  OBVIOUS
<1>1. \A s : InRing(s) = {}
  BY DEF ObserverInit, Init, InRing
<1>2. \A s \in Sockets : connections[s] = Nothing /\ batch.tcp[s] = Nothing /\ sent[s] = Nothing
  BY NoBatchType DEF ObserverInit, Init
<1> QED BY <1>1, <1>2, ClosedNames DEF OrderInv, RingOrder

\* Without fast open, a connection that the observer has reported closed is
\* never reported in another state again, whatever is still in the ring, in the
\* table or in the batch under way (handle_tcp_event, drain_events, run_ebpf).
THEOREM ClosedIsFinal ==
    ASSUME FastOpen = FALSE
    PROVE  ObserverSpec => ClosedStaysClosed
<1>1. ObserverSpec => []CloseInv
  <2>1. Spec => []CloseInv
    BY CloseInvariance
  <2> QED BY <2>1, ObserverRefines, PTL
<1>2. ObserverSpec => []TypeOK
  BY ObserverRefines, TypeCorrect, PTL
<1>3. CloseInv /\ LoopTypeOK /\ OrderInv /\ [ObserverNext]_observerVars => OrderInv'
  BY OrderStep
<1>4. OrderInv /\ [ObserverNext]_observerVars =>
        [\A s \in Sockets : sent[s] = ClosedName => sent'[s] = ClosedName]_sent
  <2> SUFFICES ASSUME OrderInv, [ObserverNext]_observerVars, sent' # sent
               PROVE  \A s \in Sockets : sent[s] = ClosedName => sent'[s] = ClosedName
    OBVIOUS
  <2>1. SendBatch
    BY DEF ObserverNext, observerVars, loopVars, LoadTcp, LoadDns, LoadHttp, LoadFlow, LoadFails,
           Cancel, Drop, Setup, Loop, PollTcp, PollDns, PollHttp, Drain, Wake, Unlooped, KernelStep,
           Send
  <2>2. sent' = [s \in Sockets |-> IF batch.tcp[s] # Nothing THEN batch.tcp[s] ELSE sent[s]]
    BY <2>1 DEF SendBatch
  <2>3. \A s \in Sockets : sent[s] = ClosedName => batch.tcp[s] \in {Nothing, ClosedName}
    BY DEF OrderInv, BatchClosed
  <2> QED BY <2>2, <2>3
<1> QED BY <1>1, <1>2, <1>3, <1>4, LoopTypeInit, LoopTypeStep, OrderInit, PTL
        DEF ObserverSpec, ClosedStaysClosed
=============================================================================
