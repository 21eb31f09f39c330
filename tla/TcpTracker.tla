----------------------------- MODULE TcpTracker -----------------------------
(***************************************************************************)
(* TCP connection tracking: the three probes of bpf/tcp_tracker.bpf.c with *)
(* their two maps, and the userspace side of tcp_tracker.rs.               *)
(*                                                                         *)
(* The kernel around the probes is external.  A thread that connects a     *)
(* socket enters tcp_v4_connect (tcp_v6_connect for a socket of V6), which *)
(* sets SYN_SENT, calls tcp_connect, and returns 0 once the SYN is sent.   *)
(* It holds the socket's lock meanwhile, so the network changes the state  *)
(* of the socket only after the return.  A probe runs at the entry (kprobe)*)
(* or at the return (kretprobe) of the function it is attached to, in the  *)
(* context of whatever thread is current; a state change that a packet     *)
(* causes runs on top of any thread.                                       *)
(*                                                                         *)
(* The kernel decides at the entry of a function whether its return will be *)
(* probed, so a call that entered before the kretprobe was attached returns*)
(* unseen.  Attaching and detaching happen while threads connect.          *)
(*                                                                         *)
(* A socket stands for its 4-tuple, and for the ports that the exclusion   *)
(* list looks at; a thread for its pid, tid and comm.  Sockets are not     *)
(* reused: a second connection with the same 4-tuple is another socket.    *)
(***************************************************************************)
EXTENDS EbpfEvents, FiniteSets

CONSTANTS
    Threads,     \* threads of the host
    Sockets,     \* TCP sockets
    V6,          \* the sockets of them that are IPv6
    Excluded,    \* the sockets of them with a port in exclude_ports
    MayFail,     \* whether attaching a probe may fail: load_program only logs it
    FastOpen,    \* whether a connect may put the SYN off to the first write
    MaxEntries,  \* max_entries of connect_info
    RingSize,    \* records that tcp_events has room for
    NoThread, NoEvent, NoSock, Nothing

\* The programs of the object, in the order in which load_program attaches them.
Probes == <<"tcp_connect", "tcp_v4_connect", "tcp_set_state">>

ASSUME SetsAssumption ==
    V6 \subseteq Sockets /\ Excluded \subseteq Sockets
ASSUME NoneAssumption == NoThread \notin Threads /\ NoSock \notin Sockets
ASSUME LimitsAssumption ==
    FastOpen \in BOOLEAN /\ MayFail \in BOOLEAN /\ MaxEntries \in Nat /\ RingSize \in Nat \ {0}

\* struct tcp_event.
TcpEvents ==
    [event_type : {EVENT_TCP_CONNECT, EVENT_TCP_ACCEPT, EVENT_TCP_CLOSE},
     tid : Threads, sock : Sockets, tcp_state : KernelStates]
\* The event that waits in connect_info has no type and no state yet.
Partial == [tid : Threads, sock : Sockets]
ASSUME NoEventAssumption == NoEvent \notin Partial

\* tcp_state_name.
tcp_state_name(n) ==
    CASE n = 1 -> "ESTABLISHED" [] n = 2 -> "SYN_SENT" [] n = 3 -> "SYN_RECV"
      [] n = 4 -> "FIN_WAIT1" [] n = 5 -> "FIN_WAIT2" [] n = 6 -> "TIME_WAIT"
      [] n = 7 -> "CLOSE_WAIT" [] n = 8 -> "LAST_ACK" [] n = 9 -> "CLOSING"
      [] n = 10 -> "LISTEN" [] OTHER -> "UNKNOWN"

Names == {tcp_state_name(n) : n \in KernelStates}
\* TrackedConnection: the state name, and the thread it is attributed to.
Tracked == [state : Names, tid : Threads]
ASSUME NothingAssumption == Nothing \notin Tracked /\ Nothing \notin Names

VARIABLES
    sk,           \* state of each socket; 0 while it is unused
    conn,         \* the connect call each thread is in
    todo,         \* the probes still to attach
    attached,     \* the probes that are attached
    connect_info, \* the map from thread to partial event
    tcp_events,   \* the ring buffer
    connections,  \* TcpTracker.connections
    shown,        \* what the last drain that had the socket said of it
    opener,       \* ghost: the thread that connected a socket
    result,       \* ghost: what the connect of a socket returned
    told,         \* ghost: number of connect events of a socket
    unseen,       \* ghost: sockets whose connect returned without the probe
    lost          \* ghost: sockets with a change that did not reach the ring

kernelVars == <<sk, conn>>
probeVars == <<todo, attached>>
userVars == <<connections, shown>>
ghostVars == <<opener, result, unseen>>
vars == <<sk, conn, todo, attached, connect_info, tcp_events, connections, shown,
          opener, result, told, unseen, lost>>

Idle == [at |-> "user", sock |-> NoSock, hooked |-> FALSE]

Init ==
    /\ sk = [s \in Sockets |-> 0]
    /\ conn = [t \in Threads |-> Idle]
    /\ todo = Probes /\ attached = {}
    /\ connect_info = [t \in Threads |-> NoEvent]
    /\ tcp_events = <<>>
    /\ connections = [s \in Sockets |-> Nothing]
    /\ shown = [s \in Sockets |-> Nothing]
    /\ opener = [s \in Sockets |-> NoThread]
    /\ result = [s \in Sockets |-> "none"]
    /\ told = [s \in Sockets |-> 0]
    /\ unseen = {} /\ lost = {}

-----------------------------------------------------------------------------
(* Attaching and detaching.                                                *)

\* load_program attaches the next probe and goes on whether it could or not.
Attach ==
    /\ todo # <<>>
    /\ todo' = Tail(todo)
    /\ \/ attached' = attached \cup {Head(todo)}
       \/ MayFail /\ attached' = attached
    /\ UNCHANGED <<kernelVars, connect_info, tcp_events, userVars, ghostVars, told, lost>>

\* The links are dropped, by an error while loading or at the end of the
\* observer: the probes are detached and the maps freed.
Detach ==
    /\ todo' = <<>> /\ attached' = {}
    /\ connect_info' = [t \in Threads |-> NoEvent]
    /\ tcp_events' = <<>>
    /\ connections' = [s \in Sockets |-> Nothing]
    /\ lost' = Sockets
    /\ UNCHANGED <<kernelVars, shown, ghostVars, told>>

-----------------------------------------------------------------------------
(* The probes.                                                             *)

\* emit_event: the caller does not look at the result.
emit_event(evt) ==
    /\ tcp_events' = Submit(tcp_events, RingSize, evt)
    /\ lost' = IF HasRoom(tcp_events, RingSize) THEN lost ELSE lost \cup {evt.sock}

NoEmit == UNCHANGED <<tcp_events, lost>>
\* No probe sees that the socket changes.
Unnoticed(s) == UNCHANGED tcp_events /\ lost' = lost \cup {s}

\* Mutant: a closed connection is not reported.
OnlyEstablished(t, s, state) ==
    IF "tcp_set_state" \notin attached THEN Unnoticed(s)
    ELSE IF state = TCP_ESTABLISHED
      THEN emit_event([event_type |-> EVENT_TCP_ACCEPT, tid |-> t, sock |-> s,
                       tcp_state |-> state])
      ELSE NoEmit

\* handle_tcp_set_state.
handle_tcp_set_state(t, s, state) ==
    IF "tcp_set_state" \notin attached THEN Unnoticed(s)
    ELSE IF state \in {TCP_ESTABLISHED, TCP_TIME_WAIT, TCP_CLOSE}
      THEN emit_event([event_type |-> IF state = TCP_ESTABLISHED
                                        THEN EVENT_TCP_ACCEPT ELSE EVENT_TCP_CLOSE,
                       tid |-> t, sock |-> s, tcp_state |-> state])
      ELSE NoEmit

\* bpf_map_update_elem fails for a new key when the map is full.
CanStore(t) ==
    \/ connect_info[t] # NoEvent
    \/ Cardinality({u \in Threads : connect_info[u] # NoEvent}) < MaxEntries

\* handle_tcp_connect.
handle_tcp_connect(t, s) ==
    connect_info' = IF "tcp_connect" \in attached /\ CanStore(t)
                      THEN [connect_info EXCEPT ![t] = [tid |-> t, sock |-> s]]
                      ELSE connect_info

\* Mutant: the entry of a call that failed stays.
KeepOnError(t, ret) ==
    IF connect_info[t] # NoEvent /\ ret = 0
      THEN LET evt == connect_info[t] IN
           /\ emit_event([event_type |-> EVENT_TCP_CONNECT, tid |-> evt.tid,
                          sock |-> evt.sock, tcp_state |-> TCP_ESTABLISHED])
           /\ told' = [told EXCEPT ![evt.sock] = @ + 1]
           /\ connect_info' = [connect_info EXCEPT ![t] = NoEvent]
      ELSE NoEmit /\ UNCHANGED <<told, connect_info>>

\* Mutant: the return value is not looked at.
EmitAlways(t, ret) ==
    IF connect_info[t] # NoEvent
      THEN LET evt == connect_info[t] IN
           /\ emit_event([event_type |-> EVENT_TCP_CONNECT, tid |-> evt.tid,
                          sock |-> evt.sock, tcp_state |-> TCP_ESTABLISHED])
           /\ told' = [told EXCEPT ![evt.sock] = @ + 1]
           /\ connect_info' = [connect_info EXCEPT ![t] = NoEvent]
      ELSE NoEmit /\ UNCHANGED <<told, connect_info>>

\* Mutant: the event goes out as the first probe left it, type and state zero.
EmitUnfinished(t, ret) ==
    IF connect_info[t] # NoEvent
      THEN LET evt == connect_info[t] IN
           /\ IF ret = 0
                THEN /\ emit_event([event_type |-> 0, tid |-> evt.tid,
                                    sock |-> evt.sock, tcp_state |-> 0])
                     /\ told' = [told EXCEPT ![evt.sock] = @ + 1]
                ELSE NoEmit /\ UNCHANGED told
           /\ connect_info' = [connect_info EXCEPT ![t] = NoEvent]
      ELSE NoEmit /\ UNCHANGED <<told, connect_info>>

\* handle_tcp_v4_connect_ret: on success the event is completed and emitted,
\* and the entry is deleted in any case.
handle_tcp_v4_connect_ret(t, ret) ==
    IF connect_info[t] # NoEvent
      THEN LET evt == connect_info[t] IN
           /\ IF ret = 0
                THEN /\ emit_event([event_type |-> EVENT_TCP_CONNECT, tid |-> evt.tid,
                                    sock |-> evt.sock, tcp_state |-> TCP_ESTABLISHED])
                     /\ told' = [told EXCEPT ![evt.sock] = @ + 1]
                ELSE NoEmit /\ UNCHANGED told
           /\ connect_info' = [connect_info EXCEPT ![t] = NoEvent]
      ELSE NoEmit /\ UNCHANGED <<told, connect_info>>

-----------------------------------------------------------------------------
(* The kernel calls that carry the probes.                                 *)

\* A thread enters tcp_v4_connect or tcp_v6_connect; only the return of the
\* first has a probe.
EnterConnect(t, s) ==
    /\ conn[t].at = "user" /\ sk[s] = 0
    /\ ~\E u \in Threads : conn[u].sock = s
    /\ conn' = [conn EXCEPT ![t] = [at |-> "entered", sock |-> s,
                                    hooked |-> s \notin V6 /\ "tcp_v4_connect" \in attached]]
    /\ opener' = [opener EXCEPT ![s] = t]
    /\ UNCHANGED <<sk, probeVars, connect_info, tcp_events, userVars, result, unseen,
                   told, lost>>

\* tcp_set_state(SYN_SENT), which its probe ignores, and tcp_connect.
TcpConnect(t) ==
    /\ conn[t].at = "entered"
    /\ sk' = [sk EXCEPT ![conn[t].sock] = TCP_SYN_SENT]
    /\ handle_tcp_connect(t, conn[t].sock)
    /\ conn' = [conn EXCEPT ![t].at = "sent"]
    /\ UNCHANGED <<probeVars, tcp_events, userVars, ghostVars, told, lost>>

\* No port for the socket, or tcp_connect failed: tcp_set_state(CLOSE).
FailConnect(t) ==
    /\ conn[t].at \in {"entered", "sent"}
    /\ sk' = [sk EXCEPT ![conn[t].sock] = TCP_CLOSE]
    /\ handle_tcp_set_state(t, conn[t].sock, TCP_CLOSE)
    /\ conn' = [conn EXCEPT ![t].at = "failed"]
    /\ UNCHANGED <<probeVars, connect_info, userVars, ghostVars, told>>

\* The call returns: 0 if the SYN was sent, an error if it failed or there was
\* no route.  With TCP_FASTOPEN_CONNECT it also returns 0 with nothing sent.
ReturnConnect(t, ret) ==
    LET s == conn[t].sock IN
    /\ \/ conn[t].at = "sent" /\ ret = 0
       \/ conn[t].at = "failed" /\ ret = -1
       \/ conn[t].at = "entered" /\ ret = -1
       \/ conn[t].at = "entered" /\ ret = 0 /\ FastOpen /\ s \notin V6
    /\ IF conn[t].hooked /\ "tcp_v4_connect" \in attached
         THEN handle_tcp_v4_connect_ret(t, ret) /\ UNCHANGED unseen
         ELSE NoEmit /\ UNCHANGED <<told, connect_info>> /\ unseen' = unseen \cup {s}
    /\ conn' = [conn EXCEPT ![t] = Idle]
    /\ result' = [result EXCEPT ![s] = IF ret = 0 THEN "ok" ELSE "error"]
    /\ UNCHANGED <<sk, probeVars, userVars, opener>>

\* State changes that tcp_set_state makes outside a connect: the handshake of
\* an active or a passive socket ends, it is refused, reset or closed.
Moves == {<<0, TCP_ESTABLISHED>>, <<TCP_SYN_SENT, TCP_ESTABLISHED>>,
          <<TCP_SYN_SENT, TCP_CLOSE>>, <<TCP_ESTABLISHED, TCP_CLOSE>>,
          <<TCP_ESTABLISHED, KERNEL_FIN_WAIT1>>, <<KERNEL_FIN_WAIT1, TCP_CLOSE>>,
          <<TCP_ESTABLISHED, KERNEL_CLOSE_WAIT>>, <<KERNEL_CLOSE_WAIT, TCP_CLOSE>>}

SetState(t, s, state) ==
    /\ <<sk[s], state>> \in Moves
    /\ ~\E u \in Threads : conn[u].sock = s
    /\ sk' = [sk EXCEPT ![s] = state]
    /\ handle_tcp_set_state(t, s, state)
    /\ UNCHANGED <<conn, probeVars, connect_info, userVars, ghostVars, told>>

-----------------------------------------------------------------------------
(* Userspace.                                                              *)

\* Mutant: the first state of a connection is kept.
InsertOnly(evt, tracked) ==
    IF evt.sock \in Excluded THEN tracked
    ELSE IF tracked[evt.sock] # Nothing THEN tracked
    ELSE [tracked EXCEPT ![evt.sock] = [state |-> tcp_state_name(evt.tcp_state),
                                        tid |-> evt.tid]]

\* What handle_tcp_event does to the connections.
Upsert(evt, tracked) ==
    IF evt.sock \in Excluded THEN tracked
    ELSE [tracked EXCEPT ![evt.sock] = [state |-> tcp_state_name(evt.tcp_state),
                                        tid |-> evt.tid]]

\* handle_tcp_event, the callback of the ring buffer, for the oldest record.
handle_tcp_event ==
    /\ tcp_events # <<>>
    /\ connections' = Upsert(Head(tcp_events), connections)
    /\ tcp_events' = Tail(tcp_events)
    /\ UNCHANGED <<kernelVars, probeVars, connect_info, shown, ghostVars, told, lost>>

\* The sockets a drain reports.
Pending == {s \in Sockets : connections[s] # Nothing}

\* drain_events: what is tracked is reported and cleared.  The eviction of
\* entries older than five minutes finds none: the drain before cleared the
\* map and the poll just before it inserted what is there.
drain_events ==
    /\ shown' = [s \in Sockets |-> IF s \in Pending THEN connections[s].state
                                      ELSE shown[s]]
    /\ connections' = [s \in Sockets |-> Nothing]
    /\ UNCHANGED <<kernelVars, probeVars, connect_info, tcp_events, ghostVars, told, lost>>

-----------------------------------------------------------------------------
Kernel ==
    \/ \E t \in Threads, s \in Sockets : EnterConnect(t, s)
    \/ \E t \in Threads : TcpConnect(t)
    \/ \E t \in Threads : FailConnect(t)
    \/ \E t \in Threads, ret \in {-1, 0} : ReturnConnect(t, ret)
    \/ \E t \in Threads, s \in Sockets, state \in KernelStates : SetState(t, s, state)

Next == Attach \/ Detach \/ Kernel \/ handle_tcp_event \/ drain_events

Spec == Init /\ [][Next]_vars

-----------------------------------------------------------------------------
(* Properties.                                                             *)

TypeOK ==
    /\ sk \in [Sockets -> KernelStates \cup {0}]
    /\ conn \in [Threads -> [at : {"user", "entered", "sent", "failed"},
                             sock : Sockets \cup {NoSock}, hooked : BOOLEAN]]
    /\ todo \in {Probes, Tail(Probes), Tail(Tail(Probes)), <<>>}
    /\ attached \in SUBSET {Probes[i] : i \in 1 .. 3}
    /\ connect_info \in [Threads -> Partial \cup {NoEvent}]
    /\ tcp_events \in Seq(TcpEvents)
    /\ connections \in [Sockets -> Tracked \cup {Nothing}]
    /\ shown \in [Sockets -> Names \cup {Nothing}]
    /\ opener \in [Sockets -> Threads \cup {NoThread}]
    /\ result \in [Sockets -> {"none", "ok", "error"}]
    /\ told \in [Sockets -> Nat]
    /\ unseen \in SUBSET Sockets /\ lost \in SUBSET Sockets

\* A connect event that userspace can still read names a socket that the
\* thread of the event connected with success over IPv4, and no socket has two
\* (handle_tcp_connect, handle_tcp_v4_connect_ret): the two probes never pair
\* the entry of one call with the return of another.
ConnectTruthful ==
    /\ \A i \in 1 .. Len(tcp_events) :
        LET evt == tcp_events[i] IN
        evt.event_type = EVENT_TCP_CONNECT =>
            /\ evt.sock \notin V6
            /\ result[evt.sock] = "ok"
            /\ opener[evt.sock] = evt.tid
    /\ \A s \in Sockets : told[s] <= 1

\* An entry of a thread that is not inside a connect is left over from a call
\* whose return no probe saw (handle_tcp_connect, handle_tcp_v4_connect_ret): an
\* IPv6 connect, or one that was under way when the probes were attached.  Every
\* other entry goes with its call, failed or not.
LeftoversUnseen ==
    \A t \in Threads :
        connect_info[t] # NoEvent /\ conn[t].at = "user" => connect_info[t].sock \in unseen

\* What userspace knows of a socket last: from the ring, the table, or the
\* last report.
InRing(s) == {i \in 1 .. Len(tcp_events) : tcp_events[i].sock = s}

Newest(s) ==
    IF InRing(s) # {} /\ s \notin Excluded
      THEN tcp_state_name(
             tcp_events[CHOOSE i \in InRing(s) : \A j \in InRing(s) : j <= i].tcp_state)
      ELSE IF connections[s] # Nothing THEN connections[s].state
      ELSE shown[s]

\* Unless one of its changes was lost, a socket's newest event says that it is
\* closed exactly when it is (handle_tcp_set_state, the order of the ring,
\* handle_tcp_event): the connect event of a socket never overtakes or follows
\* its close.
ClosedIsNewest ==
    \A s \in Sockets \ (lost \cup Excluded) :
        sk[s] = TCP_CLOSE <=> Newest(s) = tcp_state_name(TCP_CLOSE)

-----------------------------------------------------------------------------
(* What comments say and the code does not keep.                           *)

\* "Entries are short-lived (microseconds)" of connect_info: an entry exists
\* only while its thread is inside the connect it was made for.
EntriesShortLived ==
    \A t \in Threads : connect_info[t] # NoEvent => conn[t].at = "sent"

\* "EVENT_TCP_ACCEPT when a passive socket becomes ESTABLISHED".
AcceptIsPassive ==
    \A i \in 1 .. Len(tcp_events) :
        tcp_events[i].event_type = EVENT_TCP_ACCEPT
            => opener[tcp_events[i].sock] = NoThread

\* A connection that is reported as established was established ("correlate
\* success/failure" of the header of tcp_tracker.bpf.c).
ReportedEstablished ==
    \A s \in Sockets :
        shown[s] = "ESTABLISHED" /\ s \notin lost => sk[s] # TCP_SYN_SENT

\* A connection is attributed to the thread that opened it.
ReportedToOpener ==
    \A s \in Sockets :
        connections[s] # Nothing /\ opener[s] # NoThread
            => connections[s].tid = opener[s]

\* "tcp_state_name: Values from include/net/tcp_states.h": a connection that is
\* reported as CLOSE_WAIT waits for its close.
NamesOfKernel ==
    \A s \in Sockets :
        connections[s] # Nothing /\ connections[s].state = "CLOSE_WAIT"
            => sk[s] = KERNEL_CLOSE_WAIT
=============================================================================
