-------------------------- MODULE TcpTrackerProofs --------------------------
(***************************************************************************)
(* Theorems about TcpTracker, for every set of threads and sockets, every  *)
(* size of the map and of the ring, and probes that are attached and       *)
(* detached at any time.                                                   *)
(***************************************************************************)
EXTENDS TcpTracker, TLAPS

\* The call of a thread and the state of the socket it connects.  The opener
\* of a socket tells the calls apart.
CallOK(t) ==
    /\ conn[t].at = "user" => conn[t] = Idle
    /\ conn[t].at # "user" => conn[t].sock \in Sockets /\ opener[conn[t].sock] = t
    /\ conn[t].at = "entered" => sk[conn[t].sock] = 0
    /\ conn[t].at \in {"sent", "failed"} => sk[conn[t].sock] # 0
    /\ conn[t].hooked => conn[t].sock \notin V6

\* An entry of connect_info is the thread's own; it belongs to the call the
\* thread is in, or is left over from one that returned unseen, and a call that
\* has sent its SYN has replaced what was left over.
EntryOK(t) ==
    connect_info[t] # NoEvent =>
        LET s == connect_info[t].sock IN
        /\ "tcp_connect" \in attached
        /\ connect_info[t].tid = t
        /\ opener[s] = t /\ sk[s] # 0
        /\ s \in unseen \/ (conn[t].at \in {"sent", "failed"} /\ conn[t].sock = s)
        /\ conn[t].at = "sent" => conn[t].sock = s

\* The inductive invariant for the pairing of entries and returns.
PairInv ==
    /\ TypeOK
    /\ \A t \in Threads : CallOK(t)
    /\ \A t \in Threads : EntryOK(t)

\* The connect events in the ring.
Connects ==
    {evt \in TcpEvents : /\ evt.event_type = EVENT_TCP_CONNECT
                         /\ \E i \in 1 .. Len(tcp_events) : tcp_events[i] = evt}

\* A socket is reported at most once, after its call has returned with success.
Reported ==
    \A s \in Sockets :
        /\ told[s] \in {0, 1}
        /\ told[s] = 1 => /\ result[s] = "ok" /\ s \notin V6 /\ sk[s] # 0
                          /\ \A u \in Threads : conn[u].sock # s

RingTrue == \A evt \in Connects : told[evt.sock] = 1 /\ opener[evt.sock] = evt.tid

\* The inductive invariant for what the events say.
TruthInv == PairInv /\ Reported /\ RingTrue

-----------------------------------------------------------------------------
(* The ring.                                                               *)

LEMMA EmitType ==
    ASSUME TypeOK, NEW evt \in TcpEvents, emit_event(evt)
    PROVE  /\ tcp_events' \in Seq(TcpEvents) /\ lost' \in SUBSET Sockets
           /\ Connects' \subseteq Connects \cup {evt}
           /\ evt.event_type # EVENT_TCP_CONNECT => Connects' \subseteq Connects
<1>1. tcp_events \in Seq(TcpEvents) /\ lost \in SUBSET Sockets
  BY DEF TypeOK
<1>2. evt.sock \in Sockets
  BY DEF TcpEvents
<1>3. tcp_events' \in Seq(TcpEvents) /\ lost' \in SUBSET Sockets
  BY <1>1, <1>2 DEF emit_event, Submit
<1>4. \A i \in 1 .. Len(tcp_events') :
        tcp_events'[i] = evt \/ \E j \in 1 .. Len(tcp_events) : tcp_events[j] = tcp_events'[i]
  <2>1. CASE tcp_events' = tcp_events
    BY <2>1
  <2>2. CASE tcp_events' = Append(tcp_events, evt)
    <3>1. Len(tcp_events) \in Nat /\ Len(tcp_events') = Len(tcp_events) + 1
          /\ tcp_events'[Len(tcp_events) + 1] = evt
          /\ \A i \in 1 .. Len(tcp_events) : tcp_events'[i] = tcp_events[i]
      BY <1>1, <2>2
    <3> QED BY <3>1
  <2> QED BY <2>1, <2>2 DEF emit_event, Submit
<1> QED BY <1>3, <1>4 DEF Connects

LEMMA SetStateRing ==
    ASSUME TypeOK, NEW t \in Threads, NEW s \in Sockets, NEW state \in KernelStates,
           handle_tcp_set_state(t, s, state)
    PROVE  /\ tcp_events' \in Seq(TcpEvents) /\ lost' \in SUBSET Sockets
           /\ Connects' \subseteq Connects
<1> DEFINE evt == [event_type |-> IF state = TCP_ESTABLISHED
                                    THEN EVENT_TCP_ACCEPT ELSE EVENT_TCP_CLOSE,
                   tid |-> t, sock |-> s, tcp_state |-> state]
<1>1. evt \in TcpEvents
  BY DEF TcpEvents
<1>2. evt.event_type # EVENT_TCP_CONNECT
  BY DEF EVENT_TCP_CONNECT, EVENT_TCP_ACCEPT, EVENT_TCP_CLOSE
<1>3. emit_event(evt) \/ NoEmit \/ Unnoticed(s)
  BY DEF handle_tcp_set_state
<1> HIDE DEF evt
<1>4. CASE emit_event(evt)
  BY <1>1, <1>2, <1>4, EmitType
<1>5. CASE NoEmit \/ Unnoticed(s)
  BY <1>5 DEF NoEmit, Unnoticed, TypeOK, Connects
<1> QED BY <1>3, <1>4, <1>5

LEMMA ZeroIsNoState == 0 \notin KernelStates /\ TCP_SYN_SENT \in KernelStates /\ TCP_CLOSE \in KernelStates
                       /\ TCP_ESTABLISHED \in KernelStates
BY DEF KernelStates, TCP_SYN_SENT, TCP_CLOSE, TCP_ESTABLISHED, KERNEL_FIN_WAIT1, KERNEL_CLOSE_WAIT

LEMMA IdleIsIdle ==
    Idle.at = "user" /\ Idle.sock = NoSock /\ Idle.hooked = FALSE
    /\ Idle \in [at : {"user", "entered", "sent", "failed"},
                 sock : Sockets \cup {NoSock}, hooked : BOOLEAN]
BY DEF Idle

-----------------------------------------------------------------------------
(* Initial states.                                                         *)

LEMMA InitTruth == Init => TruthInv
<1> SUFFICES ASSUME Init PROVE TruthInv
  OBVIOUS
<1>1. TypeOK
  BY IdleIsIdle DEF Init, TypeOK
<1>2. \A t \in Threads : CallOK(t) /\ EntryOK(t)
  BY IdleIsIdle DEF Init, CallOK, EntryOK
<1>3. Reported
  BY DEF Init, Reported
<1>4. RingTrue
  BY DEF Init, RingTrue, Connects
<1> QED BY <1>1, <1>2, <1>3, <1>4 DEF TruthInv, PairInv

-----------------------------------------------------------------------------
(* The pairing of entries and returns, one lemma per action.               *)

LEMMA AttachPair ==
    ASSUME PairInv, Attach
    PROVE  PairInv' /\ attached \subseteq attached'
<1>1. todo \in {Probes, Tail(Probes), Tail(Tail(Probes)), <<>>} /\ todo # <<>>
  BY DEF PairInv, TypeOK, Attach
<1>2. /\ todo' \in {Probes, Tail(Probes), Tail(Tail(Probes)), <<>>}
      /\ Head(todo) \in {Probes[i] : i \in 1 .. 3}
  <2>1. Tail(Probes) = <<"tcp_v4_connect", "tcp_set_state">>
    BY DEF Probes
  <2>2. Tail(Tail(Probes)) = <<"tcp_set_state">>
    <3>1. Tail(<<"tcp_v4_connect", "tcp_set_state">>) = <<"tcp_set_state">>
      OBVIOUS
    <3> QED BY <2>1, <3>1
  <2>3. Tail(Tail(Tail(Probes))) = <<>>
    <3>1. Tail(<<"tcp_set_state">>) = <<>>
      OBVIOUS
    <3> QED BY <2>2, <3>1
  <2>4. todo' \in {Probes, Tail(Probes), Tail(Tail(Probes)), <<>>}
    BY <1>1, <2>3 DEF Attach
  <2>5. Head(todo) \in {Probes[1], Probes[2], Probes[3]}
    BY <1>1, <2>1, <2>2 DEF Probes
  <2> QED BY <2>4, <2>5
<1>3. attached \subseteq attached' /\ attached' \in SUBSET {Probes[i] : i \in 1 .. 3}
  BY <1>2 DEF PairInv, TypeOK, Attach
<1>4. TypeOK'
  BY <1>2, <1>3 DEF PairInv, TypeOK, Attach, kernelVars, userVars, ghostVars
<1>5. \A t \in Threads : CallOK(t)' /\ EntryOK(t)'
  BY <1>3 DEF PairInv, CallOK, EntryOK, Attach, kernelVars, ghostVars
<1> QED BY <1>3, <1>4, <1>5 DEF PairInv

LEMMA DetachPair ==
    ASSUME PairInv, Detach
    PROVE  PairInv'
<1>1. TypeOK'
  BY DEF PairInv, TypeOK, Detach, kernelVars, ghostVars
<1>2. \A t \in Threads : CallOK(t)' /\ EntryOK(t)'
  BY DEF PairInv, CallOK, EntryOK, Detach, kernelVars, ghostVars
<1> QED BY <1>1, <1>2 DEF PairInv

\* The type of the calls when one of them changes.
LEMMA OneCall ==
    ASSUME TypeOK, NEW t \in Threads,
           NEW c \in [at : {"user", "entered", "sent", "failed"},
                      sock : Sockets \cup {NoSock}, hooked : BOOLEAN],
           conn' = [conn EXCEPT ![t] = c]
    PROVE  /\ conn' \in [Threads -> [at : {"user", "entered", "sent", "failed"},
                                     sock : Sockets \cup {NoSock}, hooked : BOOLEAN]]
           /\ conn'[t] = c
           /\ \A u \in Threads \ {t} : conn'[u] = conn[u]
BY DEF TypeOK

LEMMA EnterPair ==
    ASSUME PairInv, NEW t \in Threads, NEW s \in Sockets, EnterConnect(t, s)
    PROVE  PairInv'
<1> USE DEF EnterConnect
<1> DEFINE c == [at |-> "entered", sock |-> s,
                 hooked |-> s \notin V6 /\ "tcp_v4_connect" \in attached]
<1>1. c \in [at : {"user", "entered", "sent", "failed"},
             sock : Sockets \cup {NoSock}, hooked : BOOLEAN]
      /\ c.at = "entered" /\ c.sock = s /\ (c.hooked => s \notin V6)
  OBVIOUS
<1> HIDE DEF c
<1>2. /\ conn' \in [Threads -> [at : {"user", "entered", "sent", "failed"},
                                sock : Sockets \cup {NoSock}, hooked : BOOLEAN]]
      /\ conn'[t] = c
      /\ \A u \in Threads \ {t} : conn'[u] = conn[u]
  BY <1>1, OneCall DEF PairInv, c
<1>3. opener' \in [Sockets -> Threads \cup {NoThread}] /\ opener'[s] = t
      /\ \A r \in Sockets \ {s} : opener'[r] = opener[r]
  BY DEF PairInv, TypeOK
<1>4. TypeOK'
  BY <1>2, <1>3 DEF PairInv, TypeOK, probeVars, userVars
<1>5. CallOK(t)'
  BY <1>1, <1>2, <1>3 DEF CallOK
<1>6. \A u \in Threads \ {t} : CallOK(u)'
  BY <1>2, <1>3 DEF PairInv, CallOK
<1>7. ASSUME NEW u \in Threads, connect_info'[u] # NoEvent PROVE EntryOK(u)'
  <2>1. EntryOK(u) /\ connect_info[u] \in Partial
    BY <1>7 DEF PairInv, TypeOK
  <2>2. connect_info[u].sock \in Sockets \ {s}
    BY <1>7, <2>1 DEF EntryOK, Partial
  <2> QED BY <1>1, <1>2, <1>3, <1>7, <2>1, <2>2 DEF EntryOK, probeVars
<1> QED BY <1>4, <1>5, <1>6, <1>7 DEF PairInv, EntryOK

LEMMA TcpConnectPair ==
    ASSUME PairInv, NEW t \in Threads, TcpConnect(t)
    PROVE  PairInv'
<1> USE DEF TcpConnect
<1> DEFINE s == conn[t].sock
           c == [conn[t] EXCEPT !.at = "sent"]
<1>1. /\ CallOK(t) /\ s \in Sockets /\ opener[s] = t /\ sk[s] = 0
      /\ conn[t] \in [at : {"user", "entered", "sent", "failed"},
                      sock : Sockets \cup {NoSock}, hooked : BOOLEAN]
  BY DEF PairInv, CallOK, TypeOK
<1>2. c \in [at : {"user", "entered", "sent", "failed"},
             sock : Sockets \cup {NoSock}, hooked : BOOLEAN]
      /\ c.at = "sent" /\ c.sock = s /\ c.hooked = conn[t].hooked
  BY <1>1
<1>3. conn' = [conn EXCEPT ![t] = c]
  BY DEF PairInv, TypeOK
<1> HIDE DEF c
<1>4. /\ conn' \in [Threads -> [at : {"user", "entered", "sent", "failed"},
                                sock : Sockets \cup {NoSock}, hooked : BOOLEAN]]
      /\ conn'[t] = c
      /\ \A u \in Threads \ {t} : conn'[u] = conn[u]
  BY <1>2, <1>3, OneCall DEF PairInv
<1>5. sk' \in [Sockets -> KernelStates \cup {0}] /\ sk'[s] # 0
      /\ \A r \in Sockets \ {s} : sk'[r] = sk[r]
  BY <1>1, ZeroIsNoState DEF PairInv, TypeOK
<1>6. /\ connect_info' \in [Threads -> Partial \cup {NoEvent}]
      /\ \A u \in Threads \ {t} : connect_info'[u] = connect_info[u]
      /\ \/ connect_info'[t] = [tid |-> t, sock |-> s] /\ "tcp_connect" \in attached
         \/ connect_info'[t] = NoEvent
  <2>1. [tid |-> t, sock |-> s] \in Partial
    BY <1>1 DEF Partial
  <2>2. connect_info[t] # NoEvent => "tcp_connect" \in attached /\ CanStore(t)
    BY DEF PairInv, EntryOK, CanStore
  <2>3. CASE "tcp_connect" \in attached /\ CanStore(t)
    BY <2>1, <2>3 DEF handle_tcp_connect, PairInv, TypeOK
  <2>4. CASE ~("tcp_connect" \in attached /\ CanStore(t))
    BY <2>2, <2>4 DEF handle_tcp_connect, PairInv, TypeOK
  <2> QED BY <2>3, <2>4
<1>7. TypeOK'
  BY <1>4, <1>5, <1>6 DEF PairInv, TypeOK, probeVars, userVars, ghostVars
<1>8. CallOK(t)'
  BY <1>1, <1>2, <1>4, <1>5 DEF CallOK, ghostVars
<1>9. ASSUME NEW u \in Threads \ {t} PROVE CallOK(u)' /\ EntryOK(u)'
  <2>1. CallOK(u) /\ EntryOK(u) /\ conn'[u] = conn[u] /\ connect_info'[u] = connect_info[u]
        /\ connect_info[u] \in Partial \cup {NoEvent} /\ opener' = opener /\ unseen' = unseen
        /\ attached' = attached
    BY <1>4, <1>6 DEF PairInv, TypeOK, ghostVars, probeVars
  <2>2. conn[u].at # "user" => conn[u].sock \in Sockets \ {s}
    BY <1>1, <2>1 DEF CallOK
  <2>3. CallOK(u)'
    BY <1>5, <2>1, <2>2 DEF CallOK
  <2>4. connect_info[u] # NoEvent => connect_info[u].sock \in Sockets \ {s}
    BY <1>1, <2>1 DEF EntryOK, Partial
  <2>5. EntryOK(u)'
    BY <1>5, <2>1, <2>4 DEF EntryOK
  <2> QED BY <2>3, <2>5
<1>10. EntryOK(t)'
  BY <1>1, <1>2, <1>4, <1>5, <1>6 DEF EntryOK, ghostVars, probeVars
<1> QED BY <1>7, <1>8, <1>9, <1>10 DEF PairInv

LEMMA FailPair ==
    ASSUME PairInv, NEW t \in Threads, FailConnect(t)
    PROVE  PairInv' /\ Connects' \subseteq Connects
<1> USE DEF FailConnect
<1> DEFINE s == conn[t].sock
           c == [conn[t] EXCEPT !.at = "failed"]
<1>1. /\ CallOK(t) /\ s \in Sockets /\ opener[s] = t
      /\ conn[t] \in [at : {"user", "entered", "sent", "failed"},
                      sock : Sockets \cup {NoSock}, hooked : BOOLEAN]
  BY DEF PairInv, CallOK, TypeOK
<1>2. c \in [at : {"user", "entered", "sent", "failed"},
             sock : Sockets \cup {NoSock}, hooked : BOOLEAN]
      /\ c.at = "failed" /\ c.sock = s /\ c.hooked = conn[t].hooked
  BY <1>1
<1>3. conn' = [conn EXCEPT ![t] = c]
  BY DEF PairInv, TypeOK
<1> HIDE DEF c
<1>4. /\ conn' \in [Threads -> [at : {"user", "entered", "sent", "failed"},
                                sock : Sockets \cup {NoSock}, hooked : BOOLEAN]]
      /\ conn'[t] = c
      /\ \A u \in Threads \ {t} : conn'[u] = conn[u]
  BY <1>2, <1>3, OneCall DEF PairInv
<1>5. sk' \in [Sockets -> KernelStates \cup {0}] /\ sk'[s] # 0
      /\ \A r \in Sockets \ {s} : sk'[r] = sk[r]
  BY <1>1, ZeroIsNoState DEF PairInv, TypeOK
<1>6. /\ tcp_events' \in Seq(TcpEvents) /\ lost' \in SUBSET Sockets
      /\ Connects' \subseteq Connects
  BY <1>1, ZeroIsNoState, SetStateRing DEF PairInv
<1>7. TypeOK'
  BY <1>4, <1>5, <1>6 DEF PairInv, TypeOK, probeVars, userVars, ghostVars
<1>8. CallOK(t)'
  BY <1>1, <1>2, <1>4, <1>5 DEF CallOK, ghostVars
<1>9. ASSUME NEW u \in Threads \ {t} PROVE CallOK(u)'
  <2>1. CallOK(u) /\ conn'[u] = conn[u] /\ opener' = opener
    BY <1>4 DEF PairInv, ghostVars
  <2>2. conn[u].at # "user" => conn[u].sock \in Sockets \ {s}
    BY <1>1, <2>1 DEF CallOK
  <2> QED BY <1>5, <2>1, <2>2 DEF CallOK
<1>10. ASSUME NEW u \in Threads PROVE EntryOK(u)'
  <2>1. EntryOK(u) /\ connect_info' = connect_info /\ opener' = opener /\ unseen' = unseen
        /\ attached' = attached /\ connect_info[u] \in Partial \cup {NoEvent}
    BY DEF PairInv, TypeOK, ghostVars, probeVars
  <2>2. connect_info[u] # NoEvent => connect_info[u].sock \in Sockets /\ sk'[connect_info[u].sock] # 0
    BY <1>5, <2>1 DEF EntryOK, Partial
  <2>3. conn'[u].at = "sent" => u # t
    BY <1>2, <1>4
  <2>4. conn[u].at \in {"sent", "failed"} => conn'[u].at \in {"sent", "failed"} /\ conn'[u].sock = conn[u].sock
    BY <1>2, <1>4
  <2> QED BY <1>4, <2>1, <2>2, <2>3, <2>4 DEF EntryOK
<1> QED BY <1>6, <1>7, <1>8, <1>9, <1>10 DEF PairInv

LEMMA SetStatePair ==
    ASSUME PairInv, NEW t \in Threads, NEW s \in Sockets, NEW state \in KernelStates,
           SetState(t, s, state)
    PROVE  PairInv' /\ Connects' \subseteq Connects
<1> USE DEF SetState
<1>1. sk' \in [Sockets -> KernelStates \cup {0}] /\ sk'[s] # 0
      /\ \A r \in Sockets \ {s} : sk'[r] = sk[r]
  BY ZeroIsNoState DEF PairInv, TypeOK
<1>2. /\ tcp_events' \in Seq(TcpEvents) /\ lost' \in SUBSET Sockets
      /\ Connects' \subseteq Connects
  BY SetStateRing DEF PairInv
<1>3. TypeOK'
  BY <1>1, <1>2 DEF PairInv, TypeOK, probeVars, userVars, ghostVars
<1>4. \A u \in Threads : CallOK(u)'
  BY <1>1 DEF PairInv, CallOK, ghostVars
<1>5. ASSUME NEW u \in Threads PROVE EntryOK(u)'
  <2>1. EntryOK(u) /\ connect_info[u] \in Partial \cup {NoEvent}
    BY DEF PairInv, TypeOK
  <2>2. connect_info[u] # NoEvent => sk'[connect_info[u].sock] # 0
    BY <1>1, <2>1 DEF EntryOK, Partial
  <2> QED BY <2>1, <2>2 DEF EntryOK, ghostVars, probeVars
<1> QED BY <1>2, <1>3, <1>4, <1>5 DEF PairInv

LEMMA CallbackPair ==
    ASSUME PairInv, handle_tcp_event
    PROVE  PairInv' /\ Connects' \subseteq Connects
<1> USE DEF handle_tcp_event
<1> DEFINE evt == Head(tcp_events)
<1>1. tcp_events \in Seq(TcpEvents) /\ tcp_events # <<>>
  BY DEF PairInv, TypeOK
<1>2. evt \in TcpEvents /\ tcp_events' \in Seq(TcpEvents)
  BY <1>1
<1>3. \A i \in 1 .. Len(tcp_events') : \E j \in 1 .. Len(tcp_events) : tcp_events[j] = tcp_events'[i]
  <2>1. Len(tcp_events) \in Nat /\ Len(tcp_events') = Len(tcp_events) - 1
        /\ \A i \in 1 .. Len(tcp_events) - 1 : tcp_events'[i] = tcp_events[i + 1]
    BY <1>1
  <2> QED BY <2>1
<1>4. connections' \in [Sockets -> Tracked \cup {Nothing}]
  <2>1. evt.tcp_state \in KernelStates /\ evt.sock \in Sockets /\ evt.tid \in Threads
    BY <1>2 DEF TcpEvents
  <2>2. [state |-> tcp_state_name(evt.tcp_state), tid |-> evt.tid] \in Tracked
    BY <2>1 DEF Tracked, Names
  <2> HIDE DEF evt
  <2> QED BY <2>1, <2>2 DEF Upsert, PairInv, TypeOK, evt
<1>5. TypeOK'
  BY <1>2, <1>4 DEF PairInv, TypeOK, kernelVars, probeVars, ghostVars
<1>6. \A t \in Threads : CallOK(t)' /\ EntryOK(t)'
  BY DEF PairInv, CallOK, EntryOK, kernelVars, probeVars, ghostVars
<1>7. Connects' \subseteq Connects
  BY <1>3 DEF Connects
<1> QED BY <1>5, <1>6, <1>7 DEF PairInv

LEMMA DrainPair ==
    ASSUME PairInv, drain_events
    PROVE  PairInv'
<1> USE DEF drain_events
<1>1. shown' \in [Sockets -> Names \cup {Nothing}]
  <2>1. \A s \in Pending : connections[s].state \in Names
    BY DEF Pending, PairInv, TypeOK, Tracked
  <2> QED BY <2>1 DEF PairInv, TypeOK
<1>2. TypeOK'
  BY <1>1 DEF PairInv, TypeOK, kernelVars, probeVars, ghostVars
<1>3. \A t \in Threads : CallOK(t)' /\ EntryOK(t)'
  BY DEF PairInv, CallOK, EntryOK, kernelVars, probeVars, ghostVars
<1> QED BY <1>2, <1>3 DEF PairInv

-----------------------------------------------------------------------------
(* The return of a connect.                                                *)

\* The event that the return probe completes.
Completed(t) == [event_type |-> EVENT_TCP_CONNECT, tid |-> connect_info[t].tid,
                 sock |-> connect_info[t].sock, tcp_state |-> TCP_ESTABLISHED]

\* The return does one of three things: nothing, drop the entry, or drop it and
\* emit its event, and the last only in a probed call that returns 0.
LEMMA ReturnCases ==
    ASSUME PairInv, NEW t \in Threads, NEW ret \in {-1, 0}, ReturnConnect(t, ret)
    PROVE  \/ /\ ~(conn[t].hooked /\ "tcp_v4_connect" \in attached)
              /\ NoEmit /\ UNCHANGED <<told, connect_info>>
              /\ unseen' = unseen \cup {conn[t].sock}
           \/ /\ connect_info[t] = NoEvent
              /\ NoEmit /\ UNCHANGED <<told, connect_info, unseen>>
           \/ /\ connect_info[t] # NoEvent /\ ret # 0
              /\ NoEmit /\ UNCHANGED <<told, unseen>>
              /\ connect_info' = [connect_info EXCEPT ![t] = NoEvent]
           \/ /\ connect_info[t] # NoEvent /\ ret = 0 /\ conn[t].hooked
              /\ emit_event(Completed(t)) /\ UNCHANGED unseen
              /\ told' = [told EXCEPT ![connect_info[t].sock] = @ + 1]
              /\ connect_info' = [connect_info EXCEPT ![t] = NoEvent]
<1>1. CASE ~(conn[t].hooked /\ "tcp_v4_connect" \in attached)
  BY <1>1 DEF ReturnConnect
<1>2. CASE conn[t].hooked /\ "tcp_v4_connect" \in attached
  <2>1. handle_tcp_v4_connect_ret(t, ret) /\ UNCHANGED unseen
    BY <1>2 DEF ReturnConnect
  <2>2. CASE connect_info[t] = NoEvent
    BY <2>1, <2>2 DEF handle_tcp_v4_connect_ret
  <2>3. CASE connect_info[t] # NoEvent /\ ret # 0
    BY <2>1, <2>3 DEF handle_tcp_v4_connect_ret
  <2>4. CASE connect_info[t] # NoEvent /\ ret = 0
    BY <1>2, <2>1, <2>4 DEF handle_tcp_v4_connect_ret, Completed
  <2> QED BY <2>2, <2>3, <2>4
<1> QED BY <1>1, <1>2

LEMMA ReturnFacts ==
    ASSUME PairInv, NEW t \in Threads, NEW ret \in {-1, 0}, ReturnConnect(t, ret)
    PROVE  /\ conn[t].at # "user" /\ conn[t].sock \in Sockets /\ opener[conn[t].sock] = t
           /\ conn' \in [Threads -> [at : {"user", "entered", "sent", "failed"},
                                     sock : Sockets \cup {NoSock}, hooked : BOOLEAN]]
           /\ conn'[t] = Idle
           /\ \A u \in Threads \ {t} : conn'[u] = conn[u]
           /\ result' \in [Sockets -> {"none", "ok", "error"}]
           /\ result'[conn[t].sock] = IF ret = 0 THEN "ok" ELSE "error"
           /\ \A r \in Sockets \ {conn[t].sock} : result'[r] = result[r]
           /\ UNCHANGED <<sk, todo, attached, connections, shown, opener>>
<1>1. conn[t].at # "user"
  BY DEF ReturnConnect
<1>2. conn[t].sock \in Sockets /\ opener[conn[t].sock] = t
  BY <1>1 DEF PairInv, CallOK
<1>3. conn' = [conn EXCEPT ![t] = Idle]
  BY DEF ReturnConnect
<1>4. /\ conn' \in [Threads -> [at : {"user", "entered", "sent", "failed"},
                                sock : Sockets \cup {NoSock}, hooked : BOOLEAN]]
      /\ conn'[t] = Idle
      /\ \A u \in Threads \ {t} : conn'[u] = conn[u]
  BY <1>3, IdleIsIdle, OneCall DEF PairInv
<1>5. result' = [result EXCEPT ![conn[t].sock] = IF ret = 0 THEN "ok" ELSE "error"]
  BY DEF ReturnConnect
<1>6. result \in [Sockets -> {"none", "ok", "error"}]
  BY DEF PairInv, TypeOK
<1>7. UNCHANGED <<sk, todo, attached, connections, shown, opener>>
  BY DEF ReturnConnect, probeVars, userVars
<1> QED BY <1>1, <1>2, <1>4, <1>5, <1>6, <1>7

LEMMA ReturnPair ==
    ASSUME PairInv, NEW t \in Threads, NEW ret \in {-1, 0}, ReturnConnect(t, ret)
    PROVE  PairInv'
<1> DEFINE s == conn[t].sock
<1>1. /\ conn[t].at # "user" /\ s \in Sockets /\ opener[s] = t
      /\ conn' \in [Threads -> [at : {"user", "entered", "sent", "failed"},
                                sock : Sockets \cup {NoSock}, hooked : BOOLEAN]]
      /\ conn'[t] = Idle
      /\ \A u \in Threads \ {t} : conn'[u] = conn[u]
      /\ result' \in [Sockets -> {"none", "ok", "error"}]
      /\ UNCHANGED <<sk, todo, attached, connections, shown, opener>>
  BY ReturnFacts
<1>2. /\ tcp_events' \in Seq(TcpEvents) /\ lost' \in SUBSET Sockets
      /\ told' \in [Sockets -> Nat] /\ unseen' \in SUBSET Sockets
      /\ connect_info' \in [Threads -> Partial \cup {NoEvent}]
  <2>1. /\ tcp_events \in Seq(TcpEvents) /\ lost \in SUBSET Sockets
        /\ told \in [Sockets -> Nat] /\ unseen \in SUBSET Sockets
        /\ connect_info \in [Threads -> Partial \cup {NoEvent}]
    BY DEF PairInv, TypeOK
  <2>2. CASE connect_info[t] # NoEvent /\ emit_event(Completed(t)) /\ UNCHANGED unseen
              /\ told' = [told EXCEPT ![connect_info[t].sock] = @ + 1]
              /\ connect_info' = [connect_info EXCEPT ![t] = NoEvent]
    <3>1. connect_info[t] \in Partial
      BY <2>1, <2>2
    <3>2. Completed(t) \in TcpEvents
      BY <3>1, ZeroIsNoState DEF Completed, Partial, TcpEvents
    <3>3. tcp_events' \in Seq(TcpEvents) /\ lost' \in SUBSET Sockets
      BY <2>2, <3>2, EmitType DEF PairInv
    <3>4. connect_info[t].sock \in Sockets
      BY <3>1 DEF Partial
    <3>5. told' \in [Sockets -> Nat]
      BY <2>1, <2>2, <3>4
    <3>6. connect_info' \in [Threads -> Partial \cup {NoEvent}]
      BY <2>1, <2>2
    <3> QED BY <2>1, <2>2, <3>3, <3>5, <3>6
  <2>3. CASE NoEmit /\ UNCHANGED told /\ unseen' \in {unseen, unseen \cup {s}}
              /\ connect_info' \in {connect_info, [connect_info EXCEPT ![t] = NoEvent]}
    BY <1>1, <2>1, <2>3 DEF NoEmit
  <2> QED BY <2>2, <2>3, ReturnCases
<1>3. TypeOK'
  BY <1>1, <1>2 DEF PairInv, TypeOK
<1>4. \A u \in Threads : CallOK(u)'
  BY <1>1, IdleIsIdle DEF PairInv, CallOK
<1>5. ASSUME NEW u \in Threads \ {t} PROVE EntryOK(u)'
  <2>1. connect_info'[u] = connect_info[u] /\ unseen \subseteq unseen'
    BY ReturnCases DEF PairInv, TypeOK
  <2> QED BY <1>1, <2>1 DEF PairInv, EntryOK
<1>6. EntryOK(t)'
  <2>1. CASE connect_info'[t] = NoEvent
    BY <2>1 DEF EntryOK
  <2>2. CASE connect_info' = connect_info /\ unseen' = unseen \cup {s}
    BY <1>1, <2>2, IdleIsIdle DEF PairInv, EntryOK
  <2>3. connect_info \in [Threads -> Partial \cup {NoEvent}]
    BY DEF PairInv, TypeOK
  <2>4. \/ connect_info' = connect_info /\ unseen' = unseen \cup {s}
        \/ connect_info[t] = NoEvent /\ connect_info' = connect_info
        \/ connect_info' = [connect_info EXCEPT ![t] = NoEvent]
    BY ReturnCases
  <2> QED BY <2>1, <2>2, <2>3, <2>4
<1> QED BY <1>3, <1>4, <1>5, <1>6 DEF PairInv

-----------------------------------------------------------------------------
LEMMA PairStep == PairInv /\ [Next]_vars => PairInv'
<1> SUFFICES ASSUME PairInv, [Next]_vars PROVE PairInv'
  OBVIOUS
<1>1. CASE UNCHANGED vars
  BY <1>1 DEF PairInv, TypeOK, CallOK, EntryOK, vars
<1>2. CASE Kernel
  BY <1>2, EnterPair, TcpConnectPair, FailPair, ReturnPair, SetStatePair DEF Kernel
<1>3. CASE Attach \/ Detach \/ handle_tcp_event \/ drain_events
  BY <1>3, AttachPair, DetachPair, CallbackPair, DrainPair
<1> QED BY <1>1, <1>2, <1>3 DEF Next

LEMMA PairInvariance == Spec => []PairInv
<1>1. Init => PairInv
  BY InitTruth DEF TruthInv
<1> QED BY <1>1, PairStep, PTL DEF Spec

-----------------------------------------------------------------------------
(* What the events say.                                                    *)

\* If the ring gains no connect event and the reported sockets keep what is
\* known of them, the invariant is kept.
LEMMA TruthFrame ==
    ASSUME TruthInv, PairInv', Connects' \subseteq Connects, told' = told,
           \A s \in Sockets : told[s] = 1 =>
              /\ result'[s] = "ok" /\ sk'[s] # 0 /\ opener'[s] = opener[s]
              /\ \A u \in Threads : conn'[u].sock # s
    PROVE  TruthInv'
<1>1. Reported'
  BY DEF TruthInv, Reported
<1>2. RingTrue'
  <2> SUFFICES ASSUME NEW evt \in Connects'
               PROVE  told'[evt.sock] = 1 /\ opener'[evt.sock] = evt.tid
    BY DEF RingTrue
  <2>1. evt \in Connects /\ evt.sock \in Sockets
    BY DEF Connects, TcpEvents
  <2>2. told[evt.sock] = 1 /\ opener[evt.sock] = evt.tid
    BY <2>1 DEF TruthInv, RingTrue
  <2> QED BY <2>1, <2>2
<1> QED BY <1>1, <1>2 DEF TruthInv

LEMMA SameRing ==
    ASSUME tcp_events' = tcp_events
    PROVE  Connects' \subseteq Connects
BY DEF Connects

LEMMA EnterTruth ==
    ASSUME TruthInv, NEW t \in Threads, NEW s \in Sockets, EnterConnect(t, s)
    PROVE  TruthInv'
<1>1. PairInv' /\ Connects' \subseteq Connects /\ told' = told
  BY EnterPair, SameRing DEF TruthInv, EnterConnect
<1>2. ASSUME NEW r \in Sockets, told[r] = 1
      PROVE  /\ result'[r] = "ok" /\ sk'[r] # 0 /\ opener'[r] = opener[r]
             /\ \A u \in Threads : conn'[u].sock # r
  <2>1. result[r] = "ok" /\ sk[r] # 0 /\ \A u \in Threads : conn[u].sock # r
    BY <1>2 DEF TruthInv, Reported
  <2>2. r # s
    BY <2>1 DEF EnterConnect
  <2> QED BY <2>1, <2>2 DEF EnterConnect, TruthInv, PairInv, TypeOK
<1> QED BY <1>1, <1>2, TruthFrame

LEMMA InsideTruth ==
    ASSUME TruthInv, NEW t \in Threads, TcpConnect(t) \/ FailConnect(t)
    PROVE  TruthInv'
<1>1. PairInv' /\ Connects' \subseteq Connects /\ told' = told
  BY TcpConnectPair, FailPair, SameRing DEF TruthInv, TcpConnect, FailConnect
<1>2. conn[t].at # "user" /\ conn[t].sock \in Sockets
  BY DEF TcpConnect, FailConnect, TruthInv, PairInv, CallOK
<1>3. \A u \in Threads : conn'[u].sock = conn[u].sock
  <2>1. conn \in [Threads -> [at : {"user", "entered", "sent", "failed"},
                             sock : Sockets \cup {NoSock}, hooked : BOOLEAN]]
    BY DEF TruthInv, PairInv, TypeOK
  <2>2. CASE conn' = [conn EXCEPT ![t].at = "sent"]
    BY <2>1, <2>2
  <2>3. CASE conn' = [conn EXCEPT ![t].at = "failed"]
    BY <2>1, <2>3
  <2> QED BY <2>2, <2>3 DEF TcpConnect, FailConnect
<1>4. \A r \in Sockets \ {conn[t].sock} : sk'[r] = sk[r]
  BY <1>2 DEF TcpConnect, FailConnect, TruthInv, PairInv, TypeOK
<1>5. opener' = opener /\ result' = result
  BY DEF TcpConnect, FailConnect, ghostVars
<1> QED BY <1>1, <1>3, <1>4, <1>5, TruthFrame DEF TruthInv, Reported

LEMMA SetStateTruth ==
    ASSUME TruthInv, NEW t \in Threads, NEW s \in Sockets, NEW state \in KernelStates,
           SetState(t, s, state)
    PROVE  TruthInv'
<1>1. PairInv' /\ Connects' \subseteq Connects /\ told' = told
  BY SetStatePair DEF TruthInv, SetState
<1>2. opener' = opener /\ result' = result /\ conn' = conn
  BY DEF SetState, ghostVars
<1>3. \A r \in Sockets : sk[r] # 0 => sk'[r] # 0
  BY ZeroIsNoState DEF SetState, TruthInv, PairInv, TypeOK
<1> QED BY <1>1, <1>2, <1>3, TruthFrame DEF TruthInv, Reported

LEMMA OtherTruth ==
    ASSUME TruthInv, Attach \/ Detach \/ handle_tcp_event \/ drain_events
    PROVE  TruthInv'
<1>1. PairInv'
  BY AttachPair, DetachPair, CallbackPair, DrainPair DEF TruthInv
<1>2. told' = told /\ opener' = opener /\ result' = result /\ conn' = conn /\ sk' = sk
  BY DEF Attach, Detach, handle_tcp_event, drain_events, kernelVars, ghostVars
<1>3. Connects' \subseteq Connects
  <2>1. CASE Attach \/ drain_events
    BY <2>1, SameRing DEF Attach, drain_events
  <2>2. CASE Detach
    BY <2>2 DEF Detach, Connects
  <2>3. CASE handle_tcp_event
    BY <2>3, CallbackPair DEF TruthInv
  <2> QED BY <2>1, <2>2, <2>3
<1> QED BY <1>1, <1>2, <1>3, TruthFrame DEF TruthInv, Reported

LEMMA ReturnTruth ==
    ASSUME FastOpen = FALSE, TruthInv, NEW t \in Threads, NEW ret \in {-1, 0},
           ReturnConnect(t, ret)
    PROVE  TruthInv'
<1> DEFINE s == conn[t].sock
<1>1. PairInv'
  BY ReturnPair DEF TruthInv
<1>2. /\ conn[t].at # "user" /\ s \in Sockets /\ opener[s] = t
      /\ conn'[t] = Idle
      /\ \A u \in Threads \ {t} : conn'[u] = conn[u]
      /\ result'[s] = IF ret = 0 THEN "ok" ELSE "error"
      /\ \A r \in Sockets \ {s} : result'[r] = result[r]
      /\ UNCHANGED <<sk, opener>>
  BY ReturnFacts DEF TruthInv
<1>3. told[s] # 1 /\ told[s] \in {0, 1}
  BY <1>2 DEF TruthInv, Reported
<1>4. \A u \in Threads : \A r \in Sockets : conn[u].sock # r => conn'[u].sock # r
  BY <1>2, IdleIsIdle, NoneAssumption
<1>5. CASE NoEmit /\ UNCHANGED told
  <2>1. Connects' \subseteq Connects
    BY <1>5, SameRing DEF NoEmit
  <2> QED BY <1>1, <1>2, <1>3, <1>4, <1>5, <2>1, TruthFrame DEF TruthInv, Reported
<1>6. CASE /\ connect_info[t] # NoEvent /\ ret = 0 /\ conn[t].hooked
           /\ emit_event(Completed(t))
           /\ told' = [told EXCEPT ![connect_info[t].sock] = @ + 1]
  <2>1. conn[t].at = "sent" /\ sk[s] # 0 /\ s \notin V6
    BY <1>6 DEF ReturnConnect, TruthInv, PairInv, CallOK
  <2>2. connect_info[t] \in Partial /\ connect_info[t].sock = s /\ connect_info[t].tid = t
    BY <1>6, <2>1 DEF TruthInv, PairInv, TypeOK, EntryOK
  <2>3. told'[s] = 1 /\ \A r \in Sockets \ {s} : told'[r] = told[r]
    BY <1>2, <1>3, <1>6, <2>2 DEF TruthInv, PairInv, TypeOK
  <2>4. \A u \in Threads : conn'[u].sock # s
    <3> SUFFICES ASSUME NEW u \in Threads PROVE conn'[u].sock # s
      OBVIOUS
    <3>1. CASE u = t
      BY <1>2, <3>1, IdleIsIdle, NoneAssumption
    <3>2. CASE u # t
      <4>1. conn'[u] = conn[u] /\ CallOK(u)
        BY <1>2, <3>2 DEF TruthInv, PairInv
      <4>2. CASE conn[u].at = "user"
        BY <1>2, <4>1, <4>2, IdleIsIdle, NoneAssumption DEF CallOK
      <4>3. CASE conn[u].at # "user"
        BY <1>2, <3>2, <4>1, <4>3 DEF CallOK
      <4> QED BY <4>2, <4>3
    <3> QED BY <3>1, <3>2
  <2>5. Reported'
    <3> SUFFICES ASSUME NEW r \in Sockets
                 PROVE  /\ told'[r] \in {0, 1}
                        /\ told'[r] = 1 => /\ result'[r] = "ok" /\ r \notin V6 /\ sk'[r] # 0
                                           /\ \A u \in Threads : conn'[u].sock # r
      BY DEF Reported
    <3>1. CASE r = s
      BY <1>2, <1>6, <2>1, <2>3, <2>4, <3>1
    <3>2. CASE r # s
      BY <1>2, <1>4, <2>3, <3>2 DEF TruthInv, Reported
    <3> QED BY <3>1, <3>2
  <2>6. Completed(t) \in TcpEvents /\ Completed(t).sock = s /\ Completed(t).tid = t
    BY <1>2, <2>2, ZeroIsNoState DEF Completed, TcpEvents
  <2>7. Connects' \subseteq Connects \cup {Completed(t)}
    BY <1>6, <2>6, EmitType DEF TruthInv, PairInv
  <2>8. RingTrue'
    <3> SUFFICES ASSUME NEW evt \in Connects'
                 PROVE  told'[evt.sock] = 1 /\ opener'[evt.sock] = evt.tid
      BY DEF RingTrue
    <3>1. CASE evt = Completed(t)
      BY <1>2, <2>3, <2>6, <3>1
    <3>2. CASE evt \in Connects
      <4>1. evt.sock \in Sockets /\ told[evt.sock] = 1 /\ opener[evt.sock] = evt.tid
        BY <3>2 DEF TruthInv, RingTrue, Connects, TcpEvents
      <4> QED BY <1>2, <1>3, <2>3, <4>1
    <3> QED BY <2>7, <3>1, <3>2
  <2> QED BY <1>1, <2>5, <2>8 DEF TruthInv
<1> QED BY <1>5, <1>6, ReturnCases DEF TruthInv

LEMMA TruthStep ==
    ASSUME FastOpen = FALSE
    PROVE  TruthInv /\ [Next]_vars => TruthInv'
<1> SUFFICES ASSUME TruthInv, [Next]_vars PROVE TruthInv'
  OBVIOUS
<1>1. CASE UNCHANGED vars
  <2>1. PairInv'
    BY <1>1, PairStep DEF TruthInv
  <2>2. Reported' /\ RingTrue'
    BY <1>1 DEF TruthInv, Reported, RingTrue, Connects, vars
  <2> QED BY <2>1, <2>2 DEF TruthInv
<1>2. CASE Kernel
  BY <1>2, EnterTruth, InsideTruth, ReturnTruth, SetStateTruth DEF Kernel
<1>3. CASE Attach \/ Detach \/ handle_tcp_event \/ drain_events
  BY <1>3, OtherTruth
<1> QED BY <1>1, <1>2, <1>3 DEF Next

-----------------------------------------------------------------------------
(* Theorems.                                                               *)

\* Every variable keeps its type (tcp_tracker.bpf.c, tcp_tracker.rs).
THEOREM TypeCorrect == Spec => []TypeOK
<1>1. PairInv => TypeOK
  BY DEF PairInv
<1> QED BY <1>1, PairInvariance, PTL

\* An entry that outlives its call is of a call whose return no probe saw, for
\* any number of threads and sockets and with fast open too
\* (handle_tcp_connect, handle_tcp_v4_connect_ret).
THEOREM OnlyUnseenLeft == Spec => []LeftoversUnseen
<1>1. PairInv => LeftoversUnseen
  BY DEF PairInv, EntryOK, LeftoversUnseen
<1> QED BY <1>1, PairInvariance, PTL

\* Without fast open, every connect event in the ring is about a connect of the
\* thread it names that succeeded, and no socket is reported twice
\* (handle_tcp_connect, handle_tcp_v4_connect_ret).
THEOREM ConnectsCorrect ==
    ASSUME FastOpen = FALSE
    PROVE  Spec => []ConnectTruthful
<1>1. TruthInv => ConnectTruthful
  <2> SUFFICES ASSUME TruthInv PROVE ConnectTruthful
    OBVIOUS
  <2>1. \A s \in Sockets : told[s] <= 1
    BY DEF TruthInv, Reported
  <2>2. ASSUME NEW i \in 1 .. Len(tcp_events),
               tcp_events[i].event_type = EVENT_TCP_CONNECT
        PROVE  /\ tcp_events[i].sock \notin V6
               /\ result[tcp_events[i].sock] = "ok"
               /\ opener[tcp_events[i].sock] = tcp_events[i].tid
    <3>1. tcp_events[i] \in TcpEvents
      BY DEF TruthInv, PairInv, TypeOK
    <3>2. tcp_events[i] \in Connects /\ tcp_events[i].sock \in Sockets
      BY <2>2, <3>1 DEF Connects, TcpEvents
    <3>3. told[tcp_events[i].sock] = 1 /\ opener[tcp_events[i].sock] = tcp_events[i].tid
      BY <3>2 DEF TruthInv, RingTrue
    <3> QED BY <3>2, <3>3 DEF TruthInv, Reported
  <2> QED BY <2>1, <2>2 DEF ConnectTruthful
<1>2. TruthInv /\ [Next]_vars => TruthInv'
  BY TruthStep
<1> QED BY <1>1, <1>2, InitTruth, PTL DEF Spec

-----------------------------------------------------------------------------
(* What userspace knows of a socket last.                                  *)

\* The position of the last record of a socket in the ring.
IsLast(s, i) == i \in InRing(s) /\ \A j \in InRing(s) : j <= i

\* A socket with records in the ring has a last one.
LastInv == \A s \in Sockets : InRing(s) = {} \/ \E i \in InRing(s) : IsLast(s, i)

\* A socket whose connect has sent the SYN is not closed before the call fails.
SentOpen == \A t \in Threads : conn[t].at = "sent" => sk[conn[t].sock] # TCP_CLOSE

\* The inductive invariant for ClosedIsNewest.
CloseInv == PairInv /\ SentOpen /\ LastInv /\ ClosedIsNewest

\* The names of the states that are told apart.
LEMMA StateNames ==
    /\ tcp_state_name(TCP_CLOSE) # tcp_state_name(TCP_ESTABLISHED)
    /\ TCP_CLOSE \notin {0, TCP_ESTABLISHED, TCP_SYN_SENT, KERNEL_FIN_WAIT1, KERNEL_CLOSE_WAIT}
BY DEF tcp_state_name, TCP_CLOSE, TCP_ESTABLISHED, TCP_SYN_SENT, KERNEL_FIN_WAIT1,
       KERNEL_CLOSE_WAIT

\* What is known last of a socket with a last record in the ring.
LEMMA NewestLast ==
    ASSUME TypeOK, NEW s \in Sockets \ Excluded, NEW i, IsLast(s, i)
    PROVE  Newest(s) = tcp_state_name(tcp_events[i].tcp_state)
<1>1. \A j \in InRing(s) : j \in Int
  BY DEF InRing
<1>2. i \in InRing(s) /\ \A j \in InRing(s) : j <= i
  BY DEF IsLast
<1>3. \A k \in InRing(s) : (\A j \in InRing(s) : j <= k) => k = i
  BY <1>1, <1>2
<1>4. (CHOOSE k \in InRing(s) : \A j \in InRing(s) : j <= k) = i
  BY <1>2, <1>3
<1> QED BY <1>2, <1>4 DEF Newest

\* What is known last of a socket without one.
LEMMA NewestTable ==
    ASSUME NEW s, InRing(s) = {}
    PROVE  Newest(s) = IF connections[s] # Nothing THEN connections[s].state ELSE shown[s]
BY DEF Newest

\* The primed forms of the two.
LEMMA NewestNext ==
    ASSUME TypeOK', NEW s \in Sockets \ Excluded
    PROVE  /\ \A i : IsLast(s, i)' => Newest(s)' = tcp_state_name(tcp_events'[i].tcp_state)
           /\ InRing(s)' = {} => Newest(s)' = IF connections'[s] # Nothing
                                                THEN connections'[s].state ELSE shown'[s]
<1>1. ASSUME NEW i, IsLast(s, i)'
      PROVE  Newest(s)' = tcp_state_name(tcp_events'[i].tcp_state)
  <2>1. \A j \in InRing(s)' : j \in Int
    BY DEF InRing
  <2>2. i \in InRing(s)' /\ \A j \in InRing(s)' : j <= i
    BY <1>1 DEF IsLast
  <2>3. \A k \in InRing(s)' : (\A j \in InRing(s)' : j <= k) => k = i
    BY <2>1, <2>2
  <2>4. (CHOOSE k \in InRing(s)' : \A j \in InRing(s)' : j <= k) = i
    BY <2>2, <2>3
  <2> QED BY <2>2, <2>4 DEF Newest
<1>2. InRing(s)' = {} => Newest(s)' = IF connections'[s] # Nothing
                                        THEN connections'[s].state ELSE shown'[s]
  BY DEF Newest
<1> QED BY <1>1, <1>2

\* A step that leaves ring, table and report alone.
LEMMA NewestSame ==
    ASSUME UNCHANGED <<tcp_events, connections, shown>>
    PROVE  /\ \A s \in Sockets : Newest(s)' = Newest(s)
           /\ LastInv => LastInv'
BY DEF Newest, LastInv, InRing, IsLast

\* A record that is appended to the ring is what is known last of its socket,
\* and changes nothing for the others; a record without room is lost.
LEMMA NewestEmit ==
    ASSUME TypeOK, TypeOK', LastInv, NEW evt \in TcpEvents, emit_event(evt),
           UNCHANGED <<connections, shown>>
    PROVE  /\ LastInv'
           /\ \A s \in Sockets \ (lost' \cup Excluded) :
                Newest(s)' = IF s = evt.sock THEN tcp_state_name(evt.tcp_state) ELSE Newest(s)
           /\ lost \subseteq lost'
<1>1. tcp_events \in Seq(TcpEvents)
  BY DEF TypeOK
<1>2. CASE ~HasRoom(tcp_events, RingSize)
  <2>1. tcp_events' = tcp_events /\ lost' = lost \cup {evt.sock}
    BY <1>2 DEF emit_event, Submit
  <2> QED BY <2>1, NewestSame
<1>3. CASE HasRoom(tcp_events, RingSize)
  <2>1. tcp_events' = Append(tcp_events, evt) /\ lost' = lost
    BY <1>3 DEF emit_event, Submit
  <2>2. /\ Len(tcp_events) \in Nat /\ Len(tcp_events') = Len(tcp_events) + 1
        /\ tcp_events'[Len(tcp_events) + 1] = evt
        /\ \A i \in 1 .. Len(tcp_events) : tcp_events'[i] = tcp_events[i]
    BY <1>1, <2>1
  <2>3. ASSUME NEW s \in Sockets, s # evt.sock PROVE InRing(s)' = InRing(s)
    BY <2>2, <2>3 DEF InRing
  <2> PICK n \in Nat : n = Len(tcp_events) + 1
    BY <2>2
  <2>4. ASSUME NEW s \in Sockets, s = evt.sock PROVE IsLast(s, n)'
    BY <2>2, <2>4 DEF InRing, IsLast
  <2>5. LastInv'
    <3> SUFFICES ASSUME NEW s \in Sockets
                 PROVE  InRing(s)' = {} \/ \E i \in InRing(s)' : IsLast(s, i)'
      BY DEF LastInv
    <3>1. CASE s = evt.sock
      BY <2>4, <3>1 DEF IsLast
    <3>2. CASE s # evt.sock
      BY <2>3, <3>2 DEF LastInv, IsLast
    <3> QED BY <3>1, <3>2
  <2>6. ASSUME NEW s \in Sockets \ Excluded
        PROVE  Newest(s)' = IF s = evt.sock THEN tcp_state_name(evt.tcp_state) ELSE Newest(s)
    <3>1. CASE s = evt.sock
      BY <2>2, <2>4, <3>1, NewestNext
    <3>2. CASE s # evt.sock /\ InRing(s) = {}
      BY <2>3, <3>2, NewestNext, NewestTable
    <3>3. CASE s # evt.sock /\ InRing(s) # {}
      <4>1. PICK i \in InRing(s) : IsLast(s, i)
        BY <3>3 DEF LastInv
      <4>2. IsLast(s, i)' /\ tcp_events'[i] = tcp_events[i]
        BY <2>2, <2>3, <3>3, <4>1 DEF IsLast, InRing
      <4> QED BY <3>3, <4>1, <4>2, NewestNext, NewestLast
    <3> QED BY <3>1, <3>2, <3>3
  <2> QED BY <2>1, <2>5, <2>6
<1> QED BY <1>2, <1>3

\* The callback moves the oldest record into the table: what is known last of
\* a socket stays the same.
LEMMA NewestCallback ==
    ASSUME TypeOK, TypeOK', LastInv, handle_tcp_event
    PROVE  LastInv' /\ \A s \in Sockets \ Excluded : Newest(s)' = Newest(s)
<1>1. tcp_events \in Seq(TcpEvents) /\ tcp_events # <<>> /\ tcp_events' = Tail(tcp_events)
  BY DEF TypeOK, handle_tcp_event
<1>2. /\ Len(tcp_events) \in Nat /\ Len(tcp_events) >= 1
      /\ Len(tcp_events') = Len(tcp_events) - 1
      /\ Head(tcp_events) = tcp_events[1]
      /\ \A i \in 1 .. (Len(tcp_events) - 1) : tcp_events'[i] = tcp_events[i + 1]
      /\ tcp_events[1] \in TcpEvents
  BY <1>1
<1>3. \A s : \A i \in Int : i \in InRing(s)' <=> i >= 1 /\ i + 1 \in InRing(s)
  BY <1>2 DEF InRing
<1>4. \A s : InRing(s) \subseteq Int /\ InRing(s)' \subseteq Int /\ (\A i \in InRing(s) : i >= 1)
  BY DEF InRing
<1>5. \A s : \A i \in InRing(s) : IsLast(s, i) /\ i # 1 => IsLast(s, i - 1)'
  <2> SUFFICES ASSUME NEW s, NEW i \in InRing(s), IsLast(s, i), i # 1 PROVE IsLast(s, i - 1)'
    OBVIOUS
  <2>1. i - 1 \in InRing(s)'
    BY <1>3, <1>4
  <2>2. \A j \in InRing(s)' : j <= i - 1
    <3> TAKE j \in InRing(s)'
    <3>1. j \in Int /\ j + 1 \in InRing(s)
      BY <1>3, <1>4
    <3>2. j + 1 <= i
      BY <3>1 DEF IsLast
    <3> QED BY <1>4, <3>1, <3>2
  <2> QED BY <2>1, <2>2 DEF IsLast
<1>6. \A s : IsLast(s, 1) => InRing(s)' = {}
  <2> SUFFICES ASSUME NEW s, IsLast(s, 1), NEW j \in InRing(s)' PROVE FALSE
    OBVIOUS
  <2>1. j \in Int /\ j >= 1 /\ j + 1 \in InRing(s)
    BY <1>3, <1>4
  <2>2. j + 1 <= 1
    BY <2>1 DEF IsLast
  <2> QED BY <2>1, <2>2
<1>7. \A s : InRing(s) = {} => InRing(s)' = {}
  BY <1>3, <1>4
<1>8. LastInv'
  <2> SUFFICES ASSUME NEW s \in Sockets
               PROVE  InRing(s)' = {} \/ \E i \in InRing(s)' : IsLast(s, i)'
    BY DEF LastInv
  <2>1. CASE InRing(s) = {}
    BY <1>7, <2>1
  <2>2. CASE InRing(s) # {}
    <3>1. PICK i \in InRing(s) : IsLast(s, i)
      BY <2>2 DEF LastInv
    <3>2. CASE i = 1
      BY <1>6, <3>1, <3>2
    <3>3. CASE i # 1
      BY <1>5, <3>1, <3>3 DEF IsLast
    <3> QED BY <3>2, <3>3
  <2> QED BY <2>1, <2>2
<1>9. ASSUME NEW s \in Sockets \ Excluded PROVE Newest(s)' = Newest(s)
  <2>0. /\ connections' = Upsert(tcp_events[1], connections) /\ shown' = shown
        /\ connections \in [Sockets -> Tracked \cup {Nothing}]
    BY <1>2 DEF handle_tcp_event, TypeOK
  <2>1. CASE InRing(s) = {}
    <3>1. tcp_events[1].sock # s
      BY <1>2, <2>1 DEF InRing
    <3>2. connections'[s] = connections[s]
      BY <2>0, <3>1 DEF Upsert
    <3> QED BY <1>7, <2>0, <2>1, <3>2, NewestNext, NewestTable
  <2>2. CASE InRing(s) # {}
    <3>1. PICK i \in InRing(s) : IsLast(s, i)
      BY <2>2 DEF LastInv
    <3>2. Newest(s) = tcp_state_name(tcp_events[i].tcp_state)
      BY <3>1, NewestLast
    <3>3. CASE i # 1
      <4>1. IsLast(s, i - 1)'
        BY <1>5, <3>1, <3>3
      <4>2. tcp_events'[i - 1] = tcp_events[i]
        BY <1>2, <3>1, <3>3 DEF InRing
      <4> QED BY <3>2, <4>1, <4>2, NewestNext
    <3>4. CASE i = 1
      <4>1. tcp_events[1].sock = s /\ InRing(s)' = {}
        BY <1>6, <3>1, <3>4 DEF InRing
      <4>2. connections'[s] = [state |-> tcp_state_name(tcp_events[1].tcp_state),
                               tid |-> tcp_events[1].tid]
        BY <2>0, <4>1 DEF Upsert
      <4>3. connections'[s] # Nothing
        <5>1. tcp_events[1].tcp_state \in KernelStates /\ tcp_events[1].tid \in Threads
          BY <1>2 DEF TcpEvents
        <5>2. connections'[s] \in Tracked
          BY <4>2, <5>1 DEF Tracked, Names
        <5> QED BY <5>2, NothingAssumption
      <4> QED BY <3>2, <3>4, <4>1, <4>2, <4>3, NewestNext
    <3> QED BY <3>3, <3>4
  <2> QED BY <2>1, <2>2
<1> QED BY <1>8, <1>9

\* A drain moves the table into the report.
LEMMA NewestDrain ==
    ASSUME TypeOK, TypeOK', LastInv, drain_events
    PROVE  LastInv' /\ \A s \in Sockets \ Excluded : Newest(s)' = Newest(s)
<1>1. /\ tcp_events' = tcp_events
      /\ \A s \in Sockets : /\ connections'[s] = Nothing
                            /\ shown'[s] = IF connections[s] # Nothing THEN connections[s].state
                                             ELSE shown[s]
  BY DEF drain_events, Pending
<1>2. \A s : InRing(s)' = InRing(s)
  BY <1>1 DEF InRing
<1>3. LastInv'
  BY <1>2 DEF LastInv, IsLast
<1>4. ASSUME NEW s \in Sockets \ Excluded PROVE Newest(s)' = Newest(s)
  <2>1. CASE InRing(s) = {}
    BY <1>1, <1>2, <2>1, NewestNext, NewestTable
  <2>2. CASE InRing(s) # {}
    <3>1. PICK i \in InRing(s) : IsLast(s, i)
      BY <2>2 DEF LastInv
    <3>2. IsLast(s, i)'
      BY <1>2, <3>1 DEF IsLast
    <3> QED BY <1>1, <3>1, <3>2, NewestNext, NewestLast
  <2> QED BY <2>1, <2>2
<1> QED BY <1>3, <1>4

-----------------------------------------------------------------------------
(* The newest event of a socket says whether it is closed.                 *)

\* A step keeps ClosedIsNewest when, for every socket with no lost change, the
\* two sides stay as they are or both hold or both fail.
LEMMA CloseFrame ==
    ASSUME ClosedIsNewest, lost \subseteq lost',
           \A s \in Sockets \ (lost' \cup Excluded) :
             \/ (sk'[s] = TCP_CLOSE <=> sk[s] = TCP_CLOSE) /\ Newest(s)' = Newest(s)
             \/ sk'[s] = TCP_CLOSE /\ Newest(s)' = tcp_state_name(TCP_CLOSE)
             \/ sk'[s] # TCP_CLOSE /\ Newest(s)' # tcp_state_name(TCP_CLOSE)
    PROVE  ClosedIsNewest'
<1> SUFFICES ASSUME NEW s \in Sockets \ (lost' \cup Excluded)
             PROVE  sk'[s] = TCP_CLOSE <=> Newest(s)' = tcp_state_name(TCP_CLOSE)
  BY DEF ClosedIsNewest
<1>1. sk[s] = TCP_CLOSE <=> Newest(s) = tcp_state_name(TCP_CLOSE)
  BY DEF ClosedIsNewest
<1> QED BY <1>1

\* The probe of tcp_set_state runs with a change of a socket that was not closed.
LEMMA CloseSetState ==
    ASSUME TypeOK, TypeOK', LastInv, ClosedIsNewest,
           NEW t \in Threads, NEW s \in Sockets, NEW state \in KernelStates,
           handle_tcp_set_state(t, s, state), sk' = [sk EXCEPT ![s] = state],
           sk[s] # TCP_CLOSE \/ state = TCP_CLOSE, UNCHANGED <<connections, shown>>
    PROVE  LastInv' /\ ClosedIsNewest'
<1> DEFINE evt == [event_type |-> IF state = TCP_ESTABLISHED
                                    THEN EVENT_TCP_ACCEPT ELSE EVENT_TCP_CLOSE,
                   tid |-> t, sock |-> s, tcp_state |-> state]
<1>0. sk'[s] = state /\ \A r \in Sockets \ {s} : sk'[r] = sk[r]
  BY DEF TypeOK
<1>1. CASE "tcp_set_state" \notin attached
  <2>1. Unnoticed(s)
    BY <1>1 DEF handle_tcp_set_state
  <2>2. UNCHANGED tcp_events /\ lost' = lost \cup {s}
    BY <2>1 DEF Unnoticed
  <2> QED BY <1>0, <2>2, NewestSame, CloseFrame
<1>2. CASE "tcp_set_state" \in attached /\ state \notin {TCP_ESTABLISHED, TCP_TIME_WAIT, TCP_CLOSE}
  <2>1. UNCHANGED <<tcp_events, lost>>
    BY <1>2 DEF handle_tcp_set_state, NoEmit
  <2>2. sk'[s] # TCP_CLOSE /\ sk[s] # TCP_CLOSE
    BY <1>0, <1>2
  <2> QED BY <1>0, <2>1, <2>2, NewestSame, CloseFrame
<1>3. CASE "tcp_set_state" \in attached /\ state \in {TCP_ESTABLISHED, TCP_TIME_WAIT, TCP_CLOSE}
  <2>1. emit_event(evt)
    BY <1>3 DEF handle_tcp_set_state
  <2>2. evt \in TcpEvents /\ evt.sock = s /\ evt.tcp_state = state
    BY DEF TcpEvents
  <2> HIDE DEF evt
  <2>3. /\ LastInv' /\ lost \subseteq lost'
        /\ \A r \in Sockets \ (lost' \cup Excluded) :
             Newest(r)' = IF r = s THEN tcp_state_name(state) ELSE Newest(r)
    BY <2>1, <2>2, NewestEmit
  <2>4. state = TCP_CLOSE \/ state = TCP_ESTABLISHED
    BY <1>3 DEF KernelStates, TCP_ESTABLISHED, TCP_TIME_WAIT, TCP_CLOSE, TCP_SYN_SENT,
                KERNEL_FIN_WAIT1, KERNEL_CLOSE_WAIT
  <2>5. ASSUME NEW r \in Sockets \ (lost' \cup Excluded)
        PROVE  \/ (sk'[r] = TCP_CLOSE <=> sk[r] = TCP_CLOSE) /\ Newest(r)' = Newest(r)
               \/ sk'[r] = TCP_CLOSE /\ Newest(r)' = tcp_state_name(TCP_CLOSE)
               \/ sk'[r] # TCP_CLOSE /\ Newest(r)' # tcp_state_name(TCP_CLOSE)
    <3>1. CASE r = s
      BY <1>0, <2>3, <2>4, <3>1, StateNames
    <3>2. CASE r # s
      BY <1>0, <2>3, <3>2
    <3> QED BY <3>1, <3>2
  <2> QED BY <2>3, <2>5, CloseFrame
<1> QED BY <1>1, <1>2, <1>3

\* A thread and its call: the socket is its own.
LEMMA OwnSocket ==
    ASSUME PairInv, NEW t \in Threads, NEW u \in Threads, u # t,
           conn[t].at # "user", conn[u].at # "user"
    PROVE  conn[t].sock \in Sockets /\ conn[u].sock # conn[t].sock
BY DEF PairInv, CallOK

LEMMA CloseStep ==
    ASSUME FastOpen = FALSE
    PROVE  CloseInv /\ [Next]_vars => CloseInv'
<1> SUFFICES ASSUME CloseInv, [Next]_vars PROVE CloseInv'
  OBVIOUS
<1>p. PairInv /\ PairInv' /\ SentOpen /\ LastInv /\ ClosedIsNewest
  BY PairStep DEF CloseInv
<1>t. TypeOK /\ TypeOK'
  BY <1>p DEF PairInv
<1>k. /\ sk \in [Sockets -> KernelStates \cup {0}]
      /\ conn \in [Threads -> [at : {"user", "entered", "sent", "failed"},
                               sock : Sockets \cup {NoSock}, hooked : BOOLEAN]]
  BY <1>t DEF TypeOK
<1> USE DEF kernelVars, probeVars, userVars, ghostVars
<1>1. CASE Attach \/ UNCHANGED vars
  <2>1. UNCHANGED <<sk, conn, tcp_events, connections, shown, lost>>
    BY <1>1 DEF Attach, vars
  <2>2. LastInv' /\ ClosedIsNewest'
    BY <1>p, <2>1, NewestSame, CloseFrame
  <2> QED BY <1>p, <2>1, <2>2 DEF CloseInv, SentOpen
<1>2. CASE Detach
  <2>1. tcp_events' = <<>> /\ lost' = Sockets /\ UNCHANGED <<sk, conn>>
    BY <1>2 DEF Detach
  <2>2. \A s : InRing(s)' = {}
    BY <2>1 DEF InRing
  <2>3. LastInv' /\ ClosedIsNewest'
    BY <2>1, <2>2 DEF LastInv, ClosedIsNewest
  <2> QED BY <1>p, <2>1, <2>3 DEF CloseInv, SentOpen
<1>3. ASSUME NEW t \in Threads, NEW s \in Sockets, EnterConnect(t, s) PROVE CloseInv'
  <2>1. UNCHANGED <<sk, tcp_events, connections, shown, lost>>
    BY <1>3 DEF EnterConnect
  <2>2. LastInv' /\ ClosedIsNewest'
    BY <1>p, <2>1, NewestSame, CloseFrame
  <2>3. SentOpen'
    BY <1>3, <1>k, <1>p, <2>1 DEF EnterConnect, SentOpen
  <2> QED BY <1>p, <2>2, <2>3 DEF CloseInv
<1>4. ASSUME NEW t \in Threads, TcpConnect(t) PROVE CloseInv'
  <2>1. /\ conn[t].sock \in Sockets /\ sk[conn[t].sock] = 0 /\ conn[t].at = "entered"
        /\ UNCHANGED <<tcp_events, connections, shown, lost>>
        /\ sk' = [sk EXCEPT ![conn[t].sock] = TCP_SYN_SENT]
        /\ conn' = [conn EXCEPT ![t].at = "sent"]
    BY <1>4, <1>p DEF TcpConnect, PairInv, CallOK
  <2>2. LastInv' /\ ClosedIsNewest'
    BY <1>k, <1>p, <2>1, NewestSame, CloseFrame, StateNames
  <2>3. SentOpen'
    <3> SUFFICES ASSUME NEW u \in Threads, conn'[u].at = "sent"
                 PROVE  sk'[conn'[u].sock] # TCP_CLOSE
      BY DEF SentOpen
    <3>1. conn'[u].sock = conn[u].sock
      BY <1>k, <2>1
    <3>2. CASE u = t
      BY <1>k, <2>1, <3>1, <3>2, StateNames
    <3>3. CASE u # t
      <4>1. conn[u].at = "sent" /\ conn[u].sock \in Sockets
        BY <1>k, <1>p, <2>1, <3>3 DEF PairInv, CallOK
      <4>2. conn[u].sock # conn[t].sock
        BY <1>p, <2>1, <3>3, <4>1, OwnSocket
      <4> QED BY <1>k, <1>p, <2>1, <3>1, <4>1, <4>2 DEF SentOpen
    <3> QED BY <3>2, <3>3
  <2> QED BY <1>p, <2>2, <2>3 DEF CloseInv
<1>5. ASSUME NEW t \in Threads, FailConnect(t) PROVE CloseInv'
  <2>1. /\ conn[t].at # "user" /\ conn[t].sock \in Sockets
        /\ UNCHANGED <<connections, shown>>
        /\ sk' = [sk EXCEPT ![conn[t].sock] = TCP_CLOSE]
        /\ conn' = [conn EXCEPT ![t].at = "failed"]
        /\ handle_tcp_set_state(t, conn[t].sock, TCP_CLOSE)
    BY <1>5, <1>p DEF FailConnect, PairInv, CallOK
  <2>2. LastInv' /\ ClosedIsNewest'
    BY <1>t, <1>p, <2>1, CloseSetState, ZeroIsNoState
  <2>3. SentOpen'
    <3> SUFFICES ASSUME NEW u \in Threads, conn'[u].at = "sent"
                 PROVE  sk'[conn'[u].sock] # TCP_CLOSE
      BY DEF SentOpen
    <3>1. u # t /\ conn'[u] = conn[u] /\ conn[u].at = "sent"
      BY <1>k, <2>1
    <3>2. conn[u].sock # conn[t].sock /\ conn[u].sock \in Sockets
      BY <1>p, <2>1, <3>1, OwnSocket
    <3> QED BY <1>k, <1>p, <2>1, <3>1, <3>2 DEF SentOpen
  <2> QED BY <1>p, <2>2, <2>3 DEF CloseInv
<1>6. ASSUME NEW t \in Threads, NEW ret \in {-1, 0}, ReturnConnect(t, ret) PROVE CloseInv'
  <2>1. /\ conn'[t] = Idle /\ \A u \in Threads \ {t} : conn'[u] = conn[u]
        /\ UNCHANGED <<sk, connections, shown>>
    BY <1>6, <1>p, ReturnFacts
  <2>2. SentOpen'
    BY <1>p, <2>1, IdleIsIdle DEF SentOpen
  <2>3. CASE NoEmit
    <3>1. UNCHANGED <<tcp_events, lost>>
      BY <2>3 DEF NoEmit
    <3>2. LastInv' /\ ClosedIsNewest'
      BY <1>p, <2>1, <3>1, NewestSame, CloseFrame
    <3> QED BY <1>p, <2>2, <3>2 DEF CloseInv
  <2>4. CASE connect_info[t] # NoEvent /\ ret = 0 /\ conn[t].hooked /\ emit_event(Completed(t))
    <3>1. conn[t].at = "sent"
      BY <1>6, <2>4 DEF ReturnConnect
    <3>2. /\ connect_info[t] \in Partial /\ connect_info[t].sock = conn[t].sock
          /\ connect_info[t].sock \in Sockets
      BY <1>p, <1>t, <2>4, <3>1 DEF PairInv, TypeOK, EntryOK, Partial
    <3>3. sk[connect_info[t].sock] # TCP_CLOSE
      BY <1>p, <3>1, <3>2 DEF SentOpen
    <3>4. /\ Completed(t) \in TcpEvents /\ Completed(t).sock = connect_info[t].sock
          /\ Completed(t).tcp_state = TCP_ESTABLISHED
      BY <3>2, ZeroIsNoState DEF Completed, TcpEvents, Partial
    <3>5. /\ LastInv' /\ lost \subseteq lost'
          /\ \A r \in Sockets \ (lost' \cup Excluded) :
               Newest(r)' = IF r = connect_info[t].sock THEN tcp_state_name(TCP_ESTABLISHED)
                              ELSE Newest(r)
      BY <1>t, <1>p, <2>1, <2>4, <3>4, NewestEmit
    <3>6. ClosedIsNewest'
      BY <1>p, <2>1, <3>3, <3>5, CloseFrame, StateNames
    <3> QED BY <1>p, <2>2, <3>5, <3>6 DEF CloseInv
  <2> QED BY <1>6, <1>p, <2>3, <2>4, ReturnCases
<1>7. ASSUME NEW t \in Threads, NEW s \in Sockets, NEW state \in KernelStates, SetState(t, s, state)
      PROVE  CloseInv'
  <2>1. /\ <<sk[s], state>> \in Moves /\ handle_tcp_set_state(t, s, state)
        /\ sk' = [sk EXCEPT ![s] = state] /\ UNCHANGED <<conn, connections, shown>>
        /\ \A u \in Threads : conn[u].sock # s
    BY <1>7 DEF SetState
  <2>2. sk[s] # TCP_CLOSE
    BY <2>1, StateNames DEF Moves
  <2>3. LastInv' /\ ClosedIsNewest'
    BY <1>t, <1>p, <2>1, <2>2, CloseSetState
  <2>4. SentOpen'
    BY <1>k, <1>p, <2>1 DEF SentOpen, PairInv, CallOK
  <2> QED BY <1>p, <2>3, <2>4 DEF CloseInv
<1>8. CASE handle_tcp_event \/ drain_events
  <2>1. UNCHANGED <<sk, conn, lost>>
    BY <1>8 DEF handle_tcp_event, drain_events
  <2>2. LastInv' /\ \A s \in Sockets \ Excluded : Newest(s)' = Newest(s)
    BY <1>8, <1>t, <1>p, NewestCallback, NewestDrain
  <2>3. ClosedIsNewest'
    BY <1>p, <2>1, <2>2, CloseFrame
  <2> QED BY <1>p, <2>1, <2>2, <2>3 DEF CloseInv, SentOpen
<1> QED BY <1>1, <1>2, <1>3, <1>4, <1>5, <1>6, <1>7, <1>8 DEF Next, Kernel

LEMMA CloseInvariance ==
    ASSUME FastOpen = FALSE
    PROVE  Spec => []CloseInv
<1>1. Init => CloseInv
  <2> SUFFICES ASSUME Init PROVE CloseInv
    OBVIOUS
  <2>1. PairInv
    BY InitTruth DEF TruthInv
  <2>2. \A s : InRing(s) = {}
    BY DEF Init, InRing
  <2>3. LastInv
    BY <2>2 DEF LastInv
  <2>4. SentOpen
    BY IdleIsIdle DEF Init, SentOpen
  <2>5. \A s \in Sockets : Newest(s) = Nothing
    BY <2>2, NewestTable DEF Init
  <2>6. tcp_state_name(TCP_CLOSE) \in Names
    BY ZeroIsNoState DEF Names
  <2>7. ClosedIsNewest
    BY <2>5, <2>6, StateNames, NothingAssumption DEF Init, ClosedIsNewest
  <2> QED BY <2>1, <2>3, <2>4, <2>7 DEF CloseInv
<1>2. CloseInv /\ [Next]_vars => CloseInv'
  BY CloseStep
<1> QED BY <1>1, <1>2, PTL DEF Spec

\* Without fast open, and unless one of its changes was lost, the newest event
\* of a socket says that it is closed exactly when it is, wherever that event is
\* on its way to the report (handle_tcp_set_state, handle_tcp_v4_connect_ret,
\* handle_tcp_event, drain_events).
THEOREM ClosesCorrect ==
    ASSUME FastOpen = FALSE
    PROVE  Spec => []ClosedIsNewest
<1>1. CloseInv => ClosedIsNewest
  BY DEF CloseInv
<1>2. Spec => []CloseInv
  BY CloseInvariance
<1> QED BY <1>1, <1>2, PTL
=============================================================================
