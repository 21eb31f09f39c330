--------------------------- MODULE DbProbeProofs ---------------------------
(***************************************************************************)
(* Theorems about DbProbe, for every set of threads, sockets and slots,    *)
(* every size of the ring and every number of kretprobe instances.         *)
(***************************************************************************)
EXTENDS DbProbe, TLAPS

\* What the steps of the return probe rely on: the slot that was looked up has
\* held a database socket ever since, although it may be another thread's by
\* now; the entry of the thread is gone once it was deleted.
Probing(t) ==
    /\ call[t].at \in {"found", "deleted", "filled"}
         => call[t].slot \in Slots /\ args[call[t].slot].sock \in DbSockets
    /\ call[t].at = "found" => key[call[t].slot] = t
    /\ call[t].at \in {"deleted", "filled"} => SlotsOf(t) = {} /\ call[t].ret > 0
    /\ call[t].at = "filled" => is_db_port(call[t].port)

EntriesValid == \A i \in Slots : key[i] # NoThread => args[i].sock \in DbSockets

\* The inductive invariant.
Inv ==
    /\ TypeOK
    /\ EntriesValid
    /\ \A t \in Threads : Probing(t)
    /\ OneEventPerEntry
    /\ LeftoversMissed
    /\ EventsPlausible

LEMMA IdleCall == Idle \in Calls /\ Idle.at = "user"
BY NoneAssumption, RetsAssumption DEF Idle, Calls, Ports

LEMMA CallFields ==
    ASSUME NEW c \in Calls
    PROVE  /\ c.slot \in Slots \cup {NoSlot} /\ c.port \in Ports
           /\ c.ret \in Rets /\ c.ret \in Int
<1>1. /\ c.slot \in Slots \cup {NoSlot} /\ c.port \in Ports
      /\ c.ret \in Rets
  BY SMT DEF Calls
<1>2. c.ret \in Int
  BY <1>1, RetsAssumption, Zenon
<1> QED BY <1>1, <1>2

\* The updates that an entry and a delete make to a call.
LEMMA DeletedCall ==
    ASSUME NEW c \in Calls, NEW d, d = [c EXCEPT !.at = "deleted"]
    PROVE  d \in Calls /\ d.at = "deleted" /\ d.slot = c.slot /\ d.ret = c.ret
<1>1. d \in Calls
  BY Zenon DEF Calls
<1>2. d.at = "deleted" /\ d.slot = c.slot /\ d.ret = c.ret
  BY SMT DEF Calls
<1> QED BY <1>1, <1>2

LEMMA ReadingCall ==
    ASSUME NEW s \in Sockets, NEW h \in BOOLEAN, NEW d,
           d = [Idle EXCEPT !.at = "reading", !.sock = s, !.hooked = h]
    PROVE  d \in Calls /\ d.at = "reading"
<1>1. d \in Calls
  BY IdleCall, Zenon DEF Calls
<1>2. d.at = "reading"
  BY IdleCall, SMT DEF Calls
<1> QED BY <1>1, <1>2

LEMMA InitInv == Init => Inv
<1> SUFFICES ASSUME Init PROVE Inv
  OBVIOUS
<1>1. TypeOK
  BY IdleCall, LimitsAssumption DEF Init, TypeOK, Args, NullArgs, DbEvents
<1>2. \A t \in Threads : SlotsOf(t) = {} /\ call[t].at = "user"
  BY NoneAssumption, IdleCall DEF Init, SlotsOf
<1>3. EntriesValid /\ (\A t \in Threads : Probing(t)) /\ LeftoversMissed
  BY <1>2 DEF Init, EntriesValid, Probing, LeftoversMissed
<1>4. OneEventPerEntry
  BY <1>2 DEF Init, OneEventPerEntry, Owed
<1>5. EventsPlausible
  BY DEF Init, EventsPlausible
<1> QED BY <1>1, <1>3, <1>4, <1>5 DEF Inv

-----------------------------------------------------------------------------
(* Steps in which one call changes and the map does not.                   *)

\* If only the call of t changes, to a value of its type, the conjuncts that
\* speak of the other threads are kept.
LEMMA OneCall ==
    ASSUME Inv, NEW t \in Threads, NEW c \in Calls,
           call' = [call EXCEPT ![t] = c],
           UNCHANGED <<key, args, stored>>
    PROVE  /\ call' \in [Threads -> Calls] /\ call'[t] = c
           /\ EntriesValid'
           /\ SlotsOf(t)' = SlotsOf(t)
           /\ \A u \in Threads \ {t} :
                 Probing(u)' /\ SlotsOf(u)' = SlotsOf(u) /\ Owed(u)' = Owed(u)
                             /\ call'[u] = call[u]
<1>1. call \in [Threads -> Calls]
  BY DEF Inv, TypeOK
<1>2. call' \in [Threads -> Calls] /\ call'[t] = c
      /\ \A u \in Threads \ {t} : call'[u] = call[u]
  BY <1>1
<1>3. \A u : SlotsOf(u)' = SlotsOf(u)
  BY DEF SlotsOf
<1>4. EntriesValid'
  BY DEF Inv, EntriesValid
<1>5. \A u \in Threads \ {t} : Probing(u)'
  BY <1>2, <1>3 DEF Inv, Probing
<1>6. \A u \in Threads \ {t} : Owed(u)' = Owed(u)
  BY <1>2, <1>3 DEF Owed
<1> QED BY <1>2, <1>3, <1>4, <1>5, <1>6

LEMMA MissReturnInv ==
    ASSUME Inv, NEW t \in Threads, MissReturn(t)
    PROVE  Inv'
<1>1. /\ call' \in [Threads -> Calls] /\ call'[t] = Idle
      /\ EntriesValid'
      /\ SlotsOf(t)' = SlotsOf(t)
      /\ \A u \in Threads \ {t} :
            Probing(u)' /\ SlotsOf(u)' = SlotsOf(u) /\ Owed(u)' = Owed(u)
                        /\ call'[u] = call[u]
  BY OneCall, IdleCall DEF MissReturn
<1>2. call'[t].at = "user"
  BY <1>1, IdleCall
<1>3. TypeOK'
  BY <1>1 DEF Inv, TypeOK, MissReturn
<1>4. \A u \in Threads : Probing(u)'
  BY <1>1, <1>2 DEF Probing
<1>5. OneEventPerEntry'
  <2>1. call[t].at = "reading"
    BY DEF MissReturn
  <2>2. Owed(t)' = Owed(t)
    BY <1>1, <1>2, <2>1 DEF Owed
  <2> QED BY <1>1, <2>2 DEF Inv, OneEventPerEntry, MissReturn
<1>6. LeftoversMissed'
  BY <1>1 DEF Inv, LeftoversMissed, MissReturn
<1>7. EventsPlausible'
  BY DEF Inv, EventsPlausible, MissReturn
<1> QED BY <1>1, <1>3, <1>4, <1>5, <1>6, <1>7 DEF Inv

LEMMA LookupInv ==
    ASSUME Inv, NEW t \in Threads, NEW ret \in Rets, Lookup(t, ret)
    PROVE  Inv'
<1> USE DEF Lookup
<1>0. call \in [Threads -> Calls] /\ call[t].at = "reading"
  BY DEF Inv, TypeOK
<1>1. PICK c \in Calls :
        /\ call' = [call EXCEPT ![t] = c]
        /\ \/ c = Idle /\ SlotsOf(t) = {}
           \/ \E i \in SlotsOf(t) : c.at = "found" /\ c.slot = i /\ c.ret = ret
  <2>1. CASE SlotsOf(t) = {} /\ call' = [call EXCEPT ![t] = Idle]
    BY <2>1, IdleCall
  <2>2. ASSUME NEW i \in SlotsOf(t),
               call' = [call EXCEPT ![t].at = "found", ![t].slot = i, ![t].ret = ret]
        PROVE  \E c \in Calls : /\ call' = [call EXCEPT ![t] = c]
                                /\ c.at = "found" /\ c.slot = i /\ c.ret = ret
    <3> DEFINE c == [call[t] EXCEPT !.at = "found", !.slot = i, !.ret = ret]
    <3>1. i \in Slots
      BY DEF SlotsOf
    <3>2. c \in Calls /\ c.at = "found" /\ c.slot = i /\ c.ret = ret
      <4>1. call[t] \in Calls
        BY <1>0
      <4> HIDE DEF Lookup
      <4>2. c \in Calls
        BY <3>1, <4>1, Zenon DEF Calls
      <4>3. c.at = "found" /\ c.slot = i /\ c.ret = ret
        BY <4>1, SMT DEF Calls
      <4> QED BY <4>2, <4>3
    <3>3. call' = [call EXCEPT ![t] = c]
      BY <1>0, <2>2
    <3> QED BY <3>2, <3>3
  <2> QED BY <2>1, <2>2
<1>2. /\ call' \in [Threads -> Calls] /\ call'[t] = c
      /\ EntriesValid'
      /\ SlotsOf(t)' = SlotsOf(t)
      /\ \A u \in Threads \ {t} :
            Probing(u)' /\ SlotsOf(u)' = SlotsOf(u) /\ Owed(u)' = Owed(u)
                        /\ call'[u] = call[u]
  BY OneCall, <1>1
<1>3. TypeOK'
  BY <1>2 DEF Inv, TypeOK
<1>4. Probing(t)'
  <2>1. CASE c = Idle
    BY <1>2, <2>1, IdleCall DEF Probing
  <2>2. ASSUME NEW i \in SlotsOf(t), c.at = "found", c.slot = i
        PROVE  Probing(t)'
    <3>1. i \in Slots /\ key[i] = t /\ t # NoThread
      BY NoneAssumption DEF SlotsOf
    <3>2. args[i].sock \in DbSockets
      BY <3>1 DEF Inv, EntriesValid
    <3> QED BY <1>2, <2>2, <3>1, <3>2 DEF Probing
  <2> QED BY <1>1, <2>1, <2>2
<1>5. Owed(t)' = Owed(t)
  BY <1>0, <1>1, <1>2, IdleCall DEF Owed
<1>6. OneEventPerEntry'
  BY <1>2, <1>5 DEF Inv, OneEventPerEntry
<1>7. LeftoversMissed'
  <2>1. SlotsOf(t)' # {} => call'[t].at # "user"
    BY <1>1, <1>2
  <2> QED BY <2>1, <1>2 DEF Inv, LeftoversMissed
<1>8. EventsPlausible'
  BY DEF Inv, EventsPlausible
<1> QED BY <1>2, <1>3, <1>4, <1>6, <1>7, <1>8 DEF Inv

LEMMA FillHeaderInv ==
    ASSUME Inv, NEW t \in Threads, FillHeader(t)
    PROVE  Inv'
<1> USE DEF FillHeader
<1> DEFINE port == PortOf(call[t].slot)
           c == [call[t] EXCEPT !.at = "filled", !.port = port]
<1>0. call \in [Threads -> Calls] /\ call[t].at = "deleted" /\ Probing(t)
  BY DEF Inv, TypeOK
<1>1. is_db_port(port) /\ port \in Ports
  <2>1. args[call[t].slot].sock \in DbSockets
    BY <1>0 DEF Probing
  <2> QED BY <2>1, PortAssumption, NoneAssumption DEF PortOf, DbSockets
<1>2. c \in Calls /\ c.at = "filled" /\ c.port = port
      /\ c.slot = call[t].slot /\ c.ret = call[t].ret
  <2>1. call[t] \in Calls
    BY <1>0
  <2> HIDE DEF FillHeader, port
  <2>2. c \in Calls
    BY <1>1, <2>1, Zenon DEF Calls
  <2>3. c.at = "filled" /\ c.port = port /\ c.slot = call[t].slot /\ c.ret = call[t].ret
    BY <2>1, SMT DEF Calls
  <2> QED BY <2>2, <2>3
<1>3. call' = [call EXCEPT ![t] = c]
  BY <1>0
<1> HIDE DEF port, c
<1>4. /\ call' \in [Threads -> Calls] /\ call'[t] = c
      /\ EntriesValid'
      /\ SlotsOf(t)' = SlotsOf(t)
      /\ \A u \in Threads \ {t} :
            Probing(u)' /\ SlotsOf(u)' = SlotsOf(u) /\ Owed(u)' = Owed(u)
                        /\ call'[u] = call[u]
  BY OneCall, <1>2, <1>3
<1>5. TypeOK'
  BY <1>4 DEF Inv, TypeOK
<1>6. Probing(t)'
  BY <1>0, <1>1, <1>2, <1>4 DEF Probing
<1>7. Owed(t)' = Owed(t)
  BY <1>0, <1>2, <1>4 DEF Owed
<1>8. OneEventPerEntry'
  BY <1>4, <1>7 DEF Inv, OneEventPerEntry
<1>9. LeftoversMissed'
  BY <1>2, <1>4 DEF Inv, LeftoversMissed
<1>10. EventsPlausible'
  BY DEF Inv, EventsPlausible
<1> QED BY <1>4, <1>5, <1>6, <1>8, <1>9, <1>10 DEF Inv

-----------------------------------------------------------------------------
(* The steps that change the map.                                          *)

LEMMA DeleteInv ==
    ASSUME Inv, NEW t \in Threads, Delete(t)
    PROVE  Inv'
<1> USE DEF Delete
<1> DEFINE c == IF call[t].ret <= 0 THEN Idle ELSE [call[t] EXCEPT !.at = "deleted"]
<1>0. call \in [Threads -> Calls] /\ call[t].at = "found" /\ Probing(t)
      /\ key \in [Slots -> Threads \cup {NoThread}]
      /\ call[t].ret \in Int
  BY CallFields DEF Inv, TypeOK
<1>1. c \in Calls
  <2>1. call[t] \in Calls
    BY <1>0
  <2> QED BY <2>1, IdleCall, DeletedCall
<1>2. call' \in [Threads -> Calls] /\ call'[t] = c
      /\ \A u \in Threads \ {t} : call'[u] = call[u]
  BY <1>0, <1>1
<1>3. SlotsOf(t)' = {} /\ \A u \in Threads \ {t} : SlotsOf(u)' = SlotsOf(u)
  BY <1>0, NoneAssumption DEF SlotsOf
<1>4. key' \in [Slots -> Threads \cup {NoThread}]
  BY <1>0
<1>5. \/ call'[t] = Idle
      \/ call'[t].at = "deleted" /\ call'[t].slot = call[t].slot /\ call'[t].ret > 0
  <2>1. CASE call[t].ret <= 0
    BY <1>2, <2>1
  <2>2. CASE ~(call[t].ret <= 0)
    <3>1. call'[t] = [call[t] EXCEPT !.at = "deleted"] /\ call[t] \in Calls
      BY <1>0, <1>2, <2>2
    <3>2. call'[t].at = "deleted" /\ call'[t].slot = call[t].slot
          /\ call'[t].ret = call[t].ret
      BY <3>1, DeletedCall
    <3> QED BY <1>0, <2>2, <3>2
  <2> QED BY <2>1, <2>2
<1> HIDE DEF c
<1>6. TypeOK'
  BY <1>2, <1>4 DEF Inv, TypeOK
<1>7. EntriesValid'
  BY <1>0 DEF Inv, EntriesValid
<1>8. Probing(t)'
  BY <1>0, <1>3, <1>5, IdleCall DEF Probing
<1>9. ASSUME NEW u \in Threads \ {t} PROVE Probing(u)' /\ Owed(u)' = Owed(u)
  <2>1. Probing(u) /\ call'[u] = call[u] /\ call[u] \in Calls /\ SlotsOf(u)' = SlotsOf(u)
    BY <1>0, <1>2, <1>3 DEF Inv
  <2>2. call[u].at = "found" => key'[call[u].slot] = u
    BY <2>1, <1>0 DEF Probing
  <2> QED BY <2>1, <2>2 DEF Probing, Owed
<1>10. OneEventPerEntry'
  <2>1. call[t].slot \in SlotsOf(t)
    BY <1>0 DEF Probing, SlotsOf
  <2>2. Owed(t) = 1 /\ Owed(t)' \in {0, 1}
    BY <2>1 DEF Owed
  <2>3. emitted[t] \in Nat /\ stored[t] \in Nat /\ emitted[t] + Owed(t) <= stored[t]
    BY DEF Inv, TypeOK, OneEventPerEntry
  <2>4. (emitted[t] + Owed(t) <= stored[t])'
    BY <2>2, <2>3
  <2>5. \A u \in Threads \ {t} : (emitted[u] + Owed(u) <= stored[u])'
    BY <1>9 DEF Inv, OneEventPerEntry
  <2> QED BY <2>4, <2>5 DEF OneEventPerEntry
<1>11. LeftoversMissed'
  BY <1>2, <1>3 DEF Inv, LeftoversMissed
<1>12. EventsPlausible'
  BY DEF Inv, EventsPlausible
<1> QED BY <1>6, <1>7, <1>8, <1>9, <1>10, <1>11, <1>12 DEF Inv

LEMMA EnterReadInv ==
    ASSUME Inv, NEW t \in Threads, NEW s \in Sockets, EnterRead(t, s)
    PROVE  Inv'
<1> USE DEF EnterRead
<1> DEFINE c == [Idle EXCEPT !.at = "reading", !.sock = s, !.hooked = InstanceFree]
<1>0. call \in [Threads -> Calls] /\ call[t].at = "user" /\ Probing(t)
      /\ key \in [Slots -> Threads \cup {NoThread}] /\ args \in [Slots -> Args]
      /\ stored \in [Threads -> Nat] /\ emitted \in [Threads -> Nat]
      /\ reads \in [Threads -> 0 .. MaxReads]
  BY DEF Inv, TypeOK
<1>1. c \in Calls /\ c.at = "reading"
  <2>1. InstanceFree \in BOOLEAN
    BY DEF InstanceFree
  <2> HIDE DEF EnterRead
  <2> QED BY <2>1, ReadingCall
<1>2. call' \in [Threads -> Calls] /\ call'[t] = c
      /\ \A u \in Threads \ {t} : call'[u] = call[u]
  BY <1>0, <1>1
<1> HIDE DEF c
<1>3. reads' \in [Threads -> 0 .. MaxReads]
  <2>1. reads[t] + 1 \in 0 .. MaxReads
    BY <1>0, LimitsAssumption
  <2> QED BY <1>0, <2>1
<1>4. CASE s \in DbSockets /\ Targets(t) # {}
  <2>1. PICK i \in Targets(t) :
          /\ key' = [key EXCEPT ![i] = t]
          /\ args' = [args EXCEPT ![i] = [sock |-> s, buf_ptr |-> <<>>]]
          /\ stored' = [stored EXCEPT ![t] = @ + 1]
    BY <1>4 DEF handle_tcp_recvmsg
  <2>2. i \in Slots /\ key[i] \in {t, NoThread}
    BY DEF Targets, SlotsOf
  <2>3. [sock |-> s, buf_ptr |-> <<>>] \in Args
    BY DEF Args
  <2>4. TypeOK'
    BY <1>0, <1>2, <1>3, <2>1, <2>2, <2>3 DEF Inv, TypeOK
  <2>5. args'[i].sock = s /\ \A j \in Slots \ {i} : args'[j] = args[j] /\ key'[j] = key[j]
    BY <1>0, <2>1, <2>2
  <2>6. EntriesValid'
    BY <1>4, <2>5 DEF Inv, EntriesValid
  <2>7. ASSUME NEW u \in Threads \ {t}
        PROVE  Probing(u)' /\ Owed(u)' = Owed(u) /\ SlotsOf(u)' = SlotsOf(u)
    <3>1. SlotsOf(u)' = SlotsOf(u)
      BY <1>0, <2>1, <2>2, NoneAssumption DEF SlotsOf
    <3>2. Probing(u) /\ call'[u] = call[u]
      BY <1>2 DEF Inv
    <3>3. call[u].at \in {"found", "deleted", "filled"}
            => call[u].slot \in Slots /\ args'[call[u].slot].sock \in DbSockets
      BY <1>4, <2>5, <3>2 DEF Probing
    <3>4. call[u].at = "found" => key'[call[u].slot] = u
      <4>1. u # t /\ u # NoThread
        BY NoneAssumption
      <4> QED BY <3>2, <2>2, <2>5, <4>1 DEF Probing
    <3> QED BY <3>1, <3>2, <3>3, <3>4 DEF Probing, Owed
  <2>8. Probing(t)'
    BY <1>1, <1>2 DEF Probing
  <2>9. OneEventPerEntry'
    <3>1. emitted[t] + Owed(t) <= stored[t] /\ emitted[t] \in Nat /\ stored[t] \in Nat
      BY <1>0 DEF Inv, OneEventPerEntry
    <3>2. Owed(t) \in {0, 1} /\ Owed(t)' \in {0, 1}
      BY DEF Owed
    <3>3. stored'[t] = stored[t] + 1 /\ emitted' = emitted
      BY <1>0, <2>1
    <3>4. (emitted[t] + Owed(t) <= stored[t])'
      BY <3>1, <3>2, <3>3
    <3>5. \A u \in Threads \ {t} : stored'[u] = stored[u]
      BY <1>0, <2>1
    <3>6. \A u \in Threads \ {t} : (emitted[u] + Owed(u) <= stored[u])'
      BY <2>7, <3>3, <3>5 DEF Inv, OneEventPerEntry
    <3> QED BY <3>4, <3>6 DEF OneEventPerEntry
  <2>10. LeftoversMissed'
    BY <1>1, <1>2, <2>7 DEF Inv, LeftoversMissed
  <2>11. EventsPlausible'
    BY DEF Inv, EventsPlausible
  <2> QED BY <2>4, <2>6, <2>7, <2>8, <2>9, <2>10, <2>11 DEF Inv
<1>5. CASE ~(s \in DbSockets /\ Targets(t) # {})
  <2>1. UNCHANGED <<key, args, stored>>
    BY <1>5 DEF handle_tcp_recvmsg
  <2>2. /\ EntriesValid'
        /\ SlotsOf(t)' = SlotsOf(t)
        /\ \A u \in Threads \ {t} :
              Probing(u)' /\ SlotsOf(u)' = SlotsOf(u) /\ Owed(u)' = Owed(u)
                          /\ call'[u] = call[u]
    BY OneCall, <1>1, <2>1 DEF c
  <2>3. TypeOK'
    BY <1>2, <1>3, <2>1 DEF Inv, TypeOK
  <2>4. Probing(t)'
    BY <1>1, <1>2 DEF Probing
  <2>5. Owed(t)' = Owed(t)
    BY <1>0, <1>1, <1>2, <2>2 DEF Owed
  <2>6. OneEventPerEntry'
    BY <2>1, <2>2, <2>5 DEF Inv, OneEventPerEntry
  <2>7. LeftoversMissed'
    BY <1>1, <1>2, <2>2 DEF Inv, LeftoversMissed
  <2>8. EventsPlausible'
    BY DEF Inv, EventsPlausible
  <2> QED BY <2>2, <2>3, <2>4, <2>6, <2>7, <2>8 DEF Inv
<1> QED BY <1>4, <1>5

-----------------------------------------------------------------------------
(* The emission of an event.                                               *)

LEMMA EmitInv ==
    ASSUME Inv, NEW t \in Threads, Emit(t)
    PROVE  Inv'
<1> USE DEF Emit
<1> DEFINE a == args[call[t].slot]
           evt == [tid |-> t, dst_port |-> call[t].port, sock |-> a.sock,
                   protocol |-> Classify(a.buf_ptr, call[t].port),
                   payload_len |-> copy_len(call[t].ret),
                   response_bytes |-> call[t].ret, payload |-> a.buf_ptr]
<1>0. call \in [Threads -> Calls] /\ call[t].at = "filled" /\ Probing(t)
      /\ args \in [Slots -> Args] /\ db_events \in Seq(DbEvents)
      /\ emitted \in [Threads -> Nat] /\ stored \in [Threads -> Nat]
  BY DEF Inv, TypeOK
<1>1. /\ a \in Args /\ a.sock \in DbSockets /\ call[t].ret \in Int /\ call[t].ret > 0
      /\ SlotsOf(t) = {} /\ is_db_port(call[t].port) /\ call[t].port \in Ports
  BY <1>0, CallFields DEF Probing
<1>2. copy_len(call[t].ret) \in 1 .. MAX_DB_PAYLOAD_LEN
  BY <1>1 DEF copy_len, MAX_DB_PAYLOAD_LEN
<1>3. Classify(a.buf_ptr, call[t].port) \in 0 .. 4
  BY <1>1 DEF Classify, Args, DB_PROTO_UNKNOWN
<1>4. evt \in DbEvents
  <2>1. copy_len(call[t].ret) \in Nat /\ call[t].ret \in Nat
    BY <1>1, <1>2 DEF MAX_DB_PAYLOAD_LEN
  <2>2. a.sock \in Sockets /\ a.buf_ptr \in {<<>>}
    BY <1>1 DEF Args, DbSockets
  <2> QED BY <1>1, <1>3, <2>1, <2>2 DEF DbEvents
<1>5. /\ is_db_port(evt.dst_port) /\ evt.sock # NoSock /\ evt.response_bytes > 0
      /\ evt.payload_len \in 1 .. MAX_DB_PAYLOAD_LEN
  BY <1>1, <1>2, NoneAssumption DEF DbSockets
<1>6. db_events' = Submit(db_events, RingSize, evt)
  OBVIOUS
<1> HIDE DEF evt, a
<1>7. db_events' \in Seq(DbEvents)
  BY <1>0, <1>4, <1>6 DEF Submit
<1>8. EventsPlausible'
  <2>1. CASE db_events' = db_events
    BY <2>1 DEF Inv, EventsPlausible
  <2>2. CASE db_events' = Append(db_events, evt)
    <3>1. Len(db_events') = Len(db_events) + 1 /\ Len(db_events) \in Nat
          /\ db_events'[Len(db_events) + 1] = evt
          /\ \A i \in 1 .. Len(db_events) : db_events'[i] = db_events[i]
      BY <1>0, <1>4, <2>2
    <3> SUFFICES ASSUME NEW i \in 1 .. Len(db_events')
                 PROVE  /\ is_db_port(db_events'[i].dst_port)
                        /\ db_events'[i].sock # NoSock
                        /\ db_events'[i].response_bytes > 0
                        /\ db_events'[i].payload_len \in 1 .. MAX_DB_PAYLOAD_LEN
      BY DEF EventsPlausible, is_db_port
    <3>2. CASE i = Len(db_events) + 1
      BY <3>1, <3>2, <1>5
    <3>3. CASE i \in 1 .. Len(db_events)
      BY <3>1, <3>3 DEF Inv, EventsPlausible
    <3>4. i = Len(db_events) + 1 \/ i \in 1 .. Len(db_events)
      BY <3>1
    <3> QED BY <3>2, <3>3, <3>4
  <2> QED BY <1>6, <2>1, <2>2 DEF Submit
<1>9. /\ call' \in [Threads -> Calls] /\ call'[t] = Idle
      /\ EntriesValid'
      /\ SlotsOf(t)' = SlotsOf(t)
      /\ \A u \in Threads \ {t} :
            Probing(u)' /\ SlotsOf(u)' = SlotsOf(u) /\ Owed(u)' = Owed(u)
                        /\ call'[u] = call[u]
  BY OneCall, IdleCall
<1>10. emitted' \in [Threads -> Nat]
  BY <1>0
<1>11. TypeOK'
  BY <1>7, <1>9, <1>10 DEF Inv, TypeOK
<1>12. Probing(t)'
  BY <1>9, IdleCall DEF Probing
<1>13. OneEventPerEntry'
  <2>1. Owed(t) = 1
    BY <1>0 DEF Owed
  <2>2. Owed(t)' = 0
    BY <1>1, <1>9, IdleCall DEF Owed
  <2>3. emitted'[t] \in {emitted[t], emitted[t] + 1}
        /\ \A u \in Threads \ {t} : emitted'[u] = emitted[u]
    BY <1>0
  <2>4. emitted[t] \in Nat /\ stored[t] \in Nat /\ emitted[t] + Owed(t) <= stored[t]
    BY <1>0 DEF Inv, OneEventPerEntry
  <2>5. (emitted[t] + Owed(t) <= stored[t])'
    BY <2>1, <2>2, <2>3, <2>4
  <2>6. \A u \in Threads \ {t} : (emitted[u] + Owed(u) <= stored[u])'
    BY <1>9, <2>3 DEF Inv, OneEventPerEntry
  <2> QED BY <2>5, <2>6 DEF OneEventPerEntry
<1>14. LeftoversMissed'
  BY <1>1, <1>9 DEF Inv, LeftoversMissed
<1> QED BY <1>8, <1>9, <1>11, <1>12, <1>13, <1>14 DEF Inv

LEMMA StepInv == Inv /\ [Next]_vars => Inv'
<1> SUFFICES ASSUME Inv, [Next]_vars PROVE Inv'
  OBVIOUS
<1>1. CASE UNCHANGED vars
  BY <1>1 DEF Inv, TypeOK, EntriesValid, Probing, OneEventPerEntry, LeftoversMissed,
              EventsPlausible, Owed, SlotsOf, vars
<1>2. CASE Next
  BY <1>2, EnterReadInv, LookupInv, MissReturnInv, DeleteInv, FillHeaderInv, EmitInv DEF Next
<1> QED BY <1>1, <1>2

LEMMA Invariance == Spec => []Inv
BY InitInv, StepInv, PTL DEF Spec

-----------------------------------------------------------------------------
(* Theorems.                                                               *)

\* Every variable keeps its type (db_probe.bpf.c).
THEOREM TypeCorrect == Spec => []TypeOK
<1>1. Inv => TypeOK
  BY DEF Inv
<1> QED BY <1>1, Invariance, PTL

\* No thread emits more events than it stored entries, for any number of
\* threads, slots and kretprobe instances (handle_tcp_recvmsg,
\* handle_tcp_recvmsg_ret).
THEOREM NoDoubleReport == Spec => []OneEventPerEntry
<1>1. Inv => OneEventPerEntry
  BY DEF Inv
<1> QED BY <1>1, Invariance, PTL

\* Only a return that was not probed leaves an entry behind
\* (handle_tcp_recvmsg_ret).
THEOREM OnlyMissedLeft == Spec => []LeftoversMissed
<1>1. Inv => LeftoversMissed
  BY DEF Inv
<1> QED BY <1>1, Invariance, PTL

\* Every event is about a database port, a socket and at least one byte, and its
\* payload length fits the buffer, although the probe reads a slot that it has
\* given back (handle_tcp_recvmsg_ret).
THEOREM EventsCorrect == Spec => []EventsPlausible
<1>1. Inv => EventsPlausible
  BY DEF Inv
<1> QED BY <1>1, Invariance, PTL

\* The program and the inspector classify the same payload alike, for every
\* payload and port (detect_protocol of db_probe.bpf.c and of db_inspector.rs,
\* DbProtocol::from_u8).
THEOREM DetectionsAgree ==
    ASSUME NEW payload \in Seq(Bytes), NEW port \in Ports
    PROVE  from_u8(detect_protocol(payload, Len(payload), port))
             = InspectorProtocol(payload, port)
<1> DEFINE proto == detect_protocol(payload, Len(payload), port)
<1>1. Len(payload) \in Nat
  OBVIOUS
<1> USE DEF DB_PROTO_UNKNOWN, DB_PROTO_PG, DB_PROTO_MYSQL, DB_PROTO_REDIS,
            DB_PROTO_ENCRYPTED
<1>2. CASE Len(payload) < 2
  BY <1>1, <1>2 DEF detect_protocol, from_u8, InspectorProtocol
<1>3. CASE Len(payload) >= 2 /\ payload[1] = 22 /\ payload[2] = 3
  BY <1>1, <1>3 DEF detect_protocol, from_u8, InspectorProtocol
<1>4. CASE Len(payload) >= 2 /\ ~(payload[1] = 22 /\ payload[2] = 3)
  BY <1>1, <1>4 DEF detect_protocol, from_u8, InspectorProtocol, PG_PORT, MYSQL_PORT,
                    REDIS_PORT, REDIS_SENTINEL_PORT
<1> QED BY <1>1, <1>2, <1>3, <1>4
=============================================================================
