------------------------------ MODULE DbProbe ------------------------------
(***************************************************************************)
(* Database observation: the two probes of bpf/db_probe.bpf.c on           *)
(* tcp_recvmsg, which pair the entry of a read with its return by way of   *)
(* the map recv_info.                                                      *)
(*                                                                         *)
(* The kernel is external.  A return is probed if one of the MaxActive     *)
(* instances of the kretprobe was free when the call entered; a read that  *)
(* blocks holds its instance.  recv_info is a preallocated hash map: an    *)
(* element that was deleted is free at once and may be given to another    *)
(* key, while whoever looked it up still holds its address.  The second    *)
(* probe does: it looks up, deletes, and then reads port and socket.       *)
(*                                                                         *)
(* A socket stands for its addresses and, by Port, its destination port; a *)
(* thread for its pid, tid and comm.  build.rs does not compile the        *)
(* program and nothing reads db_events yet, so the ring only fills.        *)
(***************************************************************************)
EXTENDS EbpfEvents, FiniteSets

CONSTANTS
    Threads, Sockets,
    Port,        \* destination port of each socket
    Slots,       \* the preallocated elements of recv_info (max_entries)
    MaxActive,   \* instances of the kretprobe
    RingSize,    \* records that db_events has room for
    Rets,        \* values that a read may return
    MaxReads,    \* bound of the model: reads of one thread
    NoThread, NoSock, NoSlot

PG_PORT == 5432
MYSQL_PORT == 3306
REDIS_PORT == 6379
REDIS_SENTINEL_PORT == 26379

\* A port has 16 bits.
Ports == 0 .. 65535

ASSUME PortAssumption == Port \in [Sockets -> Ports]
ASSUME NoneAssumption == NoThread \notin Threads /\ NoSock \notin Sockets /\ NoSlot \notin Slots
ASSUME LimitsAssumption == MaxActive \in Nat /\ RingSize \in Nat \ {0} /\ MaxReads \in Nat
ASSUME RetsAssumption == Rets \subseteq Int /\ 0 \in Rets

is_db_port(port) == port \in {PG_PORT, MYSQL_PORT, REDIS_PORT, REDIS_SENTINEL_PORT}
DbSockets == {s \in Sockets : is_db_port(Port[s])}

-----------------------------------------------------------------------------
(* Protocol detection, by the program and by db_inspector.rs.              *)

DETECT_LEN == 8
Bytes == 0 .. 255

\* The message types R K T D C E Z N S Q P B.
PgTypes == {82, 75, 84, 68, 67, 69, 90, 78, 83, 81, 80, 66}
\* Greeting, OK, ERR, COM_QUERY and COM_STMT_EXECUTE.
MySqlMarks == {10, 0, 255, 3, 23}
\* The RESP types * + - : $ and the letters of an inline command.
RespMarks == {42, 43, 45, 58, 36} \cup 65 .. 90 \cup 97 .. 122

\* detect_protocol of db_probe.bpf.c, for the first len bytes of buf.
detect_protocol(buf, len, port) ==
    CASE len < 2 -> DB_PROTO_UNKNOWN
      [] len >= 2 /\ buf[1] = 22 /\ buf[2] = 3 -> DB_PROTO_ENCRYPTED
      [] OTHER ->
           IF port = PG_PORT /\ buf[1] \in PgTypes THEN DB_PROTO_PG
           ELSE IF port = MYSQL_PORT /\ len >= 5 /\ buf[5] \in MySqlMarks
                  THEN DB_PROTO_MYSQL
           ELSE IF port \in {REDIS_PORT, REDIS_SENTINEL_PORT} /\ buf[1] \in RespMarks
                  THEN DB_PROTO_REDIS
           ELSE DB_PROTO_UNKNOWN

\* The protocol of an event: without a buffer it stays unknown.  Another read
\* may have left the bytes after the first ret ones in buf.
Classify(buf, port) ==
    IF buf # <<>> THEN detect_protocol(buf, DETECT_LEN, port) ELSE DB_PROTO_UNKNOWN

\* DbInspector::detect_protocol, for the payload of an event.
InspectorProtocol(payload, port) ==
    IF Len(payload) < 2 THEN "Unknown"
    ELSE IF payload[1] = 22 /\ payload[2] = 3 THEN "Encrypted"
    ELSE IF port = PG_PORT /\ payload[1] \in PgTypes THEN "PostgreSQL"
    ELSE IF port = MYSQL_PORT /\ Len(payload) >= 5 /\ payload[5] \in MySqlMarks THEN "MySQL"
    ELSE IF port \in {REDIS_PORT, REDIS_SENTINEL_PORT} /\ payload[1] \in RespMarks
           THEN "Redis"
    ELSE "Unknown"

\* DbProtocol::from_u8.
from_u8(proto) ==
    CASE proto = DB_PROTO_PG -> "PostgreSQL" [] proto = DB_PROTO_MYSQL -> "MySQL"
      [] proto = DB_PROTO_REDIS -> "Redis" [] proto = DB_PROTO_ENCRYPTED -> "Encrypted"
      [] OTHER -> "Unknown"

-----------------------------------------------------------------------------
\* struct recvmsg_args.  buf_ptr is the buffer of the reader; the first probe
\* leaves it null.
Args == [sock : Sockets \cup {NoSock}, buf_ptr : {<<>>}]
NullArgs == [sock |-> NoSock, buf_ptr |-> <<>>]

\* struct db_event: payload is what was copied of the data.
DbEvents == [tid : Threads, dst_port : Ports, sock : Sockets \cup {NoSock},
             protocol : 0 .. 4, payload_len : Nat, response_bytes : Nat, payload : {<<>>}]

VARIABLES
    call,       \* the read that each thread is in
    key,        \* the thread whose entry each slot holds
    args,       \* the value in each slot, also after its deletion
    db_events,  \* the ring buffer
    reads,      \* reads of each thread
    stored,     \* ghost: entries stored for each thread
    emitted,    \* ghost: events emitted by each thread
    missed      \* ghost: threads of which a return was not probed

vars == <<call, key, args, db_events, reads, stored, emitted, missed>>

Idle == [at |-> "user", sock |-> NoSock, hooked |-> FALSE, ret |-> 0, slot |-> NoSlot,
         port |-> 0]
Calls == [at : {"user", "reading", "found", "deleted", "filled"},
          sock : Sockets \cup {NoSock}, hooked : BOOLEAN, ret : Rets,
          slot : Slots \cup {NoSlot}, port : Ports]

Init ==
    /\ call = [t \in Threads |-> Idle]
    /\ key = [i \in Slots |-> NoThread]
    /\ args = [i \in Slots |-> NullArgs]
    /\ db_events = <<>>
    /\ reads = [t \in Threads |-> 0]
    /\ stored = [t \in Threads |-> 0]
    /\ emitted = [t \in Threads |-> 0]
    /\ missed = {}

SlotsOf(t) == {i \in Slots : key[i] = t}

-----------------------------------------------------------------------------
(* The entry of a read.                                                    *)

\* bpf_map_update_elem: the slot of the key, or any free one, or none.
Targets(t) == IF SlotsOf(t) # {} THEN SlotsOf(t) ELSE SlotsOf(NoThread)

\* handle_tcp_recvmsg.
handle_tcp_recvmsg(t, s) ==
    IF s \in DbSockets /\ Targets(t) # {}
      THEN \E i \in Targets(t) :
             /\ key' = [key EXCEPT ![i] = t]
             /\ args' = [args EXCEPT ![i] = [sock |-> s, buf_ptr |-> <<>>]]
             /\ stored' = [stored EXCEPT ![t] = @ + 1]
      ELSE UNCHANGED <<key, args, stored>>

\* An instance of the kretprobe is free.
InstanceFree == Cardinality({u \in Threads : call[u].hooked}) < MaxActive

\* A thread enters tcp_recvmsg.
EnterRead(t, s) ==
    /\ call[t].at = "user" /\ reads[t] < MaxReads
    /\ reads' = [reads EXCEPT ![t] = @ + 1]
    /\ handle_tcp_recvmsg(t, s)
    /\ call' = [call EXCEPT ![t] = [Idle EXCEPT !.at = "reading", !.sock = s,
                                                !.hooked = InstanceFree]]
    /\ UNCHANGED <<db_events, emitted, missed>>

-----------------------------------------------------------------------------
(* Its return, and the steps of handle_tcp_recvmsg_ret.                    *)

\* The return is not probed.
MissReturn(t) ==
    /\ call[t].at = "reading" /\ ~call[t].hooked
    /\ call' = [call EXCEPT ![t] = Idle]
    /\ missed' = missed \cup {t}
    /\ UNCHANGED <<key, args, db_events, reads, stored, emitted>>

\* bpf_map_lookup_elem: without an entry the probe ends.
Lookup(t, ret) ==
    /\ call[t].at = "reading" /\ call[t].hooked
    /\ \/ /\ SlotsOf(t) = {}
          /\ call' = [call EXCEPT ![t] = Idle]
       \/ \E i \in SlotsOf(t) :
            call' = [call EXCEPT ![t].at = "found", ![t].slot = i, ![t].ret = ret]
    /\ UNCHANGED <<key, args, db_events, reads, stored, emitted, missed>>

\* Mutant: an error or an end of file leaves the entry.
DeleteOnData(t) ==
    /\ call[t].at = "found"
    /\ key' = [i \in Slots |-> IF key[i] = t /\ call[t].ret > 0 THEN NoThread ELSE key[i]]
    /\ call' = [call EXCEPT ![t] = IF call[t].ret <= 0 THEN Idle
                                     ELSE [call[t] EXCEPT !.at = "deleted"]]
    /\ UNCHANGED <<args, db_events, reads, stored, emitted, missed>>

\* Mutant: the entry is not deleted.
NoDelete(t) ==
    /\ call[t].at = "found"
    /\ call' = [call EXCEPT ![t] = IF call[t].ret <= 0 THEN Idle
                                     ELSE [call[t] EXCEPT !.at = "deleted"]]
    /\ UNCHANGED <<key, args, db_events, reads, stored, emitted, missed>>

\* Mutant: the return value is not looked at.
DeleteAndGoOn(t) ==
    /\ call[t].at = "found"
    /\ key' = [i \in Slots |-> IF key[i] = t THEN NoThread ELSE key[i]]
    /\ call' = [call EXCEPT ![t] = [call[t] EXCEPT !.at = "deleted"]]
    /\ UNCHANGED <<args, db_events, reads, stored, emitted, missed>>

\* bpf_map_delete_elem; the probe goes on if there is data.
Delete(t) ==
    /\ call[t].at = "found"
    /\ key' = [i \in Slots |-> IF key[i] = t THEN NoThread ELSE key[i]]
    /\ call' = [call EXCEPT ![t] = IF call[t].ret <= 0 THEN Idle
                                     ELSE [call[t] EXCEPT !.at = "deleted"]]
    /\ UNCHANGED <<args, db_events, reads, stored, emitted, missed>>

\* The port is read through the address that the lookup gave.
PortOf(i) == IF args[i].sock = NoSock THEN 0 ELSE Port[args[i].sock]

FillHeader(t) ==
    /\ call[t].at = "deleted"
    /\ call' = [call EXCEPT ![t].at = "filled", ![t].port = PortOf(call[t].slot)]
    /\ UNCHANGED <<key, args, db_events, reads, stored, emitted, missed>>

\* Mutant: the length is not cut to the size of the buffer.
WholeLen(ret) == ret

copy_len(ret) == IF ret > MAX_DB_PAYLOAD_LEN THEN MAX_DB_PAYLOAD_LEN ELSE ret

\* The addresses of the socket and the payload are read, the event is emitted.
Emit(t) ==
    LET a == args[call[t].slot] IN
    /\ call[t].at = "filled"
    /\ db_events' = Submit(db_events, RingSize,
         [tid |-> t, dst_port |-> call[t].port, sock |-> a.sock,
          protocol |-> Classify(a.buf_ptr, call[t].port),
          payload_len |-> copy_len(call[t].ret), response_bytes |-> call[t].ret,
          payload |-> a.buf_ptr])
    /\ emitted' = IF HasRoom(db_events, RingSize) THEN [emitted EXCEPT ![t] = @ + 1]
                                                  ELSE emitted
    /\ call' = [call EXCEPT ![t] = Idle]
    /\ UNCHANGED <<key, args, reads, stored, missed>>

Next ==
    \/ \E t \in Threads, s \in Sockets : EnterRead(t, s)
    \/ \E t \in Threads, ret \in Rets : Lookup(t, ret)
    \/ \E t \in Threads : MissReturn(t) \/ Delete(t) \/ FillHeader(t) \/ Emit(t)

Spec == Init /\ [][Next]_vars

-----------------------------------------------------------------------------
(* Properties.                                                             *)

TypeOK ==
    /\ call \in [Threads -> Calls]
    /\ key \in [Slots -> Threads \cup {NoThread}]
    /\ args \in [Slots -> Args]
    /\ db_events \in Seq(DbEvents)
    /\ reads \in [Threads -> 0 .. MaxReads]
    /\ stored \in [Threads -> Nat] /\ emitted \in [Threads -> Nat]
    /\ missed \subseteq Threads

\* What thread t may still emit for an entry it has stored.
Owed(t) == IF SlotsOf(t) # {} \/ call[t].at \in {"deleted", "filled"} THEN 1 ELSE 0

\* A thread never emits more events than it stored entries, whatever returns
\* are missed, slots reused and entries overwritten (handle_tcp_recvmsg,
\* handle_tcp_recvmsg_ret): no read is reported twice.
OneEventPerEntry ==
    \A t \in Threads : emitted[t] + Owed(t) <= stored[t]

\* An entry of a thread that is not in a read is left from a read whose return
\* was not probed (handle_tcp_recvmsg_ret deletes in every other case).
LeftoversMissed ==
    \A t \in Threads : SlotsOf(t) # {} /\ call[t].at = "user" => t \in missed

\* Every event is about a database port and a read with data, and its payload
\* length fits the buffer, also when its slot was given to another thread
\* between the delete and the use (handle_tcp_recvmsg_ret).
EventsPlausible ==
    \A i \in 1 .. Len(db_events) :
        LET evt == db_events[i] IN
        /\ is_db_port(evt.dst_port)
        /\ evt.sock # NoSock
        /\ evt.response_bytes > 0
        /\ evt.payload_len \in 1 .. MAX_DB_PAYLOAD_LEN

(* What comments say and the code does not keep.                           *)

\* "pass the sock* [...] from the kprobe entry to the kretprobe return": the
\* event is about the socket that the thread reads.
OwnSocket ==
    \A t \in Threads :
        call[t].at = "filled" => args[call[t].slot].sock = call[t].sock

\* "bytes captured in payload[]" of payload_len.
PayloadCaptured ==
    \A i \in 1 .. Len(db_events) : db_events[i].payload_len = Len(db_events[i].payload)
=============================================================================
