----------------------------- MODULE EbpfEvents -----------------------------
(***************************************************************************)
(* What the eBPF programs of the agent share (agent/src/ebpf/bpf/common.h) *)
(* and what they take from the kernel's types (vmlinux.h): the event types,*)
(* the protocol codes, the TCP states and a ring buffer.                   *)
(*                                                                         *)
(* A ring buffer is the sequence of its submitted records.  A program      *)
(* reserves, copies and submits in one go; the reader sees the records in  *)
(* the order of the reservations.                                          *)
(***************************************************************************)
EXTENDS Integers, Sequences

\* enum event_type.
EVENT_TCP_CONNECT == 1
EVENT_TCP_ACCEPT == 2
EVENT_TCP_CLOSE == 3
EVENT_DNS_QUERY == 4
EVENT_HTTP_REQUEST == 5
EVENT_HTTPS_SNI == 6
EVENT_DB_QUERY == 7

\* DB_PROTO_*.
DB_PROTO_UNKNOWN == 0
DB_PROTO_PG == 1
DB_PROTO_MYSQL == 2
DB_PROTO_REDIS == 3
DB_PROTO_ENCRYPTED == 4

MAX_DB_PAYLOAD_LEN == 256

\* The TCP states that the programs compare with.
TCP_ESTABLISHED == 1
TCP_SYN_SENT == 2
TCP_TIME_WAIT == 6
TCP_CLOSE == 7

\* The states that only the kernel names.
KERNEL_FIN_WAIT1 == 4
KERNEL_CLOSE_WAIT == 8

\* The states a socket of the model can be in.
KernelStates ==
    {TCP_ESTABLISHED, TCP_SYN_SENT, KERNEL_FIN_WAIT1, TCP_CLOSE, KERNEL_CLOSE_WAIT}

-----------------------------------------------------------------------------
\* bpf_ringbuf_reserve gives nothing when the buffer is full.
HasRoom(ring, size) == Len(ring) < size

\* Reserve, copy, submit; without room the event is gone.
Submit(ring, size, evt) == IF HasRoom(ring, size) THEN Append(ring, evt) ELSE ring
=============================================================================
