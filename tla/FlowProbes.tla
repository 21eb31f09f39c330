----------------------------- MODULE FlowProbes -----------------------------
(***************************************************************************)
(* DNS and HTTP observation: the probes of bpf/dns_mapper.bpf.c and        *)
(* bpf/http_inspector.bpf.c, and the userspace side of dns_mapper.rs and   *)
(* http_inspector.rs.                                                      *)
(*                                                                         *)
(* Both probes see the socket and not the data: the DNS probe writes a     *)
(* placeholder for the name, the HTTP probe sends no payload after its     *)
(* struct.  A send of the model is a destination port, 0 for a UDP socket  *)
(* that is not connected.                                                  *)
(***************************************************************************)
EXTENDS EbpfEvents

CONSTANTS
    Ports,          \* destination ports of the sends
    ExcludePorts,   \* exclude_ports
    Texts,          \* what a name or the data after a struct may be
    FlowRing,       \* records that dns_events and http_events have room for
    MaxEventQueue,  \* MAX_EVENT_QUEUE
    MaxSends        \* bound of the model: sends that a probe reports

ASSUME FlowAssumption ==
    /\ Ports \subseteq 0 .. 65535 /\ ExcludePorts \subseteq Ports
    /\ FlowRing \in Nat \ {0} /\ MaxEventQueue \in Nat \ {0} /\ MaxSends \in Nat

DNS_PORT == 53
is_http_port(port) == port \in {80, 8080, 8000, 3000, 5000}
is_https_port(port) == port \in {443, 8443}

\* The name that copy_pending writes, and one that is empty.
pending_domain == "<pending>"
no_domain == ""
\* No bytes after the struct of the event.
NoPayload == "empty"
ASSUME TextsAssumption == {pending_domain, no_domain, NoPayload} \subseteq Texts

\* struct dns_event and struct http_event.
DnsEvents == [event_type : {EVENT_DNS_QUERY}, dst_port : {DNS_PORT}, domain : Texts]
HttpEvents == [event_type : {EVENT_HTTP_REQUEST, EVENT_HTTPS_SNI}, dst_port : Ports,
               payload : Texts]

VARIABLES
    probing,      \* which of the two programs is attached
    dns_events,   \* the ring buffers
    http_events,
    cache,        \* DnsMapper.cache: its domains
    events,       \* HttpInspector.events
    sends         \* number of sends that a probe has reported

flowVars == <<probing, dns_events, http_events, cache, events, sends>>

FlowInit ==
    /\ probing = {} /\ dns_events = <<>> /\ http_events = <<>>
    /\ cache = {} /\ events = <<>> /\ sends = 0

CountSend == sends < MaxSends /\ sends' = sends + 1

-----------------------------------------------------------------------------
(* The probes.                                                             *)

\* handle_udp_sendmsg: the destination is the one of the socket, so a sendto
\* over a socket that is not connected is not seen.
handle_udp_sendmsg(port) ==
    /\ "dns" \in probing /\ port = DNS_PORT /\ CountSend
    /\ dns_events' = Submit(dns_events, FlowRing,
                            [event_type |-> EVENT_DNS_QUERY, dst_port |-> port,
                             domain |-> pending_domain])
    /\ UNCHANGED <<probing, http_events, cache, events>>

\* handle_tcp_sendmsg.
handle_tcp_sendmsg(port) ==
    /\ "http" \in probing /\ (is_http_port(port) \/ is_https_port(port)) /\ CountSend
    /\ http_events' = Submit(http_events, FlowRing,
                             [event_type |-> IF is_https_port(port) THEN EVENT_HTTPS_SNI
                                                                    ELSE EVENT_HTTP_REQUEST,
                              dst_port |-> port, payload |-> NoPayload])
    /\ UNCHANGED <<probing, dns_events, cache, events>>

-----------------------------------------------------------------------------
(* Userspace.                                                              *)

\* Mutant: the placeholder is taken for a name.
CachesPlaceholder(evt) ==
    IF evt.dst_port \in ExcludePorts \/ evt.domain = no_domain THEN cache
    ELSE cache \cup {evt.domain}

\* The cache after the callback of dns_events.
Cached(evt) ==
    IF evt.dst_port \in ExcludePorts \/ evt.domain \in {no_domain, pending_domain} THEN cache
    ELSE cache \cup {evt.domain}

handle_dns_event ==
    /\ dns_events # <<>>
    /\ cache' = Cached(Head(dns_events))
    /\ dns_events' = Tail(dns_events)
    /\ UNCHANGED <<probing, http_events, events, sends>>

\* HttpInspector::process_event finds a request or a server name.
\* parse_request and extract_sni find neither without data.
Parses(evt) == evt.payload # NoPayload

\* The queue after handle_http_event: a full queue loses its oldest event.
Queued(evt) ==
    IF evt.dst_port \in ExcludePorts \/ ~Parses(evt) THEN events
    ELSE Append(IF Len(events) >= MaxEventQueue THEN Tail(events) ELSE events, evt)

handle_http_event ==
    /\ http_events # <<>>
    /\ events' = Queued(Head(http_events))
    /\ http_events' = Tail(http_events)
    /\ UNCHANGED <<probing, dns_events, cache, sends>>

\* The drain_events of both: the cache loses what CACHE_TTL has expired and
\* keeps the rest, which it reports again each time; the queue is emptied.
drain_flows ==
    /\ cache' \in SUBSET cache
    /\ events' = <<>>
    /\ UNCHANGED <<probing, dns_events, http_events, sends>>

-----------------------------------------------------------------------------
(* Properties.                                                             *)

\* The cache holds names and the queue holds requests: neither the placeholder
\* of copy_pending nor an event without payload gets that far.
FlowTypeOK ==
    /\ probing \subseteq {"dns", "http"}
    /\ dns_events \in Seq(DnsEvents) /\ http_events \in Seq(HttpEvents)
    /\ cache \subseteq Texts \ {no_domain, pending_domain}
    /\ events \in Seq({evt \in HttpEvents : evt.payload # NoPayload})
    /\ sends \in 0 .. MaxSends
=============================================================================
