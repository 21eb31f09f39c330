# Paryty: a verification project in TLA+

Paryty (`src/paryty-v1.0`) is an observability platform: Rust agents on the
monitored hosts collect metrics and network events and send them to a cluster of
Go services, which assigns agents to *twins*, aggregates the metrics in windows
and stores and serves the results.  These modules model the parts of it where
concurrency, failure and ordering decide whether data and assignments stay
correct.  TLC checks them on small instances; TLAPS proves part of what is
checked for every value of the constants.

## 1. The system

| Part | State | Operations | What is hard |
|---|---|---|---|
| Edge buffer (`agent/src/communication/edge_buffer.rs`) | deque behind a lock, byte counter and sequence counter outside it, SQLite table | write (expire, spill, evict, push), read, drain, mark sent or for retry, delete the backlog | counter and deque change in different critical sections; several tasks; restart with an old database |
| Delivery client (`communication/mod.rs`, `grpc_client.rs`, `flow_control.rs`, `main.rs`) | connection, registration, identity and pause flags, raw channel, the cancellation tokens | the send paths of three layers, four flushing tasks, reconnection, heartbeat and its commands, shutdown | lost answers, rejections, flushes that stop half way, a bounded channel, two tokens |
| Agent assignment (`cluster/internal/twin`, `auth/twin_handler.go`, `api/ingestion/service.go`) | tables `agent_registrations`, `agent_assignments`, `agent_blacklist`, `paryty_twins`; routing hash in Dragonfly | register, pair, unpair, retire, blacklist, unregister, assign, rename, delete agent, delete twin, route lookup | checks and transactions are separate statements; READ COMMITTED; requests cut off half way; a cache filled by readers |
| Metric windows (`cluster/internal/processing/window.go`, `aggregator.go`, `pipeline.go`, retry of `stream/consumer.go`) | `sync.Map` of window buffers, snapshot in Dragonfly | add, scan for due windows, mark, copy, purge, purge stale, snapshot, retry | worker goroutines and a ticker in the same map, late data, retries, crash |
| Stream consumer (`stream/consumer.go`, `Pipeline.Stop`) | position, work channel, worker pool, context, committed and marked offsets | poll, dispatch, handle, retry with backoff, dead letter queue, close, commit | the poll loop, the workers and `Close` wait for each other; timeouts; crash |
| eBPF programs (`agent/src/ebpf/bpf/*.bpf.c`, `common.h`) | maps keyed by thread, ring buffers | probes at the entry and return of kernel functions | entry and return paired by thread id; probes attached while calls are under way; a map element used after its deletion; full maps and rings |
| Network observer (`agent/src/ebpf/*.rs`) | connection table, DNS cache, HTTP queue | load, poll the rings, drain, hand over, cancel | one loop that reads all rings and waits for the cluster |
| Commands and backlog (`twin/command.go`, `backlog.go`) | rows marked delivered | enqueue, dequeue in a heartbeat | a lost response |
| Correlation, graph, Top-N, downsampling (`processing/`) | event ring, graph, heaps | correlate, clean up, rank | drained before processed, stale nodes |
| Stores (`storage/hot`, `warm`, `cold`) | databases, buffered writer, caches | read and write | reconnects, bounded caches |
| APIs, auth, plans, monitoring, simulation, timeline (`cluster/internal/...`) | mostly none of their own | request handlers | quota checked before the insert, alert states |
| Intelligence services (Python), frontend, deployment | models, views | | numerical |

How they interact.  The eBPF programs write events into ring buffers in whatever
thread the kernel runs; the network observer reads them.  The collection layers,
the observer among them, call the delivery client; what cannot
be sent goes into the edge buffer, which the client's loops drain.  The cluster
answers registrations and heartbeats of the agent and sends commands with them
(assign identity, flush, upload or delete the backlog, retire).  The ingestion
service asks the routing cache for the twin of an agent and publishes the batch
to a Kafka topic; the consumer's workers pass it to the pipeline, whose first
stage is the window aggregator.  Operators change assignments through the REST
handlers while agents register and the ingestion service looks up routes.

`PROJECT.json` lists every component with what is and is not modelled, and the
hazards with their source lines.

## 2. Modules

| Module | Models |
|---|---|
| `EdgeBuffer` | the edge buffer; an action is a critical section or an atomic access |
| `EdgeBufferProofs` | theorems about it |
| `AgentDelivery` | the delivery client; an action is what a task does between two awaits that can wait |
| `AgentDeliveryProofs` | theorems about it |
| `AgentLifecycle` | abstract: the lifecycle of an edge agent, each operation in one step |
| `AgentPairing` | the operations as sequences of SQL statements and transactions, and the routing cache; instantiates `AgentLifecycle` |
| `AgentPairingProofs` | theorems about it, the refinement included |
| `MetricWindows` | the windows of one agent and one metric; an action is a lock section |
| `MetricWindowsProofs` | theorems about it |
| `EbpfEvents` | what the programs share: event types, protocol codes, TCP states, a ring buffer |
| `TcpTracker` | the three probes of `tcp_tracker.bpf.c`, the kernel calls that carry them, and `tcp_tracker.rs` |
| `TcpTrackerProofs` | theorems about it |
| `FlowProbes` | `dns_mapper.bpf.c` and `http_inspector.bpf.c` with their userspace side |
| `NetworkObserver` | composes `TcpTracker` and `FlowProbes` with the loader and the loop of `run_ebpf` |
| `NetworkObserverProofs` | the composition implements `TcpTracker`; theorems about the loop |
| `DbProbe` | `db_probe.bpf.c`, with its two detections of the protocol |
| `DbProbeProofs` | theorems about it |
| `StreamConsumer` | the consumer with its workers, `Pipeline.Stop` and `Close`, the client's commits, a crash |
| `StreamConsumerProofs` | theorems about it |
| `MC...` | instances for TLC: symmetry sets and named constant values |

### EdgeBuffer
`mem` is the deque as the set of its entries with their push rank, `memoryUsage`
and `seqCounter` the two atomics, `rows` the SQLite table, which alone survives
`Restart`.  `pc` and `ent` say where each task is in `write()`: expire memory,
expire SQLite, test the capacity, spill or evict, push, count.  The push and the
count are two actions, as in the code, so a drain can come between them.
`memoryUsage` wraps at `U64`.  Database errors are alternatives of the actions
that can meet them.  `delete_all_backlog` uses `try_write`; the model lets it
fail when another task can hold the lock.

### AgentDelivery
Items are pairs of a layer and a number.  `buffer` abstracts `EdgeBuffer` to the
sequence of its entries: the limit of the buffer is checked there.  Each flushing
task (`loop`, `command`, `upload`, `shutdown`) holds the entries it has drained
in `batch`.  `SendTaken` with `answered = FALSE` is an answer lost after the
cluster took the batch.  `ingested` and `gone` are ghosts: what the cluster has,
and what left the agent and why.  The raw channel has `RawCap` slots and no
action that reads it, since no code does.

### AgentPairing and AgentLifecycle
A request is a record with its next step; `Begin` starts any of the eleven
operations, `Abort` ends one at any point (a failed statement, a cancelled
context, a crash), rolling back only an open transaction.  In a transaction the
`DELETE` fixes the rows it saw, the rest takes effect with the commit.
`Lookups` are the readers that fill the routing hash.  `AgentLifecycle` is what
the operations are meant to do: check and effect in one step, along
`edgeValidTransitions`.

### MetricWindows
`bufs` has every buffer created, `live` those in the map; a buffer may be out of
the map while a goroutine still uses it.  `work` is a worker in
`processMetricBatch`, `scan` a `GetClosedWindows` or `PurgeClosed` in progress.
`Fail` publishes any part of the aggregates and retries or gives up.  Values are
abstracted to the batch and its timestamp.

### TcpTracker
`conn` is the connect call each thread is in and `sk` the state of each socket:
both are the kernel's and external.  `connect_info` and `tcp_events` are the map
and the ring; every probe is an operator applied by the kernel action that
carries it, so it runs at that point or, if it is not attached, not at all.
`hooked` records whether a return will be probed, which the kernel decides at
the entry of the call.  `Attach` and `Detach` interleave with everything.  The
ghosts `opener`, `result`, `told`, `unseen` and `lost` say what really happened
to a socket.  `FastOpen` adds connects that return 0 without a SYN.

### FlowProbes and NetworkObserver
Neither program sends data to userspace: the DNS probe writes a placeholder that
the callback filters, the HTTP probe an event without payload.  Names and payloads
are members of `Texts`, which has at least the placeholder and the empty one.  `pc` is the place
of the observer's task; it can be cancelled only where it awaits.  The spec of
`TcpTracker` (any reader, at any time) is a property of the composed module: the
loop is one of its readers.

### DbProbe
`key` and `args` are the preallocated elements of `recv_info`: a deleted element
keeps its value until it is given to another key.  The return probe is four
actions (look up, delete, read the port, read the socket and emit), so other
threads come in between, as they do on other CPUs.  `MaxActive` is the number of
returns that can be probed at a time.

### StreamConsumer
`loop` is the poll loop, `work` what each worker does, `closer` the goroutine in
`Stop` and `Close`.  A timeout of `Close` is a choice that `PollPatience` and
`WorkPatience` admit.  `Marks` says which records a fetch marks for commit: none,
because the client is built with `AutoCommitMarks` and no code marks a record.
So the committed offset never moves, and a restarted consumer repeats records but
skips none.

## 3. Runs

| Run | Checks | Result |
|---|---|---|
| `edge_buffer_memory` | `UsageExact`, `OvershootBounded`: three tasks, memory only | hold: the wrapping counter is right when no write is between push and count, and the buffer exceeds its limit by at most one entry per further task |
| `edge_buffer_sqlite` | `TypeOK`, `Conservation`, `WriteReturns`: two tasks, SQLite, failures, a restart, deletes | hold: every entry is in one place or gone for one reason, and a write ends |
| `delivery_safety` | `TypeOK`, `Accounted`, `OneOwner`, `DropsOnlyAtShutdown`: two layers, an outage, a command | hold |
| `delivery_live` | `ShutdownEnds`, `LoopsStop`, `BufferFlushed`: the net layer, an outage, a command | hold while the raw channel has room |
| `pairing_overlap` | `TypeOK`, `BlacklistComplete`: two overlapping requests, all operations, a lookup | hold |
| `pairing_lifecycle` | `LifecycleSpec`, `OneTwinPerAgent`, `AssignedTwinExists`, `ActiveNotBlacklisted`: two agents, two twins, one lifecycle request at a time, with aborts | hold: it implements `AgentLifecycle` |
| `windows_safe` | `OnTimeOpen`, `PublishedAfterGrace`: two workers and the ticker | hold |
| `windows_once` | `CountedOnce`, `WindowsClose`: one worker, snapshots, a crash, no retries | hold |
| `tcp_tracker` | `TypeOK`, `ConnectTruthful`, `LeftoversUnseen`, `ClosedIsNewest`: two threads, two sockets, one of them IPv6, attaching and detaching | hold: the probes pair the entry and the return of one call, and a socket's close is the last thing the ring tells of it |
| `observer` | `ObserverTypeOK`, `ClosedStaysClosed`, `CloseReported`, `Spec` of `TcpTracker`: all layers, failures to attach and to set up, cancellation | hold |
| `db_probe` | `TypeOK`, `OneEventPerEntry`, `LeftoversMissed`, `EventsPlausible`: three threads, two map slots, two kretprobe instances | hold |
| `stream_drain` | `TypeOK`, `HandedOverOnce`, `NoSendOnClosed`, `DrainComplete`, `CommittedFinished`, `CloseReturns`: two workers, three records, a channel of one, failures, a crash | hold if the poll loop leaves before the drain timeout |

Bounds.  Two or three tasks, requests or workers: every race in the code is
between two critical sections of two of them, and the third of
`edge_buffer_memory` shows that the overshoot grows with the number of writers.
The buffer limits are so small that spilling, evicting and entries larger than
the room left all happen; `TTL = 0` with one tick lets entries expire.  One item
per layer is enough for `Accounted` and `OneOwner`, which speak of one item at a
time, and four flushing tasks compete for it.  Two twins are needed to see an
agent in two of them.  Windows of length 1 with two timestamps, a grace of 1 and
three ticks let a window be on time, late, due, closed, purged and stale.
The eBPF instances have fewer map slots, ring records and kretprobe instances
than threads, so that every one of them runs out; two threads and two sockets
show a mix-up of two calls, and return values of -1, 0 and 257 are the edges of
the length of a payload.  A channel of one with fetches of two blocks the poll
loop while `Close` waits for it.
Symmetry is used for tasks, threads and workers in runs that check invariants only.
Deadlock is not checked where the bounds on writes and items let the model stop.

Fairness.  `EdgeBuffer`: a task inside `write()` goes on (the runtime polls it;
no step of it waits for another task for ever).  `AgentDelivery`: every task with
a ready step takes it; an RPC ends because it has a timeout; nothing is assumed
of the cluster, its commands or Ctrl+C.  `AcceptingSpec` adds that a reachable
cluster at some point accepts the registration, which the loop retries without
end.  `NetworkObserver`: the thread of the observer runs its loop; a send returns
because every request has a timeout of 60 s (`grpc_client.rs:395`) and the
fall-back to the edge buffer does not fail.  A poll ends when the ring is empty:
`MaxSends` and the states of the sockets bound what producers add meanwhile.
`StreamConsumer`: the goroutines run and a handler returns.
`MetricWindows`: the clock moves and the ticker's goroutine runs; the
workers are not fair, because batches may stop.

## 4. Where the code and its documents differ

Configurations that are kept beside the regular runs reproduce what comments and
documents say and the code does not do.  Each violates its one property;
a star marks a row that takes the constants of the configuration (with the change
given) and the property of the row in place of its own:

| Configuration | Property | What TLC shows |
|---|---|---|
| `MCEdgeBuffer_delete` | `UsageExact` | `store(0)` after the lock is released erases the count of a write in between |
| `MCEdgeBuffer_delete` * | `DeleteDrainsMemory` | `try_write` fails and the backlog in memory stays |
| `MCEdgeBuffer_delete` *, `TTL = 0`, `MaxClock = 1`, `DeleteBacklog = FALSE` | `FifoByAge` | timestamps are taken before the lock, the deque is not ordered by age |
| `MCEdgeBuffer_seq` | `UniqueSequence` | sequence numbers repeat after a restart |
| `MCAgentDelivery_raw` | `RawDelivered` | items accepted by `GrpcClient::send` are never streamed: nothing reads the raw channel |
| `MCAgentDelivery_full` | `ShutdownEnds` | the raw channel is full and the shutdown waits for ever |
| `MCAgentDelivery_loss` | `ZeroLoss` | a flush that stops drops the rest of what it drained |
| `MCAgentDelivery_retire` | `RetireEnds` | RETIRE stops the client's loops, not the process |
| `MCAgentPairing_twins` | `OneTwinPerAgent` | two overlapping pairings of one agent both commit |
| `MCAgentPairing_twins` * | `ActiveNotBlacklisted` | an agent is blacklisted between the check and the commit of its pairing |
| `MCAgentPairing_blocks` * | `StatusMovesAlongTable` | blacklisting from a status the table does not allow |
| `MCAgentPairing_blocks` | `BlacklistBlocks` | a blacklisted agent registers |
| `MCAgentPairing_route` | `RouteFresh` | auto-assignment does not invalidate the route |
| `MCAgentPairing_orphans` | `ActiveHasTwin` | deleting a twin leaves its agents active |
| `MCMetricWindows_emitted` | `ClosedIsEmitted` | the ticker closes a window and drops it |
| `MCMetricWindows_late` | `OncePerWindow` | a late value opens a published window again |
| `MCMetricWindows_retry` | `CountedOnce` | a retry adds its value twice |
| `MCMetricWindows_safe` * | `CountedOnce` | two workers find a window open before either marks it, and both publish it |
| `MCMetricWindows_emitted` * | `ClosedStays` | a value is added after the window was closed |
| `MCMetricWindows_late` * | `CountExact` | the published count is that of the capped buffer |
| `MCMetricWindows_once` * | `SnapshotRestored` | no code loads the snapshot |
| `MCTcpTracker_leak` | `EntriesShortLived` | the entry of an IPv6 connect stays in `connect_info` ("short-lived (microseconds)", `tcp_tracker.bpf.c:33`) |
| `MCTcpTracker_leak` * | `AcceptIsPassive` | an active connect raises `EVENT_TCP_ACCEPT` too ("when a passive socket becomes ESTABLISHED", `:145`) |
| `MCTcpTracker_leak` * | `ReportedEstablished` | `tcp_v4_connect` returns 0 when the SYN is sent: the connection is reported as established |
| `MCTcpTracker_leak` * | `ReportedToOpener` | a state event carries the thread the packet interrupted |
| `MCTcpTracker_leak` * | `NamesOfKernel` | state 7 is CLOSE in the kernel and `CLOSE_WAIT` in `tcp_state_name` ("Values from `include/net/tcp_states.h`", `tcp_tracker.rs:315`) |
| `MCTcpTracker_leak` *, `FastOpen = TRUE` | `ConnectTruthful` | with fast open a connect returns 0 without an entry of its own and takes an old one |
| `MCNetworkObserver_fallback` | `FallsBack` | a program that cannot be loaded ends the observer ("Falls back to `/proc` polling", `ebpf/mod.rs:148`) |
| `MCNetworkObserver_flows` | `FlowReported` | no HTTP event is ever queued: the probe sends no payload to parse |
| `MCDbProbe_own` | `OwnSocket` | the slot is reused between the delete and the read: the event names another thread's socket |
| `MCDbProbe_own` * | `PayloadCaptured` | `payload_len` is set and nothing is copied, `buf_ptr` is always 0 |
| `MCStreamConsumer_commits` | `CloseCommits` | nothing is marked, so `Close` commits nothing ("commits final marked offsets", `consumer.go:222`) |
| `MCStreamConsumer_panic` | `NoSendOnClosed` | the drain timeout expires while the poll loop waits for room: it sends on the closed channel |

## 5. Proofs

`EdgeBufferProofs` proves, for any set of tasks, entry sizes, limits and counter
width, `TypeCorrect` (`Spec => []TypeOK`) and `UsageCorrect`: without
`DeleteBacklog` commands, `UsageExact` always holds.  `UsageExact` is not
inductive, since it says nothing while a write is between push and count.
`UsageInv` says that the counter plus the bytes of the entries pushed and not yet
counted, whether or not they are still in the deque, is congruent to the bytes of
the deque modulo `U64` (the counter really is "negative" for a while); that pushed entries have distinct
ranks (so that no two tasks count the same entry); and that the sets are finite.
Lemmas about the wrapping operators, and about the bytes of a set (its
cardinality), carry the arithmetic.  Assumptions: sizes are positive, `U64` is
positive, as named in `EdgeBuffer`.

`EntriesConserved` proves `Conservation` for the whole specification, deletes and
restarts included.  `ConserveInv` adds that every known entry has a sequence
number below the counter of its life (so that the next write is a new entry), that
no two tasks write the same entry, and that the deque and the table hold an entry
once; with these each action moves a set of entries from one place to another.

`OvershootCorrect` proves `OvershootBounded` without `DeleteBacklog` commands and
under `RoomyCounter`: finitely many tasks, a largest entry, and a counter wide
enough for the buffer and one entry per task, which 2^64 is.  `OvershootInv` counts
an admitted entry as if it were in the deque already: the task that passes the test
saw a counter that was too low by at most what the other tasks have pushed and not
counted, or admitted and not pushed, one entry each.  `Congruent` turns the wrapped
counter into that number, which is why its width matters.

`AgentDeliveryProofs` proves, for any layers, numbers of items and sizes of the
channel, outages and commands, `DeliveryTypeCorrect` (`TypeOK`), `ItemsAccounted`
(`Accounted`), `OneOwnerCorrect` (`OneOwner`) and `DropsCorrect`
(`DropsOnlyAtShutdown`).  `BusyInv` says that a task holds drained entries exactly
while it sends them, so that no drain overwrites a batch; from it and `TypeOK`,
`Accounted` follows step by step.  `OwnerInv` treats the buffer and the four batches
alike: each is free of repetitions, no two share an item, and none has an item that
its layer is still about to hand over (a second enqueue would be a second copy).
`ConnectInv` says that before the shutdown and the first outage whoever is about
to drain, or has drained, is connected: a registration is what starts a flush.

`AgentPairingProofs` proves, for any number of agents, twins, requests and
lookups, `TypeCorrect` and `BlacklistCorrect` (`BlacklistComplete` under every
overlap).  For requests that do not overlap (`OneAtATime`) it proves
`SerialOneTwin`, `SerialTwinExists` and `SerialBlacklist`, and `SerialRefines`:
restricted to the lifecycle operations, `Spec => LifecycleSpec`.  The inductive
invariant `SerialInv` adds `Knows(r)`: at each step of a request, what its
earlier checks found still holds.  That is exactly what overlapping requests
destroy, as `MCAgentPairing_twins` shows.  The refinement maps the assignment rows to
`Home`; commits and single statements map to the abstract operation, checks,
lookups and aborts to stuttering.

`TcpTrackerProofs` proves, for any number of threads and sockets, any size of the
map and the ring, and probes attached and detached at any time, `TypeCorrect`,
`OnlyUnseenLeft` (`LeftoversUnseen`) and, without fast open, `ConnectsCorrect`
(`ConnectTruthful`).  `PairInv` adds what the two probes share without saying so:
an entry is its own thread's, the socket it names is no longer unused (so its
opener does not change), and a thread that has sent its SYN has replaced whatever
an unseen call left over, because an entry in the map means that the first probe
is attached and an update of an existing key always succeeds.  `TruthInv` adds
that a socket is reported at most once, after its call has returned.  With fast
open a call returns 0 without passing the first probe, and the second step of
this argument fails, as section 4 shows.  `ClosesCorrect` proves `ClosedIsNewest`,
again without fast open.  `CloseInv` adds that a socket with records in the ring has
a last one and that a socket whose connect is under way is not closed: the connect
event is emitted when the call returns, and only then could it follow the close.

`NetworkObserverProofs` proves `ObserverRefines` (`ObserverSpec => Spec`): each
step of the loader, the loop and the cancellation is a step of `TcpTracker` or
leaves its variables alone.  `ObserverLeftovers` and `ObserverConnects` carry the
two results over to the composed system.  `ObserverTypeCorrect` proves
`ObserverTypeOK`, and `ClosedIsFinal` the action property `ClosedStaysClosed`,
without fast open.  `OrderInv` follows a close from the ring to the table, the batch
and the cluster: behind any place that says closed there is nothing else about the
socket in the places before it, so no drain or merge can bring back an older state.

`DbProbeProofs` proves `TypeCorrect`, `NoDoubleReport` (`OneEventPerEntry`),
`OnlyMissedLeft` (`LeftoversMissed`) and `EventsCorrect` (`EventsPlausible`) for
any number of threads, slots and kretprobe instances.  The invariant says what is
left of a slot that was given back: it may hold another thread's socket but always
a database socket, since no step clears it; that is why the event stays plausible
although it need not be the thread's own.  `DetectionsAgree` compares the two
implementations of `detect_protocol` for every payload and port.

`StreamConsumerProofs` proves `TypeCorrect`, `DrainCorrect` (`DrainComplete`),
`NothingSkipped` (`CommittedFinished`) and, if `PollPatience`, `NeverPanics`
(`NoSendOnClosed`), for any number of workers, records, retries and crashes.
`Closing` says what each step of `Close` has waited for, and `WorkerOK` that a
worker stops only at the end of a closed and empty channel; one worker is needed,
which `WithWorkerPool` guarantees.  `NothingSkipped` rests on the fact that the
program marks nothing.  `HandOverCorrect` proves `HandedOverOnce` for every
behaviour, drain timeouts and the panic included.  `HandInv` says that the fetch, the
channel and the workers hold no record twice and share none, and that together they
hold exactly the records below the position that are not finished; the equivalence is
needed, because a record that is nowhere must be finished, and a fetch must bring new
ones.

`MetricWindowsProofs` proves, for any number of workers, sizes, timestamps, grace
periods and capacities, `WindowsTypeCorrect` (`TypeOK`), `WindowsOnTime`
(`OnTimeOpen`) and `PublishedCorrect` (`PublishedAfterGrace`).  The invariant says what
a goroutine knows between two lock sections: the clock it read is not ahead, it
holds a window only after the close time, a purge holds one that is closed (so what
its `Delete(key)` removes, whichever buffer that is by now, is past its grace), and a
worker adds to the window its timestamp belongs to.  `PurgeStale` is harmless because
`StaleAge >= Grace`.  `BatchCountsOnce` proves `CountedOnce` for one worker and no
retry.  `CountInv` follows a batch through the buffers and what goes out: it is at
most once per size in either, and a buffer whose batches went out is closed and not
held by the worker.  With two workers, or with a retry, TLC refutes `CountedOnce`
(section 4): `Taken` fails when two goroutines hold an open window, `Fresh` when a
batch starts again.

Every invariant that a run checks is stated by a theorem, some under the
hypothesis named above.  Only model-checked: the liveness properties (fairness and
`ENABLED` are outside what the prover handles) and the formulas of section 4.

## 6. Not modelled

Collectors, the supervisor, wire formats, stores, APIs,
authentication, monitoring, simulation, the Python services, the frontend and
the deployment: input and output, numerical work, or single-step handlers.
`agent/src/ebpf/bpf/vmlinux.h` (158,679 lines) is the kernel's type information
printed by `bpftool`: declarations without behaviour, of which the programs use
five fields of `struct sock_common` and the model the enum of the TCP states.
It is by far the longest C file of the repository, so no map can cover a large
share of the C lines; the five files written for this program are mapped almost
completely.  The PostgreSQL, MySQL and Redis parsers of `db_inspector.rs` and the
HTTP and TLS parsers get no input from the programs as they are.
`proc_fallback.rs` compares two readings of `/proc`.
Inside the modelled parts: compression and protobuf conversion, TLS, back-off
delays, the read-only counters, percentiles, audit tables and the queue of
commands.  The reasons are in `PROJECT.json`.

Hazards known and not in the list of `PROJECT.json`, because a violated property
of section 4 already stands for them or a planned module will: the order of the
deque (`edge_buffer.rs:631`), RETIRE (`mod.rs:1270`), the stream listener that
ends with the first error (`mod.rs:1139`), values added to a closed window and
capped windows (`window.go:301`, `:90`), a lost command response
(`twin/command.go:97`), blacklisting along no transition
(`agent_assignment.go:584`) and the two statements of `RegisterAgent` (`:73`).

## 7. Plan

1. `AgentIdentity` with the command queue and backlog, composed with the
   heartbeat: identities are never mixed, a command is delivered or still queued.
2. `TopN` against a sort; the correlator's event ring; quotas; alert states; the
   ILP writer.
3. Proofs: which of the hypotheses can be weakened (`OvershootBounded` with deletes,
   `ConnectTruthful` with fast open where an entry is not stale), and
   `FifoByAge`-like orders that hold under one writer.
