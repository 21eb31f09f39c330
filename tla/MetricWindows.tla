---------------------------- MODULE MetricWindows ----------------------------
(***************************************************************************)
(* The tumbling windows of the pipeline: cluster/internal/processing/      *)
(* window.go and aggregator.go, driven by the workers of the stream        *)
(* consumer (stream/consumer.go) through processMetricBatch of pipeline.go.*)
(*                                                                         *)
(* One agent and one metric: windows of other metrics are independent.     *)
(* A worker that processes a batch adds its value to the window of each    *)
(* size, closes the windows that are due, purges closed windows, and hands *)
(* the closed ones to the stages that store and publish.  If one of those  *)
(* fails the whole batch is processed again.  A background ticker closes   *)
(* due windows as well.  Each buffer has a lock of its own and the map of  *)
(* windows is a sync.Map, so a worker's steps interleave with all others   *)
(* between two lock sections.                                              *)
(***************************************************************************)
EXTENDS Integers, Sequences

CONSTANTS
    Workers,     \* worker goroutines of the consumer
    Ticker,      \* the background goroutine of the window manager
    Sizes,       \* window sizes
    Stamps,      \* the timestamps that batches carry, early and late ones
    Grace,       \* the grace period for late data
    StaleAge,    \* the age at which windows are purged whatever their state
    Dragonfly,   \* whether there is a Dragonfly client for snapshots
    Capacity,    \* maxWindowBufferCapacity
    MaxRetries,  \* retries of a batch that failed
    MaxBatches,  \* bound on the batches that arrive
    MaxRestarts, \* bound on the crashes of the process
    MaxTime      \* bound on the clock

ASSUME SizesAssumption == Sizes \subseteq Nat \ {0} /\ Stamps \subseteq Nat
ASSUME TimesAssumption == Grace \in Nat /\ StaleAge \in Nat /\ MaxTime \in Nat
\* 24 hours against a grace period of 30 seconds.
ASSUME StaleAssumption == StaleAge >= Grace
ASSUME BoundsAssumption ==
    /\ Capacity \in Nat \ {0} /\ MaxRetries \in Nat /\ MaxBatches \in Nat
    /\ MaxRestarts \in Nat /\ Dragonfly \in BOOLEAN
ASSUME TickerAssumption == Ticker \notin Workers

Scanners == Workers \cup {Ticker}

VARIABLES
    now,       \* the clock, timeFunc
    bufs,      \* every WindowBuffer since the process started
    live,      \* the buffers that are in the sync.Map
    work,      \* what each worker does
    scan,      \* GetClosedWindows in progress, per goroutine
    published, \* the aggregates that were published
    batches,   \* number of batches so far
    snapshot,  \* the window snapshot in Dragonfly
    restarts   \* number of crashes so far

vars == <<now, bufs, live, work, scan, published, batches, snapshot, restarts>>

-----------------------------------------------------------------------------
\* Mutant: rounded up.
AlignUp(ts, size) == (ts \div size) * size + size

\* alignToWindow.
Align(ts, size) == (ts \div size) * size

\* windowEnd.
WindowEnd(b) == bufs[b].start + bufs[b].size

CloseAt(b) == WindowEnd(b) + Grace

\* newWindowBuffer.
NewBuffer(size, start) ==
    [size |-> size, start |-> start, values |-> <<>>, count |-> 0, closed |-> FALSE]

\* The buffer of a window in the map, if it has one.
Loaded(size, start) ==
    {b \in live : bufs[b].size = size /\ bufs[b].start = start}

NoScan == [on |-> FALSE, at |-> 0, todo |-> {}, seen |-> 0, marked |-> FALSE,
           found |-> {}]
NoWork == [step |-> "idle", batch |-> 0, ts |-> 0, sizes |-> {}, buf |-> 0,
           attempt |-> 0]

Init ==
    /\ now = 0 /\ bufs = <<>> /\ live = {}
    /\ work = [w \in Workers |-> NoWork]
    /\ scan = [s \in Scanners |-> NoScan]
    /\ published = {} /\ batches = 0 /\ snapshot = {} /\ restarts = 0

-----------------------------------------------------------------------------
(* A worker adds the value of a batch to the windows: Process, AddValue.   *)

Begin(w, ts) ==
    /\ work[w].step = "idle" /\ batches < MaxBatches
    /\ batches' = batches + 1
    /\ work' = [work EXCEPT ![w] = [NoWork EXCEPT !.step = "pick", !.ts = ts,
                                                  !.batch = batches + 1,
                                                  !.sizes = Sizes]]
    /\ UNCHANGED <<now, bufs, live, scan, published, snapshot, restarts>>

\* getOrCreateBuffer and isClosed: a window that is closed and still in the
\* map turns the value away.
Pick(w) ==
    /\ work[w].step = "pick"
    /\ \E size \in work[w].sizes :
        LET start == Align(work[w].ts, size)
            here == Loaded(size, start)
            b == IF here = {} THEN Len(bufs) + 1 ELSE CHOOSE x \in here : TRUE IN
        /\ IF here = {} THEN bufs' = Append(bufs, NewBuffer(size, start))
           ELSE bufs' = bufs
        /\ live' = live \cup {b}
        /\ work' = [work EXCEPT ![w].sizes = @ \ {size},
                                ![w].buf = IF bufs'[b].closed THEN 0 ELSE b,
                                ![w].step = IF bufs'[b].closed THEN "pick" ELSE "add"]
    /\ UNCHANGED <<now, scan, published, batches, snapshot, restarts>>

\* WindowBuffer.AddValue: it does not look at Closed again.
Add(w) ==
    LET b == work[w].buf  v == [batch |-> work[w].batch, ts |-> work[w].ts] IN
    /\ work[w].step = "add"
    /\ bufs' = [bufs EXCEPT
                  ![b].values = Append(IF Len(@) >= Capacity THEN Tail(@) ELSE @, v),
                  ![b].count = @ + 1]
    /\ work' = [work EXCEPT ![w].step = "pick", ![w].buf = 0]
    /\ UNCHANGED <<now, live, scan, published, batches, snapshot, restarts>>

-----------------------------------------------------------------------------
(* GetClosedWindows, of a worker or of the ticker.                         *)

\* The clock is read once.  Range then visits the buffers the map holds now;
\* one that is stored meanwhile is left to the next call.
ScanStart(s) ==
    /\ ~scan[s].on
    /\ scan' = [scan EXCEPT ![s] = [NoScan EXCEPT !.on = TRUE, !.at = now,
                                                  !.todo = live]]
    /\ UNCHANGED <<now, bufs, live, published, batches, snapshot, restarts>>

\* Mutant: the grace period is forgotten.
DueNoGrace(s, b) == scan[s].at >= WindowEnd(b)

\* The close time has passed.
Due(s, b) == scan[s].at >= CloseAt(b)

\* isClosed, and the time.
ScanLook(s) ==
    /\ scan[s].on /\ scan[s].seen = 0
    /\ \E b \in scan[s].todo :
        scan' = IF bufs[b].closed \/ ~Due(s, b)
                  THEN [scan EXCEPT ![s].todo = @ \ {b}]
                  ELSE [scan EXCEPT ![s].seen = b]
    /\ UNCHANGED <<now, bufs, live, work, published, batches, snapshot, restarts>>

\* markClosed.
Marked(b) == [bufs EXCEPT ![b].closed = TRUE]

ScanMark(s) ==
    /\ scan[s].on /\ scan[s].seen # 0 /\ ~scan[s].marked
    /\ bufs' = Marked(scan[s].seen)
    /\ scan' = [scan EXCEPT ![s].marked = TRUE]
    /\ UNCHANGED <<now, live, work, published, batches, snapshot, restarts>>

\* Snapshot of a buffer, in a lock section of its own.
Copy(b) == [size |-> bufs[b].size, start |-> bufs[b].start,
            values |-> bufs[b].values, count |-> bufs[b].count]

ScanCopy(s) ==
    LET b == scan[s].seen IN
    /\ scan[s].marked
    /\ scan' = [scan EXCEPT ![s].found = @ \cup {Copy(b)}, ![s].todo = @ \ {b},
                            ![s].seen = 0, ![s].marked = FALSE]
    /\ UNCHANGED <<now, bufs, live, work, published, batches, snapshot, restarts>>

Scanned(s) == scan[s].on /\ scan[s].todo = {} /\ scan[s].seen = 0

\* All sizes are done, so the worker looks for closed windows.
WorkerScans(w) ==
    /\ work[w].step = "pick" /\ work[w].sizes = {}
    /\ work' = [work EXCEPT ![w].step = "scan"]
    /\ ScanStart(w)

\* checkClosedWindows, every second; what it finds is counted and dropped.
TickerScans == ScanStart(Ticker) /\ UNCHANGED work

\* Mutant: the goroutine does not look again.
TickerDoneReturns ==
    /\ Scanned(Ticker)
    /\ scan' = [scan EXCEPT ![Ticker].found = {}]
    /\ UNCHANGED <<now, bufs, live, work, published, batches, snapshot, restarts>>

TickerDone ==
    /\ Scanned(Ticker)
    /\ scan' = [scan EXCEPT ![Ticker] = NoScan]
    /\ UNCHANGED <<now, bufs, live, work, published, batches, snapshot, restarts>>

-----------------------------------------------------------------------------
(* PurgeClosed, PurgeStale.                                                *)

PurgeStart(w) ==
    /\ work[w].step = "scan" /\ Scanned(w)
    /\ scan' = [scan EXCEPT ![w].on = FALSE, ![w].at = 0, ![w].todo = live]
    /\ work' = [work EXCEPT ![w].step = "purge"]
    /\ UNCHANGED <<now, bufs, live, published, batches, snapshot, restarts>>

\* Range visits a buffer: is it closed?
PurgeLook(w) ==
    /\ work[w].step = "purge" /\ scan[w].seen = 0
    /\ \E b \in scan[w].todo :
        scan' = IF bufs[b].closed THEN [scan EXCEPT ![w].seen = b]
                ELSE [scan EXCEPT ![w].todo = @ \ {b}]
    /\ UNCHANGED <<now, bufs, live, work, published, batches, snapshot, restarts>>

\* Delete(key) removes the buffer that the key has by now.
PurgeDelete(w) ==
    LET b == scan[w].seen IN
    /\ work[w].step = "purge" /\ b # 0
    /\ live' = live \ Loaded(bufs[b].size, bufs[b].start)
    /\ scan' = [scan EXCEPT ![w].todo = @ \ {b}, ![w].seen = 0]
    /\ UNCHANGED <<now, bufs, work, published, batches, snapshot, restarts>>

PurgeDone(w) ==
    /\ work[w].step = "purge" /\ scan[w].todo = {}
    /\ work' = [work EXCEPT ![w].step = "rest"]
    /\ UNCHANGED <<now, bufs, live, scan, published, batches, snapshot, restarts>>

\* The window ended more than maxAge ago.
Stale(b) == WindowEnd(b) + StaleAge < now

\* PurgeStale, open windows and closed ones.
PurgeStale ==
    /\ ~scan[Ticker].on
    /\ \E b \in live : Stale(b)
    /\ live' = {b \in live : ~Stale(b)}
    /\ UNCHANGED <<now, bufs, work, scan, published, batches, snapshot, restarts>>

-----------------------------------------------------------------------------
(* The rest of processMetricBatch: correlate, enrich, store, publish.      *)

\* aggregateWindow yields nothing for a window without values.
Aggregates(w) ==
    {[size |-> f.size, start |-> f.start, values |-> f.values, count |-> f.count,
      by |-> work[w].batch] : f \in {x \in scan[w].found : x.values # <<>>}}

Succeed(w) ==
    /\ work[w].step = "rest"
    /\ published' = published \cup Aggregates(w)
    /\ work' = [work EXCEPT ![w] = NoWork]
    /\ scan' = [scan EXCEPT ![w] = NoScan]
    /\ UNCHANGED <<now, bufs, live, batches, snapshot, restarts>>

\* Mutant: one attempt too many.
MayRetryMore(w) == work[w].attempt <= MaxRetries

MayRetry(w) == work[w].attempt < MaxRetries

\* A stage fails, perhaps after some aggregates were published.  processRecord
\* starts again with the batch, or gives it up.
Fail(w) ==
    /\ work[w].step = "rest"
    /\ \E some \in SUBSET Aggregates(w) : published' = published \cup some
    /\ work' = [work EXCEPT
                  ![w] = IF MayRetry(w)
                           THEN [work[w] EXCEPT !.step = "pick", !.sizes = Sizes,
                                                !.attempt = work[w].attempt + 1]
                           ELSE NoWork]
    /\ scan' = [scan EXCEPT ![w] = NoScan]
    /\ UNCHANGED <<now, bufs, live, batches, snapshot, restarts>>

-----------------------------------------------------------------------------
(* Snapshots, crashes, time.                                               *)

\* collectOpenStates.
OpenStates == {Copy(b) : b \in {x \in live : ~bufs[x].closed}}

\* Snapshot, by the manager's goroutine or the pipeline's.  Without an open
\* window the earlier snapshot stays.
Snapshot ==
    /\ Dragonfly /\ OpenStates # {}
    /\ snapshot' = OpenStates
    /\ UNCHANGED <<now, bufs, live, work, scan, published, batches, restarts>>

\* The process dies and Pipeline.Start runs again.  It restores the graph of
\* the correlator, not the windows: nobody calls Aggregator.Restore.
Restart ==
    /\ restarts < MaxRestarts /\ restarts' = restarts + 1
    /\ bufs' = <<>> /\ live' = {}
    /\ work' = [w \in Workers |-> NoWork]
    /\ scan' = [s \in Scanners |-> NoScan]
    /\ UNCHANGED <<now, published, batches, snapshot>>

Tick ==
    /\ now < MaxTime /\ now' = now + 1
    /\ UNCHANGED <<bufs, live, work, scan, published, batches, snapshot, restarts>>

-----------------------------------------------------------------------------
Work(w) ==
    \/ \E ts \in Stamps : Begin(w, ts)
    \/ Pick(w) \/ Add(w) \/ WorkerScans(w)
    \/ PurgeStart(w) \/ PurgeLook(w) \/ PurgeDelete(w) \/ PurgeDone(w)
    \/ Succeed(w) \/ Fail(w)

Next ==
    \/ \E w \in Workers : Work(w)
    \/ \E s \in Scanners : ScanLook(s) \/ ScanMark(s) \/ ScanCopy(s)
    \/ TickerScans \/ TickerDone
    \/ PurgeStale \/ Snapshot \/ Restart \/ Tick

Spec == Init /\ [][Next]_vars

\* time.Ticker fires again and again, and a goroutine that can run does.
Fairness ==
    /\ WF_vars(Tick)
    /\ WF_vars(TickerScans) /\ WF_vars(TickerDone)
    /\ WF_vars(ScanLook(Ticker)) /\ WF_vars(ScanMark(Ticker)) /\ WF_vars(ScanCopy(Ticker))

FairSpec == Spec /\ Fairness

-----------------------------------------------------------------------------
(* Properties.                                                             *)

Value == [batch : 1..MaxBatches, ts : Stamps]
Buffer == [size : Sizes, start : Nat, values : Seq(Value), count : Nat, closed : BOOLEAN]
Aggregate == [size : Sizes, start : Nat, values : Seq(Value), count : Nat]
Scan == [on : BOOLEAN, at : Nat, todo : SUBSET (1..Len(bufs)), seen : 0..Len(bufs),
         marked : BOOLEAN, found : SUBSET Aggregate]
WorkState ==
    [step : {"idle", "pick", "add", "scan", "purge", "rest"}, batch : 0..MaxBatches,
     ts : Stamps \cup {0}, sizes : SUBSET Sizes, buf : 0..Len(bufs), attempt : 0..MaxRetries]

TypeOK ==
    /\ now \in 0..MaxTime /\ batches \in 0..MaxBatches /\ restarts \in 0..MaxRestarts
    /\ bufs \in Seq(Buffer) /\ live \subseteq 1..Len(bufs)
    /\ work \in [Workers -> WorkState]
    /\ scan \in [Scanners -> Scan]
    /\ published \subseteq
         [size : Sizes, start : Nat, values : Seq(Value), count : Nat, by : 1..MaxBatches]
    /\ snapshot \subseteq Aggregate

\* Whatever the workers, the ticker and the purges do, a window is open and in
\* the map until its grace period is over: no value that is on time is lost
\* before its window closes.
OnTimeOpen ==
    \A b \in 1..Len(bufs) : now < CloseAt(b) => b \in live /\ ~bufs[b].closed

\* An aggregate is published after the grace period of its window, and made
\* of values of that window only.
PublishedAfterGrace ==
    \A p \in published :
        /\ now >= p.start + p.size + Grace
        /\ \A i \in 1..Len(p.values) : p.values[i].ts \in p.start..(p.start + p.size - 1)

\* Where the value of a batch is, in the published aggregates of a size.
Occurrences(batch, size) ==
    {o \in published \X (1..Capacity) :
        /\ o[1].size = size
        /\ o[2] <= Len(o[1].values) /\ o[1].values[o[2]].batch = batch}

\* "At-least-once delivery | Yes (idempotent stage logic)": what a batch
\* contributes to the windows of a size is published at most once.
CountedOnce ==
    \A batch \in 1..MaxBatches, size \in Sizes :
        \A o1, o2 \in Occurrences(batch, size) : o1 = o2

\* "grace period expires -> CLOSED -> aggregate & emit": a closed window that
\* has values has been published or is in the hands of the worker that will.
ClosedIsEmitted ==
    \A b \in 1..Len(bufs) :
        bufs[b].closed /\ bufs[b].values # <<>>
          => \/ \E w \in Workers : scan[w].seen = b
             \/ \E p \in published : p.size = bufs[b].size /\ p.start = bufs[b].start
             \/ \E w \in Workers : \E f \in scan[w].found :
                    f.size = bufs[b].size /\ f.start = bufs[b].start

\* "Late data at 12:01:35 -> DISCARDED (Window 1 already closed)": a window
\* is published once, late data does not open it again.
OncePerWindow ==
    \A p, q \in published : p.size = q.size /\ p.start = q.start => p = q

\* "markClosed sets the window as closed. No further values should be added."
ClosedStays ==
    [][restarts' = restarts =>
         \A b \in 1..Len(bufs) : bufs[b].closed => bufs'[b].values = bufs[b].values]_vars

\* A published count is the number of values the window has received.
CountExact == \A p \in published : Len(p.values) = p.count

\* "State can be snapshotted to Dragonfly for crash recovery": a window of the
\* snapshot that is not stale is there after a restart.
SnapshotRestored ==
    [][restarts' # restarts =>
         \A f \in snapshot :
            now <= f.start + f.size + 2 * f.size =>
              \E b \in live' : bufs'[b].size = f.size /\ bufs'[b].start = f.start]_vars

Open(b) == b \in live /\ ~bufs[b].closed

\* Every window is closed or leaves the map once its grace period is over,
\* even if no batch of its agent arrives any more.
WindowsClose ==
    \A b \in 1..(MaxBatches * (MaxRetries + 1)) :
        (Open(b) /\ CloseAt(b) <= MaxTime) ~> ~Open(b)
=============================================================================
