------------------------- MODULE MetricWindowsProofs -------------------------
(***************************************************************************)
(* Theorems about MetricWindows, for every number of workers, every set of *)
(* sizes and timestamps, every grace period, capacity and bound.           *)
(***************************************************************************)
EXTENDS MetricWindows, TLAPS

-----------------------------------------------------------------------------
(* The inductive invariant.                                                *)

\* The values of x belong to its window.
InWindow(x) ==
    \A i \in 1..Len(x.values) : x.values[i].ts \in x.start..(x.start + x.size - 1)

\* What a goroutine knows while it scans (c is its scan): its clock is not
\* ahead, it holds a window only after its grace period and marks only what it
\* holds; while it purges it holds a closed window; what it found is over.
ScanOK(c) ==
    /\ c.at <= now
    /\ c.on /\ c.seen # 0 => c.at >= CloseAt(c.seen)
    /\ ~c.on /\ c.seen # 0 => bufs[c.seen].closed
    /\ c.marked => c.on /\ c.seen # 0
    /\ \A f \in c.found : now >= f.start + f.size + Grace /\ InWindow(f)

\* What a worker knows (c is its work, on whether it scans): a batch has its
\* number and timestamp, its value goes to the window of that timestamp, and
\* the worker does not purge while it scans.
WorkOK(c, on) ==
    /\ c.step # "idle" => c.batch \in 1..MaxBatches /\ c.ts \in Stamps
    /\ c.step = "add" => c.buf # 0 /\ bufs[c.buf].start = Align(c.ts, bufs[c.buf].size)
    /\ c.step = "purge" => ~on

Inv ==
    /\ TypeOK
    /\ \A s \in Scanners : ScanOK(scan[s])
    /\ \A w \in Workers : WorkOK(work[w], scan[w].on)
    /\ \A b \in 1..Len(bufs) : InWindow(bufs[b])
    /\ OnTimeOpen
    /\ PublishedAfterGrace

LEMMA AlignBounds ==
    ASSUME NEW ts \in Nat, NEW size \in Nat \ {0}
    PROVE  Align(ts, size) \in Nat /\ ts \in Align(ts, size) .. (Align(ts, size) + size - 1)
BY DEF Align

-----------------------------------------------------------------------------
(* What the types say of the parts of the state.                           *)

LEMMA BufferFields ==
    ASSUME NEW x \in Buffer
    PROVE  /\ x.size \in Sizes /\ x.size \in Nat \ {0} /\ x.start \in Nat
           /\ x.values \in Seq(Value) /\ x.count \in Nat /\ x.closed \in BOOLEAN
BY SizesAssumption DEF Buffer

LEMMA ScanFields ==
    ASSUME NEW c \in Scan
    PROVE  /\ c.on \in BOOLEAN /\ c.at \in Nat /\ c.todo \subseteq 1..Len(bufs)
           /\ c.seen \in 0..Len(bufs) /\ c.marked \in BOOLEAN /\ c.found \subseteq Aggregate
BY DEF Scan

LEMMA WorkFields ==
    ASSUME NEW c \in WorkState
    PROVE  /\ c.step \in {"idle", "pick", "add", "scan", "purge", "rest"}
           /\ c.batch \in 0..MaxBatches /\ c.ts \in Stamps \cup {0}
           /\ c.sizes \subseteq Sizes /\ c.buf \in 0..Len(bufs) /\ c.attempt \in 0..MaxRetries
BY DEF WorkState

LEMMA AggregateFields ==
    ASSUME NEW f \in Aggregate
    PROVE  f.size \in Sizes /\ f.size \in Nat \ {0} /\ f.start \in Nat /\ f.values \in Seq(Value)
BY SizesAssumption DEF Aggregate

LEMMA Shapes ==
    ASSUME TypeOK
    PROVE  /\ now \in Nat /\ Len(bufs) \in Nat /\ Grace \in Nat
           /\ live \subseteq 1..Len(bufs)
           /\ \A b \in 1..Len(bufs) : bufs[b] \in Buffer /\ CloseAt(b) \in Nat
           /\ \A s \in Scanners : scan[s] \in Scan
           /\ \A w \in Workers : work[w] \in WorkState /\ scan[w] \in Scan /\ w \in Scanners
<1>1. now \in Nat /\ Len(bufs) \in Nat /\ Grace \in Nat /\ live \subseteq 1..Len(bufs)
  BY TimesAssumption DEF TypeOK
<1>2. ASSUME NEW b \in 1..Len(bufs) PROVE bufs[b] \in Buffer /\ CloseAt(b) \in Nat
  <2>1. bufs[b] \in Buffer
    BY DEF TypeOK
  <2> QED BY <1>1, <2>1, BufferFields DEF CloseAt, WindowEnd
<1> QED BY <1>1, <1>2 DEF TypeOK, Scanners

LEMMA RestTypes ==
    /\ NoScan \in Scan /\ (now \in Nat => ScanOK(NoScan))
    /\ NoWork \in WorkState /\ \A on : WorkOK(NoWork, on)
<1>1. NoScan \in Scan /\ (now \in Nat => ScanOK(NoScan))
  BY DEF NoScan, Scan, ScanOK
<1>2. NoWork \in WorkState /\ \A on : WorkOK(NoWork, on)
  BY BoundsAssumption DEF NoWork, WorkState, WorkOK
<1> QED BY <1>1, <1>2

-----------------------------------------------------------------------------
(* What a step of others leaves as it is.                                  *)

\* The clock does not go back, and buffers keep their window and stay closed.
Grows ==
    /\ now' \in Nat /\ now' >= now
    /\ bufs' \in Seq(Buffer) /\ Len(bufs') >= Len(bufs)
    /\ \A b \in 1..Len(bufs) :
         /\ bufs'[b].size = bufs[b].size /\ bufs'[b].start = bufs[b].start
         /\ bufs[b].closed => bufs'[b].closed

LEMMA ScanFrame ==
    ASSUME TypeOK, Grows, NEW c \in Scan
    PROVE  c \in Scan' /\ (ScanOK(c) => ScanOK(c)')
<1>1. /\ Len(bufs) \in Nat /\ Len(bufs') \in Nat /\ Len(bufs') >= Len(bufs)
      /\ now \in Nat /\ now' \in Nat /\ now' >= now /\ Grace \in Nat
  BY Shapes DEF Grows
<1>2. c \in Scan'
  BY <1>1 DEF Scan
<1>3. ASSUME ScanOK(c) PROVE ScanOK(c)'
  <2>1. /\ c.at \in Nat /\ c.seen \in 0..Len(bufs) /\ c.found \subseteq Aggregate
    BY ScanFields
  <2>2. c.seen # 0 => CloseAt(c.seen)' = CloseAt(c.seen)
    BY <1>1, <2>1 DEF Grows, CloseAt, WindowEnd
  <2>3. ASSUME NEW f \in c.found PROVE now' >= f.start + f.size + Grace
    BY <1>1, <1>3, <2>1, AggregateFields DEF ScanOK
  <2>4. c.seen # 0 /\ bufs[c.seen].closed => bufs'[c.seen].closed
    BY <1>1, <2>1 DEF Grows
  <2>5. c.at <= now'
    BY <1>1, <1>3, <2>1 DEF ScanOK
  <2> QED BY <1>3, <2>2, <2>3, <2>4, <2>5 DEF ScanOK, InWindow
<1> QED BY <1>2, <1>3

LEMMA WorkFrame ==
    ASSUME TypeOK, Grows, NEW c \in WorkState, NEW on
    PROVE  c \in WorkState' /\ (WorkOK(c, on) => WorkOK(c, on)')
<1>1. Len(bufs) \in Nat /\ Len(bufs') \in Nat /\ Len(bufs') >= Len(bufs)
  BY Shapes DEF Grows
<1>2. c \in WorkState'
  BY <1>1 DEF WorkState
<1>3. c.buf \in 0..Len(bufs)
  BY WorkFields
<1> QED BY <1>1, <1>2, <1>3 DEF WorkOK, Grows

\* A step of one goroutine, seen by its own and by all other scans.
LEMMA OneScan ==
    ASSUME Inv, Grows, NEW s \in Scanners, NEW c \in Scan, scan' = [scan EXCEPT ![s] = c],
           ScanOK(c)'
    PROVE  /\ scan' \in [Scanners -> Scan'] /\ \A t \in Scanners : ScanOK(scan[t])'
           /\ scan'[s] = c /\ \A t \in Scanners \ {s} : scan'[t] = scan[t]
<1>1. TypeOK /\ scan \in [Scanners -> Scan] /\ \A t \in Scanners : ScanOK(scan[t])
  BY DEF Inv, TypeOK
<1>2. scan'[s] = c /\ \A t \in Scanners \ {s} : scan'[t] = scan[t]
  BY <1>1
<1>3. ASSUME NEW t \in Scanners PROVE scan'[t] \in Scan' /\ ScanOK(scan[t])'
  <2>1. PICK d : d = scan'[t]
    OBVIOUS
  <2>2. d \in Scan /\ (t = s => d = c) /\ (t # s => d = scan[t])
    BY <1>1, <1>2, <2>1
  <2>3. d \in Scan' /\ (ScanOK(d) => ScanOK(d)')
    BY <1>1, <2>2, ScanFrame
  <2>4. ScanOK(d)'
    BY <1>1, <2>2, <2>3
  <2> QED BY <2>1, <2>3, <2>4
<1>4. scan' \in [Scanners -> Scan']
  BY <1>1, <1>3
<1> QED BY <1>2, <1>3, <1>4

LEMMA AllScans ==
    ASSUME Inv, Grows, scan' = scan
    PROVE  scan' \in [Scanners -> Scan'] /\ \A t \in Scanners : ScanOK(scan[t])'
<1>1. TypeOK /\ scan \in [Scanners -> Scan] /\ \A t \in Scanners : ScanOK(scan[t])
  BY DEF Inv, TypeOK
<1>2. ASSUME NEW t \in Scanners PROVE scan'[t] \in Scan' /\ ScanOK(scan[t])'
  <2>1. PICK d : d = scan[t]
    OBVIOUS
  <2>2. d \in Scan' /\ ScanOK(d)'
    BY <1>1, <2>1, ScanFrame
  <2> QED BY <2>1, <2>2
<1> QED BY <1>1, <1>2

\* The same for the workers.
LEMMA OneWork ==
    ASSUME Inv, Grows, NEW w \in Workers, NEW c \in WorkState', NEW on,
           work' = [work EXCEPT ![w] = c], scan'[w].on = on, WorkOK(c, on)',
           \A v \in Workers \ {w} : scan'[v].on = scan[v].on
    PROVE  work' \in [Workers -> WorkState'] /\ \A v \in Workers : WorkOK(work[v], scan[v].on)'
<1>1. /\ TypeOK /\ work \in [Workers -> WorkState]
      /\ \A v \in Workers : WorkOK(work[v], scan[v].on)
  BY DEF Inv, TypeOK
<1>2. work'[w] = c /\ \A v \in Workers \ {w} : work'[v] = work[v]
  BY <1>1
<1>3. ASSUME NEW v \in Workers PROVE work'[v] \in WorkState' /\ WorkOK(work[v], scan[v].on)'
  <2>1. PICK d, o : d = work'[v] /\ o = scan'[v].on
    OBVIOUS
  <2>2. CASE v = w
    BY <1>2, <2>1, <2>2
  <2>3. CASE v # w
    <3>1. d \in WorkState /\ WorkOK(d, o)
      BY <1>1, <1>2, <2>1, <2>3
    <3>2. d \in WorkState' /\ WorkOK(d, o)'
      BY <1>1, <3>1, WorkFrame
    <3> QED BY <2>1, <3>2
  <2> QED BY <2>2, <2>3
<1> QED BY <1>1, <1>3

LEMMA AllWork ==
    ASSUME Inv, Grows, work' = work, \A v \in Workers : scan'[v].on = scan[v].on
    PROVE  work' \in [Workers -> WorkState'] /\ \A v \in Workers : WorkOK(work[v], scan[v].on)'
<1>1. /\ TypeOK /\ work \in [Workers -> WorkState]
      /\ \A v \in Workers : WorkOK(work[v], scan[v].on)
  BY DEF Inv, TypeOK
<1>2. ASSUME NEW v \in Workers PROVE work'[v] \in WorkState' /\ WorkOK(work[v], scan[v].on)'
  <2>1. PICK d, o : d = work[v] /\ o = scan[v].on
    OBVIOUS
  <2>2. d \in WorkState' /\ WorkOK(d, o)'
    BY <1>1, <2>1, WorkFrame
  <2> QED BY <2>1, <2>2
<1> QED BY <1>1, <1>2

\* A step that changes nothing but scans, work and the number of batches.
LEMMA Keeps ==
    ASSUME Inv, UNCHANGED <<now, bufs, live, published, snapshot, restarts>>,
           batches' \in 0..MaxBatches,
           scan' \in [Scanners -> Scan'], \A t \in Scanners : ScanOK(scan[t])',
           work' \in [Workers -> WorkState'], \A v \in Workers : WorkOK(work[v], scan[v].on)'
    PROVE  Inv'
<1>1. TypeOK'
  BY DEF Inv, TypeOK
<1>2. OnTimeOpen' /\ PublishedAfterGrace' /\ (\A b \in 1..Len(bufs) : InWindow(bufs[b]))'
  BY DEF Inv, OnTimeOpen, PublishedAfterGrace, CloseAt, WindowEnd, InWindow
<1> QED BY <1>1, <1>2 DEF Inv

LEMMA StillGrows ==
    ASSUME TypeOK, UNCHANGED <<now, bufs>>
    PROVE  Grows /\ \A c : (c \in Scan' <=> c \in Scan) /\ (ScanOK(c)' <=> ScanOK(c))
<1>1. Grows
  BY Shapes DEF Grows, TypeOK
<1> QED BY <1>1 DEF Scan, ScanOK, CloseAt, WindowEnd, InWindow

LEMMA BeginInv ==
    ASSUME Inv, NEW w \in Workers, NEW ts \in Stamps, Begin(w, ts)
    PROVE  Inv'
<1> DEFINE c == [NoWork EXCEPT !.step = "pick", !.ts = ts, !.batch = batches + 1, !.sizes = Sizes]
<1>1. TypeOK /\ UNCHANGED <<now, bufs, scan>> /\ work' = [work EXCEPT ![w] = c]
  BY DEF Begin, Inv
<1>2. Grows
  BY <1>1, StillGrows
<1>3. batches \in 0..MaxBatches /\ batches + 1 \in 1..MaxBatches /\ batches' = batches + 1
  BY BoundsAssumption DEF Begin, Inv, TypeOK
<1>4. PICK d : d = c
  OBVIOUS
<1>5. d = [step |-> "pick", batch |-> batches + 1, ts |-> ts, sizes |-> Sizes, buf |-> 0, attempt |-> 0]
  BY <1>4 DEF NoWork
<1>6. PICK on : on = scan'[w].on
  OBVIOUS
<1>7. d \in WorkState' /\ WorkOK(d, on)'
  <2>1. 0 \in 0..Len(bufs') /\ 0 \in 0..MaxRetries /\ batches + 1 \in 0..MaxBatches
    BY <1>1, <1>3, Shapes, BoundsAssumption
  <2>2. d \in WorkState'
    BY <1>5, <2>1 DEF WorkState
  <2> QED BY <1>3, <1>5, <2>2 DEF WorkOK
<1>8. work' \in [Workers -> WorkState'] /\ \A v \in Workers : WorkOK(work[v], scan[v].on)'
  BY <1>1, <1>2, <1>4, <1>6, <1>7, OneWork
<1> QED BY <1>1, <1>2, <1>3, <1>8, AllScans, Keeps DEF Begin

\* A worker goes to another step, its value and its window as they are.
LEMMA StepOnly ==
    ASSUME Inv, Grows, NEW w \in Workers, NEW at \in {"scan", "purge", "rest"},
           work[w].step # "idle", work' = [work EXCEPT ![w].step = at],
           at = "purge" => ~scan'[w].on, \A v \in Workers \ {w} : scan'[v].on = scan[v].on
    PROVE  work' \in [Workers -> WorkState'] /\ \A v \in Workers : WorkOK(work[v], scan[v].on)'
<1>1. PICK d, on : d = [work[w] EXCEPT !.step = at] /\ on = scan'[w].on
  OBVIOUS
<1>2. TypeOK /\ work[w] \in WorkState /\ WorkOK(work[w], scan[w].on)
  BY Shapes DEF Inv
<1>3. work' = [work EXCEPT ![w] = d]
  BY <1>1
<1>4. d \in WorkState /\ d.step = at /\ d.batch = work[w].batch /\ d.ts = work[w].ts
  BY <1>1, <1>2 DEF WorkState
<1>5. d \in WorkState'
  BY <1>2, <1>4, WorkFrame
<1>6. WorkOK(d, on)'
  BY <1>1, <1>2, <1>4 DEF WorkOK
<1> QED BY <1>1, <1>3, <1>5, <1>6, OneWork

\* GetClosedWindows starts.
LEMMA ScanStartInv ==
    ASSUME Inv, NEW s \in Scanners, ScanStart(s),
           \/ work' = work /\ s \notin Workers
           \/ s \in Workers /\ work' = [work EXCEPT ![s].step = "scan"] /\ work[s].step # "idle"
    PROVE  Inv'
<1>1. PICK c : c = [NoScan EXCEPT !.on = TRUE, !.at = now, !.todo = live]
  OBVIOUS
<1>2. TypeOK /\ UNCHANGED <<now, bufs>> /\ scan' = [scan EXCEPT ![s] = c]
  BY <1>1 DEF ScanStart, Inv
<1>3. Grows /\ (ScanOK(c)' <=> ScanOK(c))
  BY <1>2, StillGrows
<1>4. c = [on |-> TRUE, at |-> now, todo |-> live, seen |-> 0, marked |-> FALSE, found |-> {}]
  BY <1>1 DEF NoScan
<1>5. c \in Scan /\ ScanOK(c)
  BY <1>2, <1>4, Shapes DEF Scan, ScanOK
<1>6. /\ scan' \in [Scanners -> Scan'] /\ \A t \in Scanners : ScanOK(scan[t])'
      /\ \A t \in Scanners \ {s} : scan'[t] = scan[t]
  BY <1>2, <1>3, <1>5, OneScan
<1>7. \A v \in Workers : v \in Scanners
  BY DEF Scanners
<1>8. work' \in [Workers -> WorkState'] /\ \A v \in Workers : WorkOK(work[v], scan[v].on)'
  <2>1. CASE work' = work /\ s \notin Workers
    BY <1>3, <1>6, <1>7, <2>1, AllWork
  <2>2. CASE s \in Workers /\ work' = [work EXCEPT ![s].step = "scan"] /\ work[s].step # "idle"
    BY <1>3, <1>6, <1>7, <2>2, StepOnly
  <2> QED BY <2>1, <2>2
<1>9. batches' \in 0..MaxBatches
  BY DEF ScanStart, Inv, TypeOK
<1> QED BY <1>6, <1>8, <1>9, Keeps DEF ScanStart

\* A step of one scan alone that does not start or end it.
LEMMA ScanOnlyInv ==
    ASSUME Inv, NEW s \in Scanners, NEW c \in Scan, scan' = [scan EXCEPT ![s] = c], ScanOK(c),
           c.on = scan[s].on \/ s \notin Workers,
           UNCHANGED <<now, bufs, live, work, published, batches, snapshot, restarts>>
    PROVE  Inv'
<1>1. TypeOK /\ Grows /\ ScanOK(c)'
  BY StillGrows DEF Inv
<1>2. /\ scan' \in [Scanners -> Scan'] /\ \A t \in Scanners : ScanOK(scan[t])'
      /\ scan'[s] = c /\ \A t \in Scanners \ {s} : scan'[t] = scan[t]
  BY <1>1, OneScan
<1>3. \A v \in Workers : scan'[v].on = scan[v].on
  BY <1>2 DEF Scanners
<1>4. batches' \in 0..MaxBatches
  BY DEF Inv, TypeOK
<1> QED BY <1>1, <1>2, <1>3, <1>4, AllWork, Keeps

LEMMA ScanLookInv ==
    ASSUME Inv, NEW s \in Scanners, ScanLook(s)
    PROVE  Inv'
<1>1. /\ TypeOK /\ scan[s] \in Scan /\ ScanOK(scan[s]) /\ scan[s].on /\ scan[s].seen = 0
      /\ UNCHANGED <<now, bufs, live, work, published, batches, snapshot, restarts>>
  BY Shapes DEF Inv, ScanLook
<1>2. PICK b \in scan[s].todo :
        scan' = IF bufs[b].closed \/ ~Due(s, b) THEN [scan EXCEPT ![s].todo = @ \ {b}]
                ELSE [scan EXCEPT ![s].seen = b]
  BY DEF ScanLook
<1>3. b \in 1..Len(bufs) /\ scan[s].todo \subseteq 1..Len(bufs) /\ Len(bufs) \in Nat
  BY <1>1, <1>2, ScanFields, Shapes
<1>4. CASE bufs[b].closed \/ ~Due(s, b)
  <2>1. PICK c : c = [scan[s] EXCEPT !.todo = @ \ {b}]
    OBVIOUS
  <2>2. c \in Scan /\ c.on = scan[s].on /\ scan' = [scan EXCEPT ![s] = c]
    BY <1>1, <1>2, <1>3, <1>4, <2>1 DEF Scan
  <2>3. ScanOK(c)
    BY <1>1, <2>1 DEF ScanOK, Scan
  <2> QED BY <1>1, <2>2, <2>3, ScanOnlyInv
<1>5. CASE ~(bufs[b].closed \/ ~Due(s, b))
  <2>1. PICK c : c = [scan[s] EXCEPT !.seen = b]
    OBVIOUS
  <2>0. b \in 0..Len(bufs)
    BY <1>3
  <2>2. /\ c \in Scan /\ c.on = scan[s].on
        /\ c.seen = b /\ c.at = scan[s].at /\ c.marked = scan[s].marked /\ c.found = scan[s].found
    BY <1>1, <2>0, <2>1 DEF Scan
  <2>4. scan' = [scan EXCEPT ![s] = c]
    BY <1>2, <1>5, <2>1
  <2>3. ScanOK(c)
    BY <1>1, <1>5, <2>2 DEF ScanOK, Due
  <2> QED BY <1>1, <2>2, <2>3, <2>4, ScanOnlyInv
<1> QED BY <1>4, <1>5

LEMMA ScanCopyInv ==
    ASSUME Inv, NEW s \in Scanners, ScanCopy(s)
    PROVE  Inv'
<1> DEFINE b == scan[s].seen
<1>1. /\ TypeOK /\ scan[s] \in Scan /\ ScanOK(scan[s]) /\ scan[s].on /\ b # 0
      /\ UNCHANGED <<now, bufs, live, work, published, batches, snapshot, restarts>>
  BY Shapes DEF Inv, ScanCopy, ScanOK
<1>2. b \in 1..Len(bufs) /\ bufs[b] \in Buffer /\ scan[s].at >= CloseAt(b) /\ InWindow(bufs[b])
  BY <1>1, ScanFields, Shapes DEF Inv, ScanOK
<1>3. Copy(b) \in Aggregate
  BY <1>2, BufferFields DEF Copy, Aggregate
<1>4. now >= Copy(b).start + Copy(b).size + Grace /\ InWindow(Copy(b))
  <2>1. now >= CloseAt(b)
    BY <1>1, <1>2, ScanFields, Shapes DEF ScanOK
  <2> QED BY <1>2, <2>1 DEF Copy, InWindow, CloseAt, WindowEnd
<1>5. PICK c : c = [scan[s] EXCEPT !.found = @ \cup {Copy(b)}, !.todo = @ \ {b},
                                  !.seen = 0, !.marked = FALSE]
  OBVIOUS
<1>6. /\ c.on = scan[s].on /\ scan' = [scan EXCEPT ![s] = c]
      /\ c.seen = 0 /\ c.at = scan[s].at /\ c.marked = FALSE
      /\ c.found = scan[s].found \cup {Copy(b)} /\ c.todo = scan[s].todo \ {b}
  BY <1>1, <1>5 DEF ScanCopy, Scan
<1>7. c \in Scan
  <2>1. /\ c.found \in SUBSET Aggregate /\ c.todo \in SUBSET (1..Len(bufs))
        /\ 0 \in 0..Len(bufs) /\ FALSE \in BOOLEAN
    BY <1>1, <1>3, <1>6, ScanFields, Shapes
  <2>2. c = [on |-> scan[s].on, at |-> scan[s].at, todo |-> c.todo, seen |-> 0,
             marked |-> FALSE, found |-> c.found]
    BY <1>1, <1>5 DEF Scan
  <2> QED BY <1>1, <2>1, <2>2, ScanFields DEF Scan
<1>8. ScanOK(c)
  BY <1>1, <1>4, <1>6 DEF ScanOK
<1> QED BY <1>1, <1>6, <1>7, <1>8, ScanOnlyInv

LEMMA TickerDoneInv ==
    ASSUME Inv, TickerDone
    PROVE  Inv'
<1>1. TypeOK /\ now \in Nat /\ Ticker \in Scanners /\ Ticker \notin Workers
  BY Shapes, TickerAssumption DEF Inv, Scanners
<1>2. NoScan \in Scan /\ ScanOK(NoScan)
  BY <1>1, RestTypes
<1> QED BY <1>1, <1>2, ScanOnlyInv DEF TickerDone

-----------------------------------------------------------------------------
(* The purges and the rest of a batch.                                     *)

LEMMA PurgeStartInv ==
    ASSUME Inv, NEW w \in Workers, PurgeStart(w)
    PROVE  Inv'
<1>1. /\ TypeOK /\ w \in Scanners /\ scan[w] \in Scan /\ ScanOK(scan[w]) /\ scan[w].seen = 0
      /\ ~scan[w].marked /\ UNCHANGED <<now, bufs, live, published, batches, snapshot, restarts>>
  BY Shapes DEF Inv, PurgeStart, Scanned, ScanOK
<1>2. Grows /\ \A c : ScanOK(c)' <=> ScanOK(c)
  BY <1>1, StillGrows
<1>3. PICK c : c = [scan[w] EXCEPT !.on = FALSE, !.at = 0, !.todo = live]
  OBVIOUS
<1>4. /\ c.on = FALSE /\ c.at = 0 /\ c.seen = scan[w].seen /\ c.marked = scan[w].marked
      /\ c.found = scan[w].found /\ scan' = [scan EXCEPT ![w] = c]
  BY <1>1, <1>3 DEF PurgeStart, Scan
<1>5. c \in Scan
  <2>1. live \in SUBSET (1..Len(bufs)) /\ 0 \in Nat
    BY <1>1, Shapes
  <2> QED BY <1>1, <1>3, <2>1 DEF Scan
<1>6. ScanOK(c)
  BY <1>1, <1>4, Shapes DEF ScanOK
<1>7. /\ scan' \in [Scanners -> Scan'] /\ \A t \in Scanners : ScanOK(scan[t])'
      /\ scan'[w] = c /\ \A t \in Scanners \ {w} : scan'[t] = scan[t]
  BY <1>1, <1>2, <1>4, <1>5, <1>6, OneScan
<1>8. /\ work[w].step # "idle" /\ work' = [work EXCEPT ![w].step = "purge"] /\ ~scan'[w].on
      /\ \A v \in Workers \ {w} : scan'[v].on = scan[v].on
  BY <1>4, <1>7 DEF PurgeStart, Scanners
<1>9. batches' \in 0..MaxBatches
  BY <1>1 DEF TypeOK
<1> QED BY <1>1, <1>2, <1>7, <1>8, <1>9, StepOnly, Keeps

LEMMA PurgeLookInv ==
    ASSUME Inv, NEW w \in Workers, PurgeLook(w)
    PROVE  Inv'
<1>1. /\ TypeOK /\ w \in Scanners /\ scan[w] \in Scan /\ ScanOK(scan[w]) /\ scan[w].seen = 0
      /\ ~scan[w].on /\ UNCHANGED <<now, bufs, live, work, published, batches, snapshot, restarts>>
  BY Shapes DEF Inv, PurgeLook, WorkOK
<1>2. PICK b \in scan[w].todo :
        scan' = IF bufs[b].closed THEN [scan EXCEPT ![w].seen = b]
                ELSE [scan EXCEPT ![w].todo = @ \ {b}]
  BY DEF PurgeLook
<1>3. b \in 0..Len(bufs) /\ scan[w].todo \subseteq 1..Len(bufs) /\ Len(bufs) \in Nat
  BY <1>1, <1>2, ScanFields, Shapes
<1>4. CASE ~bufs[b].closed
  <2>1. PICK c : c = [scan[w] EXCEPT !.todo = @ \ {b}]
    OBVIOUS
  <2>2. c \in Scan /\ c.on = scan[w].on /\ scan' = [scan EXCEPT ![w] = c]
    BY <1>1, <1>2, <1>3, <1>4, <2>1 DEF Scan
  <2>3. ScanOK(c)
    BY <1>1, <2>1 DEF ScanOK, Scan
  <2> QED BY <1>1, <2>2, <2>3, ScanOnlyInv
<1>5. CASE bufs[b].closed
  <2>1. PICK c : c = [scan[w] EXCEPT !.seen = b]
    OBVIOUS
  <2>2. /\ c \in Scan /\ c.on = scan[w].on
        /\ c.seen = b /\ c.at = scan[w].at /\ c.marked = scan[w].marked /\ c.found = scan[w].found
    BY <1>1, <1>3, <2>1 DEF Scan
  <2>3. scan' = [scan EXCEPT ![w] = c]
    BY <1>2, <1>5, <2>1
  <2>4. ScanOK(c)
    BY <1>1, <1>5, <2>2 DEF ScanOK
  <2> QED BY <1>1, <2>2, <2>3, <2>4, ScanOnlyInv
<1> QED BY <1>4, <1>5

LEMMA PurgeDeleteInv ==
    ASSUME Inv, NEW w \in Workers, PurgeDelete(w)
    PROVE  Inv'
<1> DEFINE b == scan[w].seen
<1>1. /\ TypeOK /\ w \in Scanners /\ scan[w] \in Scan /\ ScanOK(scan[w]) /\ b # 0 /\ ~scan[w].on
      /\ UNCHANGED <<now, bufs, work, published, batches, snapshot, restarts>>
      /\ live' = live \ Loaded(bufs[b].size, bufs[b].start)
  BY Shapes DEF Inv, PurgeDelete, WorkOK
<1>2. Grows /\ \A c : ScanOK(c)' <=> ScanOK(c)
  BY <1>1, StillGrows
<1>3. PICK c : c = [scan[w] EXCEPT !.todo = @ \ {b}, !.seen = 0]
  OBVIOUS
<1>4. /\ c.on = scan[w].on /\ c.at = scan[w].at /\ c.seen = 0 /\ c.marked = scan[w].marked
      /\ c.found = scan[w].found /\ scan' = [scan EXCEPT ![w] = c]
  BY <1>1, <1>3 DEF PurgeDelete, Scan
<1>5. c \in Scan
  <2>1. 0 \in 0..Len(bufs)
    BY <1>1, Shapes
  <2> QED BY <1>1, <1>3, <2>1 DEF Scan
<1>6. ScanOK(c)
  BY <1>1, <1>4 DEF ScanOK
<1>7. /\ scan' \in [Scanners -> Scan'] /\ \A t \in Scanners : ScanOK(scan[t])'
      /\ scan'[w] = c /\ \A t \in Scanners \ {w} : scan'[t] = scan[t]
  BY <1>1, <1>2, <1>4, <1>5, <1>6, OneScan
<1>8. \A v \in Workers : scan'[v].on = scan[v].on
  BY <1>4, <1>7 DEF Scanners
<1>9. work' \in [Workers -> WorkState'] /\ \A v \in Workers : WorkOK(work[v], scan[v].on)'
  BY <1>1, <1>2, <1>8, AllWork
<1>10. TypeOK'
  BY <1>1, <1>7, <1>9 DEF TypeOK
<1>11. OnTimeOpen'
  <2>1. b \in 1..Len(bufs) /\ bufs[b].closed /\ CloseAt(b) \in Nat /\ now \in Nat
    BY <1>1, ScanFields, Shapes DEF ScanOK
  <2>2. now >= CloseAt(b)
    BY <2>1 DEF Inv, OnTimeOpen
  <2>3. ASSUME NEW x \in 1..Len(bufs), now < CloseAt(x)
        PROVE  x \in live' /\ ~bufs[x].closed
    <3>1. x \in live /\ ~bufs[x].closed
      BY <2>3 DEF Inv, OnTimeOpen
    <3>2. x \notin Loaded(bufs[b].size, bufs[b].start)
      BY <2>1, <2>2, <2>3 DEF Loaded, CloseAt, WindowEnd
    <3> QED BY <1>1, <3>1, <3>2
  <2> QED BY <1>1, <2>3 DEF OnTimeOpen, CloseAt, WindowEnd
<1>12. PublishedAfterGrace' /\ (\A x \in 1..Len(bufs) : InWindow(bufs[x]))'
  BY <1>1 DEF Inv, PublishedAfterGrace, InWindow
<1> QED BY <1>7, <1>9, <1>10, <1>11, <1>12 DEF Inv

LEMMA PurgeDoneInv ==
    ASSUME Inv, NEW w \in Workers, PurgeDone(w)
    PROVE  Inv'
<1>1. /\ TypeOK /\ UNCHANGED <<now, bufs, scan, batches>> /\ batches \in 0..MaxBatches
      /\ work[w].step # "idle" /\ work' = [work EXCEPT ![w].step = "rest"]
  BY DEF PurgeDone, Inv, TypeOK
<1>2. Grows
  BY <1>1, StillGrows
<1>3. work' \in [Workers -> WorkState'] /\ \A v \in Workers : WorkOK(work[v], scan[v].on)'
  BY <1>1, <1>2, StepOnly
<1> QED BY <1>1, <1>2, <1>3, AllScans, Keeps DEF PurgeDone

\* A worker publishes some of its aggregates and goes on without its scan.
LEMMA RestInv ==
    ASSUME Inv, NEW w \in Workers, NEW some \in SUBSET Aggregates(w), work[w].step = "rest",
           published' = published \cup some, scan' = [scan EXCEPT ![w] = NoScan],
           NEW d \in WorkState, WorkOK(d, FALSE), work' = [work EXCEPT ![w] = d],
           UNCHANGED <<now, bufs, live, batches, snapshot, restarts>>
    PROVE  Inv'
<1>1. TypeOK /\ w \in Scanners /\ scan[w] \in Scan /\ ScanOK(scan[w]) /\ now \in Nat
      /\ work[w].batch \in 1..MaxBatches
  BY Shapes DEF Inv, WorkOK
<1>2. Grows /\ \A c : ScanOK(c)' <=> ScanOK(c)
  BY <1>1, StillGrows
<1>3. NoScan \in Scan /\ ScanOK(NoScan) /\ NoScan.on = FALSE
  BY <1>1, RestTypes DEF NoScan
<1>4. PICK c : c = NoScan
  OBVIOUS
<1>5. /\ scan' \in [Scanners -> Scan'] /\ \A t \in Scanners : ScanOK(scan[t])'
      /\ scan'[w] = c /\ \A t \in Scanners \ {w} : scan'[t] = scan[t]
  BY <1>1, <1>2, <1>3, <1>4, OneScan
<1>6. scan'[w].on = FALSE /\ \A v \in Workers \ {w} : scan'[v].on = scan[v].on
  BY <1>3, <1>4, <1>5 DEF Scanners
<1>7. d \in WorkState' /\ WorkOK(d, FALSE)'
  BY <1>1, <1>2, WorkFrame
<1>8. work' \in [Workers -> WorkState'] /\ \A v \in Workers : WorkOK(work[v], scan[v].on)'
  BY <1>2, <1>6, <1>7, OneWork
<1>9. ASSUME NEW p \in some
      PROVE  /\ p \in [size : Sizes, start : Nat, values : Seq(Value), count : Nat, by : 1..MaxBatches]
             /\ now >= p.start + p.size + Grace
             /\ \A i \in 1..Len(p.values) : p.values[i].ts \in p.start..(p.start + p.size - 1)
  <2>1. PICK f \in scan[w].found :
          p = [size |-> f.size, start |-> f.start, values |-> f.values, count |-> f.count,
               by |-> work[w].batch]
    BY DEF Aggregates
  <2>2. f \in Aggregate /\ now >= f.start + f.size + Grace /\ InWindow(f)
    BY <1>1, ScanFields DEF ScanOK
  <2>3. p.size = f.size /\ p.start = f.start /\ p.values = f.values
    BY <2>1
  <2>4. p \in [size : Sizes, start : Nat, values : Seq(Value), count : Nat, by : 1..MaxBatches]
    BY <1>1, <2>1, <2>2 DEF Aggregate
  <2> QED BY <2>2, <2>3, <2>4 DEF InWindow
<1>10. TypeOK'
  BY <1>1, <1>5, <1>8, <1>9 DEF TypeOK
<1>11. PublishedAfterGrace'
  BY <1>9 DEF Inv, PublishedAfterGrace
<1>12. OnTimeOpen' /\ (\A b \in 1..Len(bufs) : InWindow(bufs[b]))'
  BY DEF Inv, OnTimeOpen, CloseAt, WindowEnd, InWindow
<1> QED BY <1>5, <1>8, <1>10, <1>11, <1>12 DEF Inv

LEMMA SucceedInv ==
    ASSUME Inv, NEW w \in Workers, Succeed(w)
    PROVE  Inv'
BY RestTypes, RestInv DEF Succeed

LEMMA FailInv ==
    ASSUME Inv, NEW w \in Workers, Fail(w)
    PROVE  Inv'
<1>1. TypeOK /\ work[w] \in WorkState /\ WorkOK(work[w], scan[w].on) /\ work[w].step = "rest"
  BY Shapes DEF Inv, Fail
<1>2. PICK some \in SUBSET Aggregates(w) : published' = published \cup some
  BY DEF Fail
<1>3. CASE ~MayRetry(w)
  BY <1>1, <1>2, <1>3, RestTypes, RestInv DEF Fail
<1>4. CASE MayRetry(w)
  <2>1. PICK d : d = [work[w] EXCEPT !.step = "pick", !.sizes = Sizes,
                                  !.attempt = work[w].attempt + 1]
    OBVIOUS
  <2>2. work[w].attempt + 1 \in 0..MaxRetries
    BY <1>1, <1>4, WorkFields, BoundsAssumption DEF MayRetry
  <2>3. d \in WorkState /\ d.step = "pick" /\ d.batch = work[w].batch /\ d.ts = work[w].ts
    BY <1>1, <2>1, <2>2 DEF WorkState
  <2>4. WorkOK(d, FALSE)
    BY <1>1, <2>3 DEF WorkOK
  <2>5. work' = [work EXCEPT ![w] = d]
    BY <1>4, <2>1 DEF Fail
  <2> QED BY <1>1, <1>2, <2>3, <2>4, <2>5, RestInv DEF Fail
<1> QED BY <1>3, <1>4

-----------------------------------------------------------------------------
(* The steps that change the buffers, and the others.                      *)

\* One buffer of a sequence is replaced.
LEMMA SetBuffer ==
    ASSUME NEW q \in Seq(Buffer), NEW b \in 1..Len(q), NEW x \in Buffer
    PROVE  /\ [q EXCEPT ![b] = x] \in Seq(Buffer) /\ Len([q EXCEPT ![b] = x]) = Len(q)
           /\ [q EXCEPT ![b] = x][b] = x
           /\ \A y \in 1..Len(q) : y # b => [q EXCEPT ![b] = x][y] = q[y]
OBVIOUS

\* The buffers change and the map, the clock and what was published do not.
LEMMA BufsInv ==
    ASSUME Inv, Grows,
           UNCHANGED <<now, live, published, batches, snapshot, restarts>>,
           Len(bufs') = Len(bufs), \A b \in 1..Len(bufs) : InWindow(bufs[b])',
           \A b \in 1..Len(bufs) : bufs'[b].closed => bufs[b].closed \/ now >= CloseAt(b),
           scan' \in [Scanners -> Scan'], \A t \in Scanners : ScanOK(scan[t])',
           work' \in [Workers -> WorkState'], \A v \in Workers : WorkOK(work[v], scan[v].on)'
    PROVE  Inv'
<1>1. TypeOK'
  BY DEF Inv, TypeOK, Grows
<1>2. ASSUME NEW b \in 1..Len(bufs'), now' < CloseAt(b)' PROVE b \in live' /\ ~bufs'[b].closed
  <2>1. b \in 1..Len(bufs) /\ CloseAt(b)' = CloseAt(b) /\ CloseAt(b) \in Nat /\ now \in Nat
    BY Shapes DEF Inv, Grows, CloseAt, WindowEnd
  <2>2. b \in live /\ ~bufs[b].closed
    BY <1>2, <2>1 DEF Inv, OnTimeOpen
  <2> QED BY <1>2, <2>1, <2>2
<1>3. OnTimeOpen'
  BY <1>2 DEF OnTimeOpen
<1>4. PublishedAfterGrace' /\ (\A b \in 1..Len(bufs) : InWindow(bufs[b]))'
  BY DEF Inv, PublishedAfterGrace
<1> QED BY <1>1, <1>3, <1>4 DEF Inv

LEMMA ScanMarkInv ==
    ASSUME Inv, NEW s \in Scanners, ScanMark(s)
    PROVE  Inv'
<1>1. PICK b, x, c : /\ b = scan[s].seen /\ x = [bufs[b] EXCEPT !.closed = TRUE]
                     /\ c = [scan[s] EXCEPT !.marked = TRUE]
  OBVIOUS
<1>2. /\ TypeOK /\ scan[s] \in Scan /\ ScanOK(scan[s]) /\ scan[s].on /\ b # 0
      /\ bufs \in Seq(Buffer)
      /\ UNCHANGED <<now, live, work, published, batches, snapshot, restarts>>
  BY <1>1, Shapes DEF Inv, TypeOK, ScanMark
<1>3. b \in 1..Len(bufs) /\ bufs[b] \in Buffer /\ now \in Nat /\ CloseAt(b) \in Nat
  BY <1>1, <1>2, ScanFields, Shapes
<1>4. now >= CloseAt(b)
  BY <1>1, <1>2, <1>3, ScanFields DEF ScanOK
<1>5. /\ x \in Buffer /\ x.closed = TRUE /\ x.values = bufs[b].values
      /\ x.size = bufs[b].size /\ x.start = bufs[b].start
  BY <1>1, <1>3 DEF Buffer
<1>6. bufs' = [bufs EXCEPT ![b] = x] /\ scan' = [scan EXCEPT ![s] = c]
  BY <1>1 DEF ScanMark, Marked
<1>7. /\ bufs' \in Seq(Buffer) /\ Len(bufs') = Len(bufs) /\ bufs'[b] = x
      /\ \A y \in 1..Len(bufs) : y # b => bufs'[y] = bufs[y]
  BY <1>2, <1>3, <1>5, <1>6, SetBuffer
<1>8. Grows
  BY <1>2, <1>3, <1>5, <1>7, Shapes DEF Grows
<1>9. /\ c \in Scan /\ c.on = scan[s].on /\ c.at = scan[s].at /\ c.seen = scan[s].seen
      /\ c.marked = TRUE /\ c.found = scan[s].found
  BY <1>1, <1>2 DEF Scan
<1>10. ScanOK(c)
  BY <1>1, <1>2, <1>9 DEF ScanOK
<1>11. /\ scan' \in [Scanners -> Scan'] /\ \A t \in Scanners : ScanOK(scan[t])'
       /\ scan'[s] = c /\ \A t \in Scanners \ {s} : scan'[t] = scan[t]
  BY <1>2, <1>6, <1>8, <1>9, <1>10, ScanFrame, OneScan
<1>12. \A v \in Workers : scan'[v].on = scan[v].on
  BY <1>9, <1>11 DEF Scanners
<1>13. work' \in [Workers -> WorkState'] /\ \A v \in Workers : WorkOK(work[v], scan[v].on)'
  BY <1>2, <1>8, <1>12, AllWork
<1>14. \A y \in 1..Len(bufs) : InWindow(bufs[y])'
  BY <1>3, <1>5, <1>7 DEF Inv, InWindow
<1>15. \A y \in 1..Len(bufs) : bufs'[y].closed => bufs[y].closed \/ now >= CloseAt(y)
  BY <1>4, <1>7
<1> QED BY <1>2, <1>7, <1>8, <1>11, <1>13, <1>14, <1>15, BufsInv

LEMMA Appended ==
    ASSUME NEW S, NEW t \in Seq(S), NEW v \in S
    PROVE  /\ Append(t, v) \in Seq(S) /\ Len(Append(t, v)) = Len(t) + 1
           /\ Append(t, v)[Len(t) + 1] = v /\ \A i \in 1..Len(t) : Append(t, v)[i] = t[i]
OBVIOUS

\* The values of a buffer that drops its oldest one when it is full.
LEMMA AddedValues ==
    ASSUME NEW q \in Seq(Value), NEW v \in Value, NEW P,
           \A i \in 1..Len(q) : q[i].ts \in P, v.ts \in P, Capacity >= 1, Capacity \in Nat,
           NEW r, r = Append(IF Len(q) >= Capacity THEN Tail(q) ELSE q, v)
    PROVE  r \in Seq(Value) /\ \A i \in 1..Len(r) : r[i].ts \in P
<1>1. PICK t : t = IF Len(q) >= Capacity THEN Tail(q) ELSE q
  OBVIOUS
<1>2. t \in Seq(Value) /\ \A i \in 1..Len(t) : t[i].ts \in P
  <2>1. CASE Len(q) >= Capacity
    <3>1. t = Tail(q) /\ q # <<>>
      BY <1>1, <2>1
    <3>2. t \in Seq(Value) /\ Len(t) = Len(q) - 1 /\ \A i \in 1..Len(t) : t[i] = q[i + 1]
      BY <3>1
    <3>3. \A i \in 1..Len(t) : i + 1 \in 1..Len(q)
      BY <3>2
    <3> QED BY <3>2, <3>3
  <2>2. CASE ~(Len(q) >= Capacity)
    BY <1>1, <2>2
  <2> QED BY <2>1, <2>2
<1>3. r = Append(t, v)
  BY <1>1
<1>4. /\ r \in Seq(Value) /\ Len(r) = Len(t) + 1 /\ r[Len(t) + 1] = v
      /\ \A i \in 1..Len(t) : r[i] = t[i]
  BY <1>2, <1>3, Appended
<1>5. \A i \in 1..Len(r) : i \in 1..Len(t) \/ i = Len(t) + 1
  BY <1>2, <1>4
<1> QED BY <1>2, <1>4, <1>5

LEMMA AddInv ==
    ASSUME Inv, NEW w \in Workers, Add(w)
    PROVE  Inv'
<1>1. PICK b, v, x, d :
        /\ b = work[w].buf /\ v = [batch |-> work[w].batch, ts |-> work[w].ts]
        /\ x = [bufs[b] EXCEPT
                   !.values = Append(IF Len(bufs[b].values) >= Capacity THEN Tail(bufs[b].values)
                                     ELSE bufs[b].values, v),
                   !.count = bufs[b].count + 1]
        /\ d = [work[w] EXCEPT !.step = "pick", !.buf = 0]
  OBVIOUS
<1>2. /\ TypeOK /\ work[w] \in WorkState /\ WorkOK(work[w], scan[w].on) /\ work[w].step = "add"
      /\ bufs \in Seq(Buffer) /\ scan' = scan
      /\ UNCHANGED <<now, live, published, batches, snapshot, restarts>>
  BY Shapes DEF Inv, TypeOK, Add
<1>3. /\ b \in 1..Len(bufs) /\ bufs[b] \in Buffer /\ work[w].ts \in Stamps
      /\ work[w].batch \in 1..MaxBatches /\ bufs[b].start = Align(work[w].ts, bufs[b].size)
  BY <1>1, <1>2, WorkFields, Shapes DEF WorkOK
<1>4. bufs' = [bufs EXCEPT ![b] = x] /\ work' = [work EXCEPT ![w] = d]
  BY <1>1 DEF Add
<1>5. v \in Value /\ v.ts \in bufs[b].start..(bufs[b].start + bufs[b].size - 1)
  <2>1. v \in Value /\ v.ts = work[w].ts
    BY <1>1, <1>3 DEF Value
  <2>2. work[w].ts \in Nat /\ bufs[b].size \in Nat \ {0}
    BY <1>3, SizesAssumption, BufferFields
  <2> QED BY <1>3, <2>1, <2>2, AlignBounds
<1>6. /\ x.size = bufs[b].size /\ x.start = bufs[b].start /\ x.closed = bufs[b].closed
      /\ x.values = Append(IF Len(bufs[b].values) >= Capacity THEN Tail(bufs[b].values)
                           ELSE bufs[b].values, v)
      /\ x = [size |-> bufs[b].size, start |-> bufs[b].start, values |-> x.values,
              count |-> bufs[b].count + 1, closed |-> bufs[b].closed]
  BY <1>1, <1>3 DEF Buffer
<1>7. /\ x.values \in Seq(Value)
      /\ \A i \in 1..Len(x.values) : x.values[i].ts \in x.start..(x.start + x.size - 1)
  <2>1. PICK P, q : P = bufs[b].start..(bufs[b].start + bufs[b].size - 1) /\ q = bufs[b].values
    OBVIOUS
  <2>2. q \in Seq(Value) /\ \A i \in 1..Len(q) : q[i].ts \in P
    BY <1>3, <2>1, BufferFields DEF Inv, InWindow
  <2>3. Capacity >= 1 /\ Capacity \in Nat
    BY BoundsAssumption
  <2>4. x.values \in Seq(Value) /\ \A i \in 1..Len(x.values) : x.values[i].ts \in P
    BY <1>5, <1>6, <2>1, <2>2, <2>3, AddedValues
  <2> QED BY <1>6, <2>1, <2>4
<1>8. x \in Buffer
  <2>1. /\ bufs[b].size \in Sizes /\ bufs[b].start \in Nat /\ bufs[b].closed \in BOOLEAN
        /\ bufs[b].count + 1 \in Nat
    BY <1>3, BufferFields
  <2>2. PICK vs, n, z, st, cl : /\ vs = x.values /\ n = bufs[b].count + 1 /\ z = bufs[b].size
                                /\ st = bufs[b].start /\ cl = bufs[b].closed
    OBVIOUS
  <2>3. x = [size |-> z, start |-> st, values |-> vs, count |-> n, closed |-> cl]
    BY <1>6, <2>2
  <2> QED BY <1>7, <2>1, <2>2, <2>3 DEF Buffer
<1>9. /\ bufs' \in Seq(Buffer) /\ Len(bufs') = Len(bufs) /\ bufs'[b] = x
      /\ \A y \in 1..Len(bufs) : y # b => bufs'[y] = bufs[y]
  BY <1>2, <1>3, <1>4, <1>8, SetBuffer
<1>10. Grows
  BY <1>2, <1>3, <1>6, <1>9, Shapes DEF Grows
<1>11. d \in WorkState /\ d.step = "pick" /\ d.batch = work[w].batch /\ d.ts = work[w].ts
  <2>1. 0 \in 0..Len(bufs)
    BY <1>2, Shapes
  <2> QED BY <1>1, <1>2, <2>1 DEF WorkState
<1>12. PICK on : on = scan[w].on
  OBVIOUS
<1>13. WorkOK(d, on)
  BY <1>3, <1>11 DEF WorkOK
<1>14. d \in WorkState' /\ WorkOK(d, on)'
  BY <1>2, <1>10, <1>11, <1>13, WorkFrame
<1>15. work' \in [Workers -> WorkState'] /\ \A u \in Workers : WorkOK(work[u], scan[u].on)'
  BY <1>2, <1>4, <1>10, <1>12, <1>14, OneWork
<1>16. \A y \in 1..Len(bufs) : InWindow(bufs[y])'
  BY <1>3, <1>7, <1>9 DEF Inv, InWindow
<1>17. \A y \in 1..Len(bufs) : bufs'[y].closed => bufs[y].closed \/ now >= CloseAt(y)
  BY <1>6, <1>9
<1> QED BY <1>2, <1>9, <1>10, <1>15, <1>16, <1>17, AllScans, BufsInv

LEMMA PickInv ==
    ASSUME Inv, NEW w \in Workers, Pick(w)
    PROVE  Inv'
<1>1. PICK size \in work[w].sizes :
        LET start == Align(work[w].ts, size)
            here == Loaded(size, start)
            b == IF here = {} THEN Len(bufs) + 1 ELSE CHOOSE x \in here : TRUE IN
        /\ IF here = {} THEN bufs' = Append(bufs, NewBuffer(size, start))
           ELSE bufs' = bufs
        /\ live' = live \cup {b}
        /\ work' = [work EXCEPT ![w].sizes = @ \ {size},
                                ![w].buf = IF bufs'[b].closed THEN 0 ELSE b,
                                ![w].step = IF bufs'[b].closed THEN "pick" ELSE "add"]
  BY DEF Pick
<1>2. PICK start, here, b :
        /\ start = Align(work[w].ts, size) /\ here = Loaded(size, start)
        /\ b = IF here = {} THEN Len(bufs) + 1 ELSE CHOOSE x \in here : TRUE
  OBVIOUS
<1>3. /\ IF here = {} THEN bufs' = Append(bufs, NewBuffer(size, start)) ELSE bufs' = bufs
      /\ live' = live \cup {b}
      /\ work' = [work EXCEPT ![w].sizes = @ \ {size},
                              ![w].buf = IF bufs'[b].closed THEN 0 ELSE b,
                              ![w].step = IF bufs'[b].closed THEN "pick" ELSE "add"]
  BY <1>1, <1>2
<1>4. /\ TypeOK /\ work[w] \in WorkState /\ WorkOK(work[w], scan[w].on) /\ work[w].step = "pick"
      /\ bufs \in Seq(Buffer) /\ scan' = scan /\ now \in Nat /\ Len(bufs) \in Nat
      /\ live \subseteq 1..Len(bufs)
      /\ UNCHANGED <<now, published, batches, snapshot, restarts>>
  BY Shapes DEF Inv, TypeOK, Pick
<1>5. size \in Sizes /\ size \in Nat \ {0} /\ work[w].ts \in Nat /\ start \in Nat
      /\ work[w].ts \in Stamps /\ work[w].batch \in 1..MaxBatches
  BY <1>2, <1>4, WorkFields, SizesAssumption, AlignBounds DEF WorkOK
<1>6. /\ bufs' \in Seq(Buffer) /\ Len(bufs') >= Len(bufs) /\ b \in 1..Len(bufs')
      /\ bufs'[b].size = size /\ bufs'[b].start = start
      /\ \A y \in 1..Len(bufs) : bufs'[y] = bufs[y]
      /\ \A y \in 1..Len(bufs') :
           \/ y \in 1..Len(bufs)
           \/ y = b /\ ~bufs'[y].closed /\ bufs'[y].values = <<>>
  <2>1. CASE here = {}
    <3>1. PICK x : x = NewBuffer(size, start)
      OBVIOUS
    <3>2. /\ x \in Buffer /\ x.size = size /\ x.start = start /\ ~x.closed /\ x.values = <<>>
      BY <1>5, <3>1 DEF NewBuffer, Buffer
    <3>3. bufs' = Append(bufs, x) /\ b = Len(bufs) + 1
      BY <1>2, <1>3, <2>1, <3>1
    <3>4. /\ bufs' \in Seq(Buffer) /\ Len(bufs') = Len(bufs) + 1 /\ bufs'[b] = x
          /\ \A y \in 1..Len(bufs) : bufs'[y] = bufs[y]
      BY <1>4, <3>2, <3>3, Appended
    <3>5. b \in 1..Len(bufs') /\ \A y \in 1..Len(bufs') : y \in 1..Len(bufs) \/ y = b
      BY <1>4, <3>3, <3>4
    <3> QED BY <1>4, <3>2, <3>4, <3>5
  <2>2. CASE here # {}
    <3>1. b \in here /\ bufs' = bufs
      BY <1>2, <1>3, <2>2
    <3>2. b \in live /\ bufs[b].size = size /\ bufs[b].start = start
      BY <1>2, <3>1 DEF Loaded
    <3> QED BY <1>4, <3>1, <3>2
  <2> QED BY <2>1, <2>2
<1>7. Grows
  BY <1>4, <1>6 DEF Grows
<1>8. PICK cl, d, on :
        /\ cl = bufs'[b].closed /\ on = scan'[w].on
        /\ d = [work[w] EXCEPT !.sizes = @ \ {size}, !.buf = IF cl THEN 0 ELSE b,
                               !.step = IF cl THEN "pick" ELSE "add"]
  OBVIOUS
<1>9. work' = [work EXCEPT ![w] = d]
  BY <1>3, <1>8
<1>10. /\ d.step = (IF cl THEN "pick" ELSE "add") /\ d.buf = (IF cl THEN 0 ELSE b)
       /\ d.batch = work[w].batch /\ d.ts = work[w].ts
  BY <1>4, <1>8 DEF WorkState
<1>11. d \in WorkState'
  <2>1. work[w] \in WorkState'
    BY <1>4, <1>7, WorkFrame
  <2>2. Len(bufs') \in Nat
    BY <1>6
  <2>3. (IF cl THEN 0 ELSE b) \in 0..Len(bufs')
    BY <1>6, <2>2
  <2>4. PICK bb, st : bb = (IF cl THEN 0 ELSE b) /\ st = IF cl THEN "pick" ELSE "add"
    OBVIOUS
  <2>5. st \in {"pick", "add"} /\ bb \in 0..Len(bufs')
    BY <2>3, <2>4
  <2>6. d = [work[w] EXCEPT !.sizes = @ \ {size}, !.buf = bb, !.step = st]
    BY <1>8, <2>4
  <2> QED BY <2>1, <2>5, <2>6 DEF WorkState
<1>12. WorkOK(d, on)'
  <2>1. b # 0
    BY <1>6
  <2> QED BY <1>2, <1>5, <1>6, <1>10, <2>1 DEF WorkOK
<1>13. work' \in [Workers -> WorkState'] /\ \A u \in Workers : WorkOK(work[u], scan[u].on)'
  BY <1>4, <1>7, <1>8, <1>9, <1>11, <1>12, OneWork
<1>14. scan' \in [Scanners -> Scan'] /\ \A t \in Scanners : ScanOK(scan[t])'
  BY <1>4, <1>7, AllScans
<1>15. live' \subseteq 1..Len(bufs')
  <2>1. 1..Len(bufs) \subseteq 1..Len(bufs')
    BY <1>4, <1>6
  <2> QED BY <1>3, <1>4, <1>6, <2>1
<1>16. TypeOK'
  BY <1>4, <1>6, <1>13, <1>14, <1>15 DEF TypeOK
<1>17. ASSUME NEW y \in 1..Len(bufs'), now' < CloseAt(y)' PROVE y \in live' /\ ~bufs'[y].closed
  <2>1. CASE y \in 1..Len(bufs)
    <3>1. CloseAt(y)' = CloseAt(y) /\ bufs'[y] = bufs[y]
      BY <1>6, <2>1 DEF CloseAt, WindowEnd
    <3> QED BY <1>3, <1>4, <1>17, <2>1, <3>1 DEF Inv, OnTimeOpen
  <2>2. CASE y = b /\ ~bufs'[y].closed
    BY <1>3, <2>2
  <2> QED BY <1>6, <2>1, <2>2
<1>18. OnTimeOpen'
  BY <1>17 DEF OnTimeOpen
<1>19. ASSUME NEW y \in 1..Len(bufs') PROVE InWindow(bufs[y])'
  <2>1. CASE y \in 1..Len(bufs)
    BY <1>6, <2>1 DEF Inv, InWindow
  <2>2. CASE bufs'[y].values = <<>>
    BY <2>2 DEF InWindow
  <2> QED BY <1>6, <2>1, <2>2
<1>20. PublishedAfterGrace'
  BY <1>4 DEF Inv, PublishedAfterGrace
<1> QED BY <1>13, <1>14, <1>16, <1>18, <1>19, <1>20 DEF Inv

\* PurgeStale, a snapshot, a crash and the clock.
LEMMA PurgeStaleInv ==
    ASSUME Inv, PurgeStale
    PROVE  Inv'
<1>1. /\ TypeOK /\ live' = {b \in live : ~Stale(b)}
      /\ UNCHANGED <<now, bufs, work, scan, published, batches, snapshot, restarts>>
  BY DEF PurgeStale, Inv
<1>2. Grows
  BY <1>1, StillGrows
<1>3. /\ scan' \in [Scanners -> Scan'] /\ \A t \in Scanners : ScanOK(scan[t])'
      /\ work' \in [Workers -> WorkState'] /\ \A v \in Workers : WorkOK(work[v], scan[v].on)'
  BY <1>1, <1>2, AllScans, AllWork
<1>4. TypeOK'
  BY <1>1, <1>3 DEF TypeOK
<1>5. ASSUME NEW b \in 1..Len(bufs), now < CloseAt(b) PROVE b \in live' /\ ~bufs[b].closed
  <2>1. now \in Nat /\ bufs[b].start \in Nat /\ bufs[b].size \in Nat
    BY <1>1, Shapes, BufferFields
  <2>2. ~Stale(b)
    BY <1>5, <2>1, TimesAssumption, StaleAssumption DEF Stale, CloseAt, WindowEnd
  <2> QED BY <1>1, <1>5, <2>2 DEF Inv, OnTimeOpen
<1>6. OnTimeOpen'
  BY <1>1, <1>5 DEF OnTimeOpen, CloseAt, WindowEnd
<1>7. PublishedAfterGrace' /\ (\A x \in 1..Len(bufs) : InWindow(bufs[x]))'
  BY <1>1 DEF Inv, PublishedAfterGrace, InWindow
<1> QED BY <1>3, <1>4, <1>6, <1>7 DEF Inv

LEMMA SnapshotInv ==
    ASSUME Inv, Snapshot
    PROVE  Inv'
<1>1. /\ TypeOK /\ snapshot' = OpenStates
      /\ UNCHANGED <<now, bufs, live, work, scan, published, batches, restarts>>
  BY DEF Snapshot, Inv
<1>2. Grows
  BY <1>1, StillGrows
<1>3. /\ scan' \in [Scanners -> Scan'] /\ \A t \in Scanners : ScanOK(scan[t])'
      /\ work' \in [Workers -> WorkState'] /\ \A v \in Workers : WorkOK(work[v], scan[v].on)'
  BY <1>1, <1>2, AllScans, AllWork
<1>4. snapshot' \subseteq Aggregate
  <2> SUFFICES ASSUME NEW b \in live PROVE Copy(b) \in Aggregate
    BY <1>1 DEF OpenStates
  <2>1. bufs[b] \in Buffer
    BY <1>1, Shapes
  <2> QED BY <2>1, BufferFields DEF Copy, Aggregate
<1>5. TypeOK'
  BY <1>1, <1>3, <1>4 DEF TypeOK
<1>6. OnTimeOpen' /\ PublishedAfterGrace' /\ (\A b \in 1..Len(bufs) : InWindow(bufs[b]))'
  BY <1>1 DEF Inv, OnTimeOpen, PublishedAfterGrace, CloseAt, WindowEnd, InWindow
<1> QED BY <1>3, <1>5, <1>6 DEF Inv

LEMMA RestartInv ==
    ASSUME Inv, Restart
    PROVE  Inv'
<1>1. /\ TypeOK /\ bufs' = <<>> /\ live' = {} /\ work' = [w \in Workers |-> NoWork]
      /\ scan' = [s \in Scanners |-> NoScan] /\ UNCHANGED <<now, published, batches, snapshot>>
      /\ restarts' \in 0..MaxRestarts /\ now \in Nat
  BY Shapes, BoundsAssumption DEF Restart, Inv, TypeOK
<1>2. bufs' \in Seq(Buffer) /\ Len(bufs') = 0
  BY <1>1
<1>3. /\ NoScan \in Scan' /\ NoScan.on = FALSE /\ NoScan.at = 0 /\ NoScan.seen = 0
      /\ NoScan.marked = FALSE /\ NoScan.found = {}
  BY <1>2 DEF NoScan, Scan
<1>4. NoWork \in WorkState' /\ NoWork.step = "idle"
  BY <1>2, BoundsAssumption DEF NoWork, WorkState
<1>5. \A s \in Scanners : scan'[s] = NoScan
  BY <1>1
<1>6. \A w \in Workers : work'[w] = NoWork
  BY <1>1
<1>7. \A s \in Scanners : ScanOK(scan[s])'
  BY <1>1, <1>3, <1>5 DEF ScanOK
<1>8. \A w \in Workers : WorkOK(work[w], scan[w].on)'
  BY <1>4, <1>6 DEF WorkOK
<1>9. TypeOK'
  BY <1>1, <1>2, <1>3, <1>4 DEF TypeOK
<1>10. OnTimeOpen' /\ (\A b \in 1..Len(bufs) : InWindow(bufs[b]))'
  BY <1>2 DEF OnTimeOpen
<1>11. PublishedAfterGrace'
  BY <1>1 DEF Inv, PublishedAfterGrace
<1> QED BY <1>7, <1>8, <1>9, <1>10, <1>11 DEF Inv

LEMMA TickInv ==
    ASSUME Inv, Tick
    PROVE  Inv'
<1>1. /\ TypeOK /\ now \in Nat /\ now' = now + 1 /\ now' \in 0..MaxTime
      /\ UNCHANGED <<bufs, live, work, scan, published, batches, snapshot, restarts>>
  BY Shapes, TimesAssumption DEF Tick, Inv, TypeOK
<1>2. Grows
  BY <1>1, Shapes DEF Grows, TypeOK
<1>3. /\ scan' \in [Scanners -> Scan'] /\ \A t \in Scanners : ScanOK(scan[t])'
      /\ work' \in [Workers -> WorkState'] /\ \A v \in Workers : WorkOK(work[v], scan[v].on)'
  BY <1>1, <1>2, AllScans, AllWork
<1>4. TypeOK'
  BY <1>1, <1>3 DEF TypeOK
<1>5. ASSUME NEW b \in 1..Len(bufs'), now' < CloseAt(b)' PROVE b \in live' /\ ~bufs'[b].closed
  <2>1. b \in 1..Len(bufs) /\ CloseAt(b)' = CloseAt(b) /\ CloseAt(b) \in Nat
    BY <1>1, Shapes DEF CloseAt, WindowEnd
  <2> QED BY <1>1, <1>5, <2>1 DEF Inv, OnTimeOpen
<1>6. ASSUME NEW p \in published PROVE now' >= p.start + p.size + Grace
  <2>1. p.start \in Nat /\ p.size \in Nat /\ Grace \in Nat
    BY <1>1, SizesAssumption, TimesAssumption DEF TypeOK
  <2> QED BY <1>1, <2>1 DEF Inv, PublishedAfterGrace
<1>7. OnTimeOpen' /\ PublishedAfterGrace' /\ (\A b \in 1..Len(bufs) : InWindow(bufs[b]))'
  BY <1>1, <1>5, <1>6 DEF Inv, OnTimeOpen, PublishedAfterGrace, InWindow
<1> QED BY <1>3, <1>4, <1>7 DEF Inv

-----------------------------------------------------------------------------
LEMMA InitInv == Init => Inv
<1> SUFFICES ASSUME Init PROVE Inv
  OBVIOUS
<1>1. bufs \in Seq(Buffer) /\ Len(bufs) = 0 /\ now \in 0..MaxTime /\ now \in Nat /\ live = {}
  BY TimesAssumption DEF Init
<1>2. /\ NoScan \in Scan /\ ScanOK(NoScan) /\ NoWork \in WorkState
      /\ \A on : WorkOK(NoWork, on)
  BY <1>1, RestTypes
<1>3. \A s \in Scanners : scan[s] = NoScan
  BY DEF Init
<1>4. \A w \in Workers : work[w] = NoWork
  BY DEF Init
<1>5. TypeOK
  BY <1>1, <1>2, BoundsAssumption DEF Init, TypeOK
<1>6. OnTimeOpen /\ PublishedAfterGrace /\ \A b \in 1..Len(bufs) : InWindow(bufs[b])
  BY <1>1 DEF Init, OnTimeOpen, PublishedAfterGrace
<1> QED BY <1>2, <1>3, <1>4, <1>5, <1>6 DEF Inv

LEMMA NextInv == Inv /\ [Next]_vars => Inv'
<1> SUFFICES ASSUME Inv, [Next]_vars PROVE Inv'
  OBVIOUS
<1>1. ASSUME NEW w \in Workers, Work(w) PROVE Inv'
  <2>1. CASE WorkerScans(w)
    <3>1. w \in Scanners
      BY DEF Scanners
    <3> QED BY <2>1, <3>1, ScanStartInv DEF WorkerScans
  <2> QED BY <1>1, <2>1, BeginInv, PickInv, AddInv, PurgeStartInv, PurgeLookInv, PurgeDeleteInv,
             PurgeDoneInv, SucceedInv, FailInv DEF Work
<1>2. CASE TickerScans
  <2>1. Ticker \in Scanners /\ Ticker \notin Workers
    BY TickerAssumption DEF Scanners
  <2> QED BY <1>2, <2>1, ScanStartInv DEF TickerScans
<1>3. CASE UNCHANGED vars
  <2>1. TypeOK /\ UNCHANGED <<now, bufs, live, work, scan, published, batches, snapshot, restarts>>
    BY <1>3 DEF Inv, vars
  <2>2. Grows /\ batches' \in 0..MaxBatches
    BY <2>1, StillGrows DEF TypeOK
  <2>3. /\ scan' \in [Scanners -> Scan'] /\ \A t \in Scanners : ScanOK(scan[t])'
        /\ work' \in [Workers -> WorkState'] /\ \A v \in Workers : WorkOK(work[v], scan[v].on)'
    BY <2>1, <2>2, AllScans, AllWork
  <2> QED BY <2>1, <2>2, <2>3, Keeps
<1> QED BY <1>1, <1>2, <1>3, ScanLookInv, ScanMarkInv, ScanCopyInv, TickerDoneInv, PurgeStaleInv,
           SnapshotInv, RestartInv, TickInv DEF Next

LEMMA WindowsInvariant == Spec => []Inv
BY InitInv, NextInv, PTL DEF Spec

\* The windows, the scans and the batches keep their types in every history of
\* workers, ticker, purges, snapshots and crashes (window.go, aggregator.go).
THEOREM WindowsTypeCorrect == Spec => []TypeOK
<1>1. Inv => TypeOK
  BY DEF Inv
<1> QED BY <1>1, WindowsInvariant, PTL

\* No interleaving of AddValue, GetClosedWindows, PurgeClosed and PurgeStale, of
\* any number of workers and the ticker, closes or removes a window before its
\* grace period is over.
THEOREM WindowsOnTime == Spec => []OnTimeOpen
<1>1. Inv => OnTimeOpen
  BY DEF Inv
<1> QED BY <1>1, WindowsInvariant, PTL

\* What processMetricBatch publishes is a window whose grace period is over,
\* made of values of that window only, late data and retries included.
THEOREM PublishedCorrect == Spec => []PublishedAfterGrace
<1>1. Inv => PublishedAfterGrace
  BY DEF Inv
<1> QED BY <1>1, WindowsInvariant, PTL

-----------------------------------------------------------------------------
(* One worker w and no retries: a batch counts once.                       *)

\* Whether x, a buffer or an aggregate, has a value of batch k; and whether it
\* has no batch twice.
Has(x, k) == \E i \in 1..Len(x.values) : x.values[i].batch = k
OnceIn(x) == \A i, j \in 1..Len(x.values) : x.values[i].batch = x.values[j].batch => i = j

\* What has been published, and what w has found and may publish.
Out(w) == published \cup scan[w].found

\* Batch k is nowhere in the windows of a size.
Absent(w, k, size) ==
    /\ \A b \in 1..Len(bufs) : bufs[b].size = size => ~Has(bufs[b], k)
    /\ \A x \in Out(w) : x.size = size => ~Has(x, k)

\* In the buffers, and in what goes out, a batch is at most once per size.
BufsOnce ==
    /\ \A b \in 1..Len(bufs) : OnceIn(bufs[b])
    /\ \A b, c \in 1..Len(bufs), k \in Nat :
         bufs[b].size = bufs[c].size /\ Has(bufs[b], k) /\ Has(bufs[c], k) => b = c
OutOnce(w) ==
    /\ \A x \in Out(w) : OnceIn(x)
    /\ \A x, y \in published, k \in Nat : x.size = y.size /\ Has(x, k) /\ Has(y, k) => x = y
    /\ \A x, y \in scan[w].found, k \in Nat : x.size = y.size /\ Has(x, k) /\ Has(y, k) => x = y
    /\ \A x \in published, y \in scan[w].found, k \in Nat :
         ~(x.size = y.size /\ Has(x, k) /\ Has(y, k))

\* A buffer whose batches went out is closed and w will not take it again.
Taken(w) ==
    \A x \in Out(w), b \in 1..Len(bufs), k \in Nat :
        x.size = bufs[b].size /\ Has(x, k) /\ Has(bufs[b], k)
          => bufs[b].closed /\ ~(scan[w].on /\ scan[w].seen = b)

\* Batches that did not arrive are nowhere, nor is the batch of w where it is
\* still to be added; what w marked is closed.
Fresh(w) ==
    /\ \A k \in Nat, size \in Sizes : k > batches => Absent(w, k, size)
    /\ work[w].step # "idle" =>
         work[w].batch <= batches /\ \A size \in work[w].sizes : Absent(w, work[w].batch, size)
    /\ work[w].step = "add" =>
         /\ bufs[work[w].buf].size \notin work[w].sizes
         /\ Absent(w, work[w].batch, bufs[work[w].buf].size)
    /\ scan[w].marked => bufs[scan[w].seen].closed

CountInv(w) == BufsOnce /\ OutOnce(w) /\ Taken(w) /\ Fresh(w)

\* A step in which nothing is added and nothing new goes out, w takes no closed
\* buffer and has no new batch.
LEMMA CountFrame ==
    ASSUME NEW w \in Workers, CountInv(w), UNCHANGED <<published, batches>>,
           Len(bufs') = Len(bufs),
           \A b \in 1..Len(bufs) : /\ bufs'[b].size = bufs[b].size /\ bufs'[b].values = bufs[b].values
                                   /\ bufs[b].closed => bufs'[b].closed,
           scan'[w].found \subseteq scan[w].found,
           scan'[w].marked => bufs'[scan'[w].seen].closed,
           \A b \in 1..Len(bufs) : scan'[w].on /\ scan'[w].seen = b
             => (scan[w].on /\ scan[w].seen = b) \/ ~bufs[b].closed,
           work'[w].step # "idle" => /\ work[w].step # "idle" /\ work'[w].sizes = work[w].sizes
                                     /\ work'[w].batch = work[w].batch,
           work'[w].step = "add" => /\ work[w].step = "add" /\ work'[w].buf = work[w].buf
                                    /\ work[w].buf \in 1..Len(bufs)
    PROVE  CountInv(w)'
<1>1. /\ \A b \in 1..Len(bufs) : \A k : Has(bufs'[b], k) <=> Has(bufs[b], k)
      /\ \A b \in 1..Len(bufs) : OnceIn(bufs'[b]) <=> OnceIn(bufs[b])
  BY DEF Has, OnceIn
<1>2. Out(w)' \subseteq Out(w)
  BY DEF Out
<1>3. BufsOnce'
  BY <1>1 DEF CountInv, BufsOnce
<1>4. OutOnce(w)'
  BY <1>2 DEF CountInv, OutOnce
<1>5. Taken(w)'
  <2> SUFFICES ASSUME NEW x \in Out(w)', NEW b \in 1..Len(bufs'), NEW k \in Nat,
                      x.size = bufs'[b].size, Has(x, k), Has(bufs'[b], k)
               PROVE  bufs'[b].closed /\ ~(scan'[w].on /\ scan'[w].seen = b)
    BY DEF Taken
  <2>1. x \in Out(w) /\ x.size = bufs[b].size /\ Has(bufs[b], k) /\ b \in 1..Len(bufs)
    BY <1>1, <1>2
  <2>2. bufs[b].closed /\ ~(scan[w].on /\ scan[w].seen = b)
    BY <2>1 DEF CountInv, Taken
  <2> QED BY <2>1, <2>2
<1>6. \A k, size : Absent(w, k, size) => Absent(w, k, size)'
  BY <1>1, <1>2 DEF Absent
<1>7. Fresh(w)'
  <2>1. \A k \in Nat, size \in Sizes : k > batches' => Absent(w, k, size)'
    BY <1>6 DEF CountInv, Fresh
  <2>2. ASSUME work'[w].step # "idle", NEW size \in work'[w].sizes
        PROVE  Absent(w, work[w].batch, size)'
    <3>1. PICK k : k = work[w].batch
      OBVIOUS
    <3>2. Absent(w, k, size)
      BY <2>2, <3>1 DEF CountInv, Fresh
    <3> QED BY <1>6, <2>2, <3>1, <3>2
  <2>3. ASSUME work'[w].step = "add"
        PROVE  /\ bufs'[work'[w].buf].size \notin work'[w].sizes
               /\ Absent(w, work[w].batch, bufs[work[w].buf].size)'
    <3>1. PICK k, size : k = work[w].batch /\ size = bufs[work[w].buf].size
      OBVIOUS
    <3>2. Absent(w, k, size) /\ size \notin work[w].sizes
      BY <2>3, <3>1 DEF CountInv, Fresh
    <3>3. k = work'[w].batch /\ size = bufs'[work'[w].buf].size /\ work'[w].sizes = work[w].sizes
      BY <2>3, <3>1
    <3> QED BY <1>6, <3>2, <3>3
  <2>4. work'[w].step # "idle" => work'[w].batch <= batches'
    BY DEF CountInv, Fresh
  <2> QED BY <2>1, <2>2, <2>3, <2>4 DEF Fresh
<1> QED BY <1>3, <1>4, <1>5, <1>7 DEF CountInv

\* The batch that arrives has a new number.
LEMMA BeginCount ==
    ASSUME NEW w \in Workers, Inv, CountInv(w), NEW ts \in Stamps, Begin(w, ts)
    PROVE  CountInv(w)'
<1>1. /\ UNCHANGED <<bufs, scan, published>> /\ batches \in Nat /\ batches' = batches + 1
      /\ work \in [Workers -> WorkState]
  BY DEF Begin, Inv, TypeOK
<1>2. work'[w].step = "pick" /\ work'[w].batch = batches + 1 /\ work'[w].sizes = Sizes
  BY <1>1 DEF Begin, NoWork
<1>3. \A k, size : Absent(w, k, size)' <=> Absent(w, k, size)
  BY <1>1 DEF Absent, Out
<1>4. PICK n : n = batches + 1
  OBVIOUS
<1>5. n \in Nat /\ n > batches /\ \A k \in Nat : k > n => k > batches
  BY <1>1, <1>4
<1>6. \A size \in Sizes : Absent(w, n, size)'
  BY <1>3, <1>5 DEF CountInv, Fresh
<1>7. Fresh(w)'
  BY <1>1, <1>2, <1>3, <1>4, <1>5, <1>6 DEF CountInv, Fresh
<1> QED BY <1>1, <1>7 DEF CountInv, BufsOnce, OutOnce, Taken, Out

\* A window is picked: a new buffer is empty.
LEMMA PickCount ==
    ASSUME NEW w \in Workers, Inv, CountInv(w), Pick(w)
    PROVE  CountInv(w)'
<1>1. PICK size \in work[w].sizes :
        LET start == Align(work[w].ts, size)
            here == Loaded(size, start)
            b == IF here = {} THEN Len(bufs) + 1 ELSE CHOOSE x \in here : TRUE IN
        /\ IF here = {} THEN bufs' = Append(bufs, NewBuffer(size, start))
           ELSE bufs' = bufs
        /\ work' = [work EXCEPT ![w].sizes = @ \ {size},
                                ![w].buf = IF bufs'[b].closed THEN 0 ELSE b,
                                ![w].step = IF bufs'[b].closed THEN "pick" ELSE "add"]
  BY DEF Pick
<1>2. PICK start, here, b :
        /\ start = Align(work[w].ts, size) /\ here = Loaded(size, start)
        /\ b = IF here = {} THEN Len(bufs) + 1 ELSE CHOOSE x \in here : TRUE
  OBVIOUS
<1>3. /\ IF here = {} THEN bufs' = Append(bufs, NewBuffer(size, start)) ELSE bufs' = bufs
      /\ work' = [work EXCEPT ![w].sizes = @ \ {size},
                              ![w].buf = IF bufs'[b].closed THEN 0 ELSE b,
                              ![w].step = IF bufs'[b].closed THEN "pick" ELSE "add"]
  BY <1>1, <1>2
<1>4. /\ TypeOK /\ work[w] \in WorkState /\ work[w].step = "pick" /\ work \in [Workers -> WorkState]
      /\ bufs \in Seq(Buffer) /\ Len(bufs) \in Nat /\ live \subseteq 1..Len(bufs)
      /\ scan[w] \in Scan /\ ScanOK(scan[w]) /\ WorkOK(work[w], scan[w].on)
      /\ UNCHANGED <<scan, published, batches>>
  BY Shapes DEF Inv, TypeOK, Pick
<1>5. size \in Sizes /\ start \in Nat
  BY <1>2, <1>4, WorkFields, SizesAssumption, AlignBounds DEF WorkOK
<1>6. /\ Len(bufs') \in Nat /\ bufs'[b].size = size
      /\ 1..Len(bufs) \subseteq 1..Len(bufs') /\ \A y \in 1..Len(bufs) : bufs'[y] = bufs[y]
      /\ \A y \in 1..Len(bufs') : y \in 1..Len(bufs) \/ bufs'[y].values = <<>>
  <2>1. CASE here = {}
    <3>1. PICK x : x = NewBuffer(size, start)
      OBVIOUS
    <3>2. x \in Buffer /\ x.size = size /\ x.values = <<>>
      BY <1>5, <3>1 DEF NewBuffer, Buffer
    <3>3. bufs' = Append(bufs, x) /\ b = Len(bufs) + 1
      BY <1>2, <1>3, <2>1, <3>1
    <3>4. /\ bufs' \in Seq(Buffer) /\ Len(bufs') = Len(bufs) + 1 /\ bufs'[b] = x
          /\ \A y \in 1..Len(bufs) : bufs'[y] = bufs[y]
      BY <1>4, <3>2, <3>3, Appended
    <3>5. \A y \in 1..Len(bufs') : y \in 1..Len(bufs) \/ y = b
      BY <1>4, <3>3, <3>4
    <3>6. 1..Len(bufs) \subseteq 1..Len(bufs') /\ Len(bufs') \in Nat
      BY <1>4, <3>4
    <3> QED BY <3>2, <3>4, <3>5, <3>6
  <2>2. CASE here # {}
    <3>1. b \in here /\ bufs' = bufs
      BY <1>2, <1>3, <2>2
    <3>2. bufs[b].size = size
      BY <1>2, <3>1 DEF Loaded
    <3> QED BY <1>4, <3>1, <3>2
  <2> QED BY <2>1, <2>2
<1>7. /\ \A y \in 1..Len(bufs') : OnceIn(bufs'[y])
      /\ \A y \in 1..Len(bufs') : \A k : Has(bufs'[y], k) => y \in 1..Len(bufs) /\ Has(bufs[y], k)
  <2>1. ASSUME NEW y \in 1..Len(bufs'), bufs'[y].values = <<>>
        PROVE  OnceIn(bufs'[y]) /\ \A k : ~Has(bufs'[y], k)
    <3>1. PICK x : x = bufs'[y]
      OBVIOUS
    <3>2. 1..Len(x.values) = {}
      BY <2>1, <3>1
    <3> QED BY <3>1, <3>2 DEF OnceIn, Has
  <2>2. \A y \in 1..Len(bufs) : OnceIn(bufs[y])
    BY DEF CountInv, BufsOnce
  <2> QED BY <1>6, <2>1, <2>2
<1>8. Out(w)' = Out(w)
  BY <1>4 DEF Out
<1>9. BufsOnce'
  BY <1>6, <1>7 DEF CountInv, BufsOnce
<1>10. OutOnce(w)'
  BY <1>4, <1>8 DEF CountInv, OutOnce
<1>11. Taken(w)'
  BY <1>4, <1>6, <1>7, <1>8 DEF CountInv, Taken
<1>12. \A k, z : Absent(w, k, z) => Absent(w, k, z)'
  BY <1>6, <1>7, <1>8 DEF Absent
<1>13. /\ work'[w].batch = work[w].batch /\ work'[w].sizes = work[w].sizes \ {size}
       /\ work'[w].step = "add" => work'[w].buf = b
  <2>1. PICK cl : cl = bufs'[b].closed
    OBVIOUS
  <2>2. work' = [work EXCEPT ![w].sizes = @ \ {size}, ![w].buf = IF cl THEN 0 ELSE b,
                             ![w].step = IF cl THEN "pick" ELSE "add"]
    BY <1>3, <2>1
  <2>3. PICK bb, st : bb = (IF cl THEN 0 ELSE b) /\ st = IF cl THEN "pick" ELSE "add"
    OBVIOUS
  <2>4. work'[w] = [work[w] EXCEPT !.sizes = @ \ {size}, !.buf = bb, !.step = st]
    BY <1>4, <2>2, <2>3
  <2> QED BY <1>4, <2>3, <2>4 DEF WorkState
<1>14. \A z \in work[w].sizes : Absent(w, work[w].batch, z)
  BY <1>4 DEF CountInv, Fresh
<1>15. PICK k : k = work[w].batch
  OBVIOUS
<1>16. \A z \in work[w].sizes : Absent(w, k, z)'
  BY <1>12, <1>14, <1>15
<1>17. Fresh(w)'
  <2>1. \A n \in Nat, z \in Sizes : n > batches' => Absent(w, n, z)'
    BY <1>4, <1>12 DEF CountInv, Fresh
  <2>2. \A z \in work'[w].sizes : Absent(w, work[w].batch, z)'
    BY <1>13, <1>15, <1>16
  <2>3. work'[w].step = "add" => /\ bufs'[work'[w].buf].size \notin work'[w].sizes
                                 /\ Absent(w, work[w].batch, bufs[work[w].buf].size)'
    <3>1. Absent(w, k, size)' /\ k = work'[w].batch
      BY <1>13, <1>15, <1>16
    <3>2. work'[w].step = "add" => bufs'[work'[w].buf].size = size
      BY <1>6, <1>13
    <3> QED BY <1>13, <3>1, <3>2
  <2>4. scan'[w].marked => bufs'[scan'[w].seen].closed
    <3>1. ASSUME scan[w].marked PROVE bufs'[scan[w].seen].closed
      <4>1. bufs[scan[w].seen].closed /\ scan[w].seen \in 1..Len(bufs)
        BY <1>4, <3>1, ScanFields DEF CountInv, Fresh, ScanOK
      <4> QED BY <1>6, <4>1
    <3> QED BY <1>4, <3>1
  <2>5. work'[w].step # "idle" => work'[w].batch <= batches'
    BY <1>4, <1>13 DEF CountInv, Fresh
  <2> QED BY <2>1, <2>2, <2>3, <2>4, <2>5 DEF Fresh
<1> QED BY <1>9, <1>10, <1>11, <1>17 DEF CountInv

\* The aggregate that w copies is of batches that have not gone out yet.
LEMMA CopyCount ==
    ASSUME NEW w \in Workers, Inv, CountInv(w), ScanCopy(w)
    PROVE  CountInv(w)'
<1>1. PICK b, x : b = scan[w].seen /\ x = Copy(b)
  OBVIOUS
<1>2. /\ TypeOK /\ w \in Scanners /\ scan[w] \in Scan /\ ScanOK(scan[w]) /\ scan[w].on /\ b # 0
      /\ scan \in [Scanners -> Scan] /\ UNCHANGED <<bufs, work, published, batches>>
      /\ bufs[b].closed
  BY <1>1, Shapes DEF Inv, TypeOK, ScanCopy, ScanOK, CountInv, Fresh
<1>3. b \in 1..Len(bufs)
  BY <1>1, <1>2, ScanFields, Shapes
<1>4. scan'[w].found = scan[w].found \cup {x} /\ scan'[w].seen = 0 /\ ~scan'[w].marked
  <2>1. PICK td, fd : td = scan[w].todo \ {b} /\ fd = scan[w].found \cup {x}
    OBVIOUS
  <2>2. scan'[w] = [scan[w] EXCEPT !.found = fd, !.todo = td, !.seen = 0, !.marked = FALSE]
    BY <1>1, <1>2, <2>1 DEF ScanCopy
  <2> QED BY <1>2, <2>1, <2>2 DEF Scan
<1>5. x.size = bufs[b].size /\ x.values = bufs[b].values
  BY <1>1 DEF Copy
<1>6. (\A k : Has(x, k) <=> Has(bufs[b], k)) /\ (OnceIn(x) <=> OnceIn(bufs[b]))
  BY <1>5 DEF Has, OnceIn
<1>7. Out(w)' = Out(w) \cup {x}
  BY <1>2, <1>4 DEF Out
<1>8. \A y \in Out(w), k \in Nat : y.size = x.size /\ Has(y, k) => ~Has(x, k)
  BY <1>1, <1>2, <1>3, <1>5, <1>6 DEF CountInv, Taken
<1>9. BufsOnce'
  BY <1>2 DEF CountInv, BufsOnce
<1>10. OutOnce(w)'
  <2>1. OnceIn(x)
    BY <1>3, <1>6 DEF CountInv, BufsOnce
  <2>2. \A y \in published \cup scan[w].found, k \in Nat : y.size = x.size /\ Has(y, k) => ~Has(x, k)
    BY <1>8 DEF Out
  <2> QED BY <1>2, <1>4, <1>7, <2>1, <2>2 DEF CountInv, OutOnce
<1>11. Taken(w)'
  <2> SUFFICES ASSUME NEW y \in Out(w)', NEW c \in 1..Len(bufs), NEW k \in Nat,
                      y.size = bufs[c].size, Has(y, k), Has(bufs[c], k)
               PROVE  bufs[c].closed /\ ~(scan'[w].on /\ scan'[w].seen = c)
    BY <1>2 DEF Taken
  <2>1. bufs[c].closed
    <3>1. CASE y \in Out(w)
      BY <3>1 DEF CountInv, Taken
    <3>2. CASE y = x
      BY <1>2, <1>3, <1>5, <1>6, <3>2 DEF CountInv, BufsOnce
    <3> QED BY <1>7, <3>1, <3>2
  <2> QED BY <1>4, <2>1
<1>12. \A k, size : Absent(w, k, size) => Absent(w, k, size)'
  BY <1>2, <1>3, <1>5, <1>6, <1>7 DEF Absent
<1>13. Fresh(w)'
  <2>1. PICK k, size : k = work[w].batch /\ size = bufs[work[w].buf].size
    OBVIOUS
  <2> QED BY <1>2, <1>4, <1>12, <2>1 DEF CountInv, Fresh
<1> QED BY <1>9, <1>10, <1>11, <1>13 DEF CountInv

\* The worker publishes some of what it found and is done with its batch.
LEMMA RestCount ==
    ASSUME NEW w \in Workers, Inv, CountInv(w), NEW some \in SUBSET Aggregates(w),
           published' = published \cup some, scan'[w] = NoScan, work'[w] = NoWork,
           UNCHANGED <<bufs, batches>>
    PROVE  CountInv(w)'
<1>1. /\ scan'[w].found = {} /\ ~scan'[w].on /\ ~scan'[w].marked /\ work'[w].step = "idle"
  BY DEF NoScan, NoWork
<1>2. Out(w)' = published \cup some
  BY <1>1 DEF Out
<1>3. \A p \in some : \E f \in scan[w].found :
        /\ p.size = f.size /\ p.values = f.values
        /\ p = [size |-> f.size, start |-> f.start, values |-> f.values, count |-> f.count,
                by |-> work[w].batch]
  BY DEF Aggregates
<1>4. \A p \in Out(w)' : \E f \in Out(w) : p.size = f.size /\ p.values = f.values
  BY <1>2, <1>3 DEF Out
<1>5. ASSUME NEW p, NEW f, p.values = f.values
      PROVE  (\A k : Has(p, k) <=> Has(f, k)) /\ (OnceIn(p) <=> OnceIn(f))
  BY <1>5 DEF Has, OnceIn
<1>6. BufsOnce'
  BY DEF CountInv, BufsOnce
<1>7. OutOnce(w)'
  <2>1. \A p \in Out(w)' : OnceIn(p)
    BY <1>4, <1>5 DEF CountInv, OutOnce
  <2>2. ASSUME NEW p \in published', NEW q \in published', NEW k \in Nat, p.size = q.size,
               Has(p, k), Has(q, k)
        PROVE  p = q
    <3>1. CASE p \in published /\ q \in published
      BY <2>2, <3>1 DEF CountInv, OutOnce
    <3>2. CASE p \in published /\ q \in some
      BY <1>3, <1>5, <2>2, <3>2 DEF CountInv, OutOnce
    <3>3. CASE p \in some /\ q \in published
      BY <1>3, <1>5, <2>2, <3>3 DEF CountInv, OutOnce
    <3>4. CASE p \in some /\ q \in some
      <4>1. PICK f \in scan[w].found :
              /\ p.size = f.size /\ p.values = f.values
              /\ p = [size |-> f.size, start |-> f.start, values |-> f.values,
                      count |-> f.count, by |-> work[w].batch]
        BY <1>3, <3>4
      <4>2. PICK g \in scan[w].found :
              /\ q.size = g.size /\ q.values = g.values
              /\ q = [size |-> g.size, start |-> g.start, values |-> g.values,
                      count |-> g.count, by |-> work[w].batch]
        BY <1>3, <3>4
      <4>3. f.size = g.size /\ Has(f, k) /\ Has(g, k)
        BY <1>5, <2>2, <4>1, <4>2
      <4>4. f = g
        BY <4>3 DEF CountInv, OutOnce
      <4> QED BY <4>1, <4>2, <4>4
    <3> QED BY <3>1, <3>2, <3>3, <3>4
  <2> QED BY <1>1, <2>1, <2>2 DEF OutOnce
<1>8. Taken(w)'
  BY <1>1, <1>4, <1>5 DEF CountInv, Taken
<1>9. \A k, size : Absent(w, k, size) => Absent(w, k, size)'
  BY <1>4, <1>5 DEF Absent
<1>10. Fresh(w)'
  BY <1>1, <1>9 DEF CountInv, Fresh
<1> QED BY <1>6, <1>7, <1>8, <1>10 DEF CountInv

\* The buffers and the scans of a process that died are gone.
LEMMA RestartCount ==
    ASSUME NEW w \in Workers, Inv, CountInv(w), Restart
    PROVE  CountInv(w)'
<1>1. Len(bufs') = 0 /\ UNCHANGED <<published, batches>> /\ work'[w] = NoWork /\ scan'[w] = NoScan
  BY DEF Restart, Scanners
<1>2. /\ scan'[w].found = {} /\ ~scan'[w].on /\ ~scan'[w].marked /\ work'[w].step = "idle"
  BY <1>1 DEF NoScan, NoWork
<1>3. Out(w)' \subseteq Out(w) /\ 1..Len(bufs') = {}
  BY <1>1, <1>2 DEF Out
<1>4. BufsOnce' /\ Taken(w)'
  BY <1>3 DEF BufsOnce, Taken
<1>5. OutOnce(w)'
  BY <1>1, <1>2, <1>3 DEF CountInv, OutOnce
<1>6. \A k, size : Absent(w, k, size) => Absent(w, k, size)'
  BY <1>3 DEF Absent
<1>7. Fresh(w)'
  BY <1>1, <1>2, <1>6 DEF CountInv, Fresh
<1> QED BY <1>4, <1>5, <1>7 DEF CountInv

\* The values of a buffer that takes the value of a batch it does not have.
LEMMA AddedOnce ==
    ASSUME NEW q \in Seq(Value), NEW v \in Value, Capacity >= 1, Capacity \in Nat,
           \A i, j \in 1..Len(q) : q[i].batch = q[j].batch => i = j,
           \A i \in 1..Len(q) : q[i].batch # v.batch,
           NEW r, r = Append(IF Len(q) >= Capacity THEN Tail(q) ELSE q, v)
    PROVE  /\ \A i, j \in 1..Len(r) : r[i].batch = r[j].batch => i = j
           /\ \A i \in 1..Len(r) : r[i] = v \/ \E j \in 1..Len(q) : r[i] = q[j]
<1>1. PICK t : t = IF Len(q) >= Capacity THEN Tail(q) ELSE q
  OBVIOUS
<1>2. PICK n \in {0, 1} :
        /\ t \in Seq(Value) /\ Len(t) = Len(q) - n /\ \A i \in 1..Len(t) : t[i] = q[i + n]
  <2>1. CASE Len(q) >= Capacity
    <3>1. t = Tail(q) /\ q # <<>>
      BY <1>1, <2>1
    <3>2. t \in Seq(Value) /\ Len(t) = Len(q) - 1 /\ \A i \in 1..Len(t) : t[i] = q[i + 1]
      BY <3>1
    <3> QED BY <3>2
  <2>2. CASE ~(Len(q) >= Capacity)
    <3>1. t \in Seq(Value) /\ Len(t) = Len(q) - 0 /\ \A i \in 1..Len(t) : t[i] = q[i + 0]
      BY <1>1, <2>2
    <3> QED BY <3>1
  <2> QED BY <2>1, <2>2
<1>3. /\ Len(t) \in Nat /\ Len(q) \in Nat /\ \A i \in 1..Len(t) : i + n \in 1..Len(q)
      /\ \A i, j \in 1..Len(t) : i + n = j + n => i = j
  BY <1>2
<1>4. /\ \A i \in 1..Len(t) : t[i].batch # v.batch /\ \E j \in 1..Len(q) : t[i] = q[j]
      /\ \A i, j \in 1..Len(t) : t[i].batch = t[j].batch => i = j
  <2>1. ASSUME NEW i \in 1..Len(t) PROVE t[i].batch # v.batch /\ \E j \in 1..Len(q) : t[i] = q[j]
    <3>1. PICK m \in 1..Len(q) : m = i + n /\ t[i] = q[m]
      BY <1>2, <1>3
    <3> QED BY <3>1
  <2>2. ASSUME NEW i \in 1..Len(t), NEW j \in 1..Len(t), t[i].batch = t[j].batch PROVE i = j
    <3>1. PICK m \in 1..Len(q), l \in 1..Len(q) : m = i + n /\ l = j + n /\ t[i] = q[m] /\ t[j] = q[l]
      BY <1>2, <1>3
    <3>2. m = l
      BY <2>2, <3>1
    <3> QED BY <1>3, <3>1, <3>2
  <2> QED BY <2>1, <2>2
<1>5. r = Append(t, v)
  BY <1>1
<1>6. Len(r) = Len(t) + 1 /\ r[Len(t) + 1] = v /\ \A i \in 1..Len(t) : r[i] = t[i]
  BY <1>2, <1>5, Appended
<1>7. \A i \in 1..Len(r) : (i \in 1..Len(t) /\ r[i] = t[i]) \/ (i = Len(t) + 1 /\ r[i] = v)
  BY <1>3, <1>6
<1>8. ASSUME NEW i \in 1..Len(r), NEW j \in 1..Len(r), r[i].batch = r[j].batch PROVE i = j
  <2>1. CASE i \in 1..Len(t) /\ r[i] = t[i]
    BY <1>4, <1>7, <1>8, <2>1
  <2>2. CASE i = Len(t) + 1 /\ r[i] = v
    BY <1>4, <1>7, <1>8, <2>2
  <2> QED BY <1>7, <2>1, <2>2
<1>9. ASSUME NEW i \in 1..Len(r) PROVE r[i] = v \/ \E j \in 1..Len(q) : r[i] = q[j]
  BY <1>4, <1>7
<1> QED BY <1>8, <1>9

\* The value of a batch is added where it was not.
LEMMA AddCount ==
    ASSUME NEW w \in Workers, Inv, CountInv(w), Add(w)
    PROVE  CountInv(w)'
<1>1. PICK b, k, v, x, size :
        /\ b = work[w].buf /\ v = [batch |-> work[w].batch, ts |-> work[w].ts]
        /\ x = [bufs[b] EXCEPT
                   !.values = Append(IF Len(bufs[b].values) >= Capacity THEN Tail(bufs[b].values)
                                     ELSE bufs[b].values, v),
                   !.count = bufs[b].count + 1]
        /\ k = work[w].batch /\ size = bufs[b].size
  OBVIOUS
<1>2. /\ TypeOK /\ work[w] \in WorkState /\ WorkOK(work[w], scan[w].on) /\ work[w].step = "add"
      /\ bufs \in Seq(Buffer) /\ work \in [Workers -> WorkState] /\ scan[w] \in Scan
      /\ ScanOK(scan[w]) /\ UNCHANGED <<scan, published, batches>>
  BY Shapes DEF Inv, TypeOK, Add
<1>3. /\ b \in 1..Len(bufs) /\ bufs[b] \in Buffer /\ work[w].ts \in Stamps /\ k \in 1..MaxBatches
      /\ k \in Nat
  BY <1>1, <1>2, WorkFields, Shapes, BoundsAssumption DEF WorkOK
<1>4. /\ bufs' = [bufs EXCEPT ![b] = x]
      /\ work'[w].step = "pick" /\ work'[w].batch = k /\ work'[w].sizes = work[w].sizes
  BY <1>1, <1>2 DEF Add, WorkState
<1>5. /\ x.size = size /\ x.closed = bufs[b].closed
      /\ x.values = Append(IF Len(bufs[b].values) >= Capacity THEN Tail(bufs[b].values)
                           ELSE bufs[b].values, v)
  BY <1>1, <1>3 DEF Buffer
<1>6. /\ Len(bufs') = Len(bufs) /\ bufs'[b] = x
      /\ \A y \in 1..Len(bufs) : y # b => bufs'[y] = bufs[y]
  BY <1>2, <1>3, <1>4
<1>7. v \in Value /\ v.batch = k
  BY <1>1, <1>3 DEF Value
<1>8. Absent(w, k, size) /\ size \notin work[w].sizes
  BY <1>1, <1>2 DEF CountInv, Fresh
<1>9. OnceIn(x) /\ \A n : Has(x, n) => n = k \/ Has(bufs[b], n)
  <2>1. PICK q, r : q = bufs[b].values /\ r = x.values
    OBVIOUS
  <2>2. /\ q \in Seq(Value) /\ \A i, j \in 1..Len(q) : q[i].batch = q[j].batch => i = j
    BY <1>3, <2>1, BufferFields DEF CountInv, BufsOnce, OnceIn
  <2>3. \A i \in 1..Len(q) : q[i].batch # v.batch
    BY <1>1, <1>3, <1>7, <1>8, <2>1 DEF Absent, Has
  <2>4. Capacity >= 1 /\ Capacity \in Nat
    BY BoundsAssumption
  <2>5. /\ \A i, j \in 1..Len(r) : r[i].batch = r[j].batch => i = j
        /\ \A i \in 1..Len(r) : r[i] = v \/ \E j \in 1..Len(q) : r[i] = q[j]
    <3>1. r = Append(IF Len(q) >= Capacity THEN Tail(q) ELSE q, v)
      BY <1>5, <2>1
    <3> QED BY <1>7, <2>2, <2>3, <2>4, <3>1, AddedOnce
  <2> QED BY <1>7, <2>1, <2>5 DEF OnceIn, Has
<1>10. \A y \in 1..Len(bufs) : bufs'[y].size = bufs[y].size /\ bufs'[y].closed = bufs[y].closed
  BY <1>1, <1>5, <1>6
<1>11. \A y \in 1..Len(bufs) : \A n : Has(bufs'[y], n) => Has(bufs[y], n) \/ (y = b /\ n = k)
  BY <1>6, <1>9
<1>12. Out(w)' = Out(w)
  BY <1>2 DEF Out
<1>13. BufsOnce'
  <2>1. \A y \in 1..Len(bufs') : OnceIn(bufs'[y])
    BY <1>6, <1>9 DEF CountInv, BufsOnce
  <2>2. ASSUME NEW y \in 1..Len(bufs), NEW c \in 1..Len(bufs), NEW n \in Nat,
               bufs'[y].size = bufs'[c].size, Has(bufs'[y], n), Has(bufs'[c], n)
        PROVE  y = c
    <3>1. bufs[y].size = bufs[c].size
      BY <1>10, <2>2
    <3>2. CASE n = k /\ (y = b \/ c = b)
      BY <1>1, <1>8, <1>11, <2>2, <3>1, <3>2 DEF Absent
    <3>3. CASE ~(n = k /\ (y = b \/ c = b))
      BY <1>11, <2>2, <3>1, <3>3 DEF CountInv, BufsOnce
    <3> QED BY <3>2, <3>3
  <2> QED BY <1>6, <2>1, <2>2 DEF BufsOnce
<1>14. OutOnce(w)'
  BY <1>2, <1>12 DEF CountInv, OutOnce
<1>15. Taken(w)'
  <2> SUFFICES ASSUME NEW y \in Out(w), NEW c \in 1..Len(bufs), NEW n \in Nat,
                      y.size = bufs'[c].size, Has(y, n), Has(bufs'[c], n)
               PROVE  bufs'[c].closed /\ ~(scan[w].on /\ scan[w].seen = c)
    BY <1>2, <1>6, <1>12 DEF Taken
  <2>1. Has(bufs[c], n)
    BY <1>1, <1>8, <1>10, <1>11 DEF Absent
  <2> QED BY <1>10, <2>1 DEF CountInv, Taken
<1>16. \A n, z : Absent(w, n, z) /\ ~(n = k /\ z = size) => Absent(w, n, z)'
  BY <1>1, <1>6, <1>10, <1>11, <1>12 DEF Absent
<1>17. Fresh(w)'
  <2>1. ASSUME NEW n \in Nat, NEW z \in Sizes, n > batches' PROVE Absent(w, n, z)'
    <3>1. Absent(w, n, z)
      BY <1>2, <2>1 DEF CountInv, Fresh
    <3>2. n # k
      <4>1. k <= batches /\ batches \in Nat
        BY <1>1, <1>2, BoundsAssumption DEF CountInv, Fresh, TypeOK
      <4> QED BY <1>2, <1>3, <2>1, <4>1
    <3> QED BY <1>16, <3>1, <3>2
  <2>2. \A z \in work'[w].sizes : Absent(w, work[w].batch, z)'
    <3>1. \A z \in work[w].sizes : Absent(w, k, z)
      BY <1>1, <1>2 DEF CountInv, Fresh
    <3> QED BY <1>4, <1>8, <1>16, <3>1
  <2>3. scan'[w].marked => bufs'[scan'[w].seen].closed
    <3>1. ASSUME scan[w].marked PROVE bufs'[scan[w].seen].closed
      <4>1. bufs[scan[w].seen].closed /\ scan[w].seen \in 1..Len(bufs)
        BY <1>2, <3>1, ScanFields, Shapes DEF CountInv, Fresh, ScanOK
      <4> QED BY <1>10, <4>1
    <3> QED BY <1>2, <3>1
  <2>4. work'[w].batch <= batches'
    BY <1>1, <1>2, <1>4 DEF CountInv, Fresh
  <2> QED BY <1>4, <2>1, <2>2, <2>3, <2>4 DEF Fresh
<1> QED BY <1>13, <1>14, <1>15, <1>17 DEF CountInv

\* The steps that CountFrame covers.
LEMMA ScanLookCount ==
    ASSUME NEW w \in Workers, Inv, CountInv(w), NEW s \in Scanners, ScanLook(s)
    PROVE  CountInv(w)'
<1>1. /\ TypeOK /\ w \in Scanners /\ scan \in [Scanners -> Scan] /\ scan[s] \in Scan /\ scan[w] \in Scan
      /\ ScanOK(scan[w]) /\ WorkOK(work[w], scan[w].on) /\ work[w] \in WorkState
      /\ UNCHANGED <<bufs, published, batches, work>> /\ scan[s].seen = 0
  BY Shapes DEF Inv, TypeOK, ScanLook
<1>2. work[w].step = "add" => work[w].buf \in 1..Len(bufs)
  BY <1>1, WorkFields, Shapes DEF WorkOK
<1>3. PICK b \in scan[s].todo :
        scan' = IF bufs[b].closed \/ ~Due(s, b) THEN [scan EXCEPT ![s].todo = @ \ {b}]
                ELSE [scan EXCEPT ![s].seen = b]
  BY DEF ScanLook
<1>4. CASE w # s
  BY <1>1, <1>2, <1>3, <1>4, CountFrame DEF CountInv, Fresh
<1>5. CASE w = s
  <2>1. ~scan[w].marked
    BY <1>1, <1>5 DEF ScanOK
  <2>2. CASE bufs[b].closed \/ ~Due(s, b)
    <3>1. scan'[w] = [scan[w] EXCEPT !.todo = @ \ {b}]
      BY <1>1, <1>3, <1>5, <2>2
    <3>2. /\ scan'[w].found = scan[w].found /\ scan'[w].marked = scan[w].marked
          /\ scan'[w].on = scan[w].on /\ scan'[w].seen = scan[w].seen
      BY <1>1, <3>1 DEF Scan
    <3> QED BY <1>1, <1>2, <2>1, <3>2, CountFrame
  <2>3. CASE ~(bufs[b].closed \/ ~Due(s, b))
    <3>1. scan'[w] = [scan[w] EXCEPT !.seen = b]
      BY <1>1, <1>3, <1>5, <2>3
    <3>2. /\ scan'[w].found = scan[w].found /\ scan'[w].marked = scan[w].marked /\ scan'[w].seen = b
      BY <1>1, <3>1 DEF Scan
    <3> QED BY <1>1, <1>2, <2>1, <2>3, <3>2, CountFrame
  <2> QED BY <2>2, <2>3
<1> QED BY <1>4, <1>5

LEMMA ScanMarkCount ==
    ASSUME NEW w \in Workers, Inv, CountInv(w), NEW s \in Scanners, ScanMark(s)
    PROVE  CountInv(w)'
<1>1. PICK b, x : b = scan[s].seen /\ x = [bufs[b] EXCEPT !.closed = TRUE]
  OBVIOUS
<1>2. /\ TypeOK /\ w \in Scanners /\ scan \in [Scanners -> Scan] /\ scan[s] \in Scan /\ scan[w] \in Scan
      /\ ScanOK(scan[w]) /\ WorkOK(work[w], scan[w].on) /\ work[w] \in WorkState
      /\ UNCHANGED <<published, batches, work>> /\ b # 0 /\ bufs \in Seq(Buffer)
  BY <1>1, Shapes DEF Inv, TypeOK, ScanMark
<1>3. b \in 1..Len(bufs) /\ bufs[b] \in Buffer
  BY <1>1, <1>2, ScanFields, Shapes
<1>4. work[w].step = "add" => work[w].buf \in 1..Len(bufs)
  BY <1>2, WorkFields, Shapes DEF WorkOK
<1>5. x.closed = TRUE /\ x.values = bufs[b].values /\ x.size = bufs[b].size
  BY <1>1, <1>3 DEF Buffer
<1>6. bufs' = [bufs EXCEPT ![b] = x] /\ scan' = [scan EXCEPT ![s].marked = TRUE]
  BY <1>1 DEF ScanMark, Marked
<1>7. /\ Len(bufs') = Len(bufs) /\ bufs'[b] = x
      /\ \A y \in 1..Len(bufs) : y # b => bufs'[y] = bufs[y]
  BY <1>2, <1>3, <1>6
<1>8. \A y \in 1..Len(bufs) :
        /\ bufs'[y].size = bufs[y].size /\ bufs'[y].values = bufs[y].values
        /\ bufs[y].closed => bufs'[y].closed
  BY <1>5, <1>7
<1>9. /\ scan'[w].found = scan[w].found /\ scan'[w].on = scan[w].on /\ scan'[w].seen = scan[w].seen
      /\ scan'[w].marked => scan[w].marked \/ w = s
  BY <1>2, <1>6 DEF Scan
<1>10. scan'[w].marked => bufs'[scan'[w].seen].closed
  <2>1. CASE w = s
    BY <1>1, <1>5, <1>7, <1>9, <2>1
  <2>2. ASSUME scan[w].marked PROVE bufs'[scan'[w].seen].closed
    <3>1. bufs[scan[w].seen].closed /\ scan[w].seen \in 1..Len(bufs)
      BY <1>2, <2>2, ScanFields, Shapes DEF CountInv, Fresh, ScanOK
    <3> QED BY <1>8, <1>9, <3>1
  <2> QED BY <1>9, <2>1, <2>2
<1> QED BY <1>2, <1>4, <1>7, <1>8, <1>9, <1>10, CountFrame

\* The steps of w that start, purge and end, and those that do not concern it.
LEMMA WorkerScansCount ==
    ASSUME NEW w \in Workers, Inv, CountInv(w), WorkerScans(w)
    PROVE  CountInv(w)'
<1>1. /\ TypeOK /\ w \in Scanners /\ scan \in [Scanners -> Scan] /\ work \in [Workers -> WorkState]
      /\ UNCHANGED <<bufs, published, batches>> /\ work[w].step = "pick" /\ work[w] \in WorkState
  BY Shapes DEF Inv, TypeOK, WorkerScans, ScanStart
<1>2. work'[w].step = "scan" /\ work'[w].sizes = work[w].sizes /\ work'[w].batch = work[w].batch
  BY <1>1 DEF WorkerScans, WorkState
<1>3. scan'[w] = [NoScan EXCEPT !.on = TRUE, !.at = now, !.todo = live]
  BY <1>1 DEF WorkerScans, ScanStart
<1>4. scan'[w].seen = 0 /\ ~scan'[w].marked /\ scan'[w].found = {}
  BY <1>3 DEF NoScan
<1>5. \A b \in 1..Len(bufs) : b # 0
  BY <1>1, Shapes
<1> QED BY <1>1, <1>2, <1>4, <1>5, CountFrame

LEMMA PurgeCount ==
    ASSUME NEW w \in Workers, Inv, CountInv(w),
           PurgeStart(w) \/ PurgeLook(w) \/ PurgeDelete(w) \/ PurgeDone(w)
    PROVE  CountInv(w)'
<1>1. /\ TypeOK /\ w \in Scanners /\ scan \in [Scanners -> Scan] /\ work \in [Workers -> WorkState]
      /\ UNCHANGED <<bufs, published, batches>> /\ scan[w] \in Scan /\ work[w] \in WorkState
      /\ ScanOK(scan[w]) /\ WorkOK(work[w], scan[w].on)
  BY Shapes DEF Inv, TypeOK, PurgeStart, PurgeLook, PurgeDelete, PurgeDone
<1>2. CASE PurgeStart(w)
  <2>1. /\ work'[w].step = "purge" /\ work'[w].sizes = work[w].sizes /\ work'[w].batch = work[w].batch
        /\ work[w].step # "idle"
    BY <1>1, <1>2 DEF PurgeStart, WorkState
  <2>2. scan'[w] = [scan[w] EXCEPT !.on = FALSE, !.at = 0, !.todo = live] /\ ~scan[w].marked
    BY <1>1, <1>2 DEF PurgeStart, Scanned, ScanOK
  <2>3. ~scan'[w].on /\ ~scan'[w].marked /\ scan'[w].found = scan[w].found
    BY <1>1, <2>2 DEF Scan
  <2> QED BY <1>1, <2>1, <2>3, CountFrame
<1>3. CASE PurgeLook(w) \/ PurgeDelete(w)
  <2>1. UNCHANGED work /\ work[w].step = "purge" /\ ~scan[w].on /\ ~scan[w].marked
    BY <1>1, <1>3 DEF PurgeLook, PurgeDelete, ScanOK, WorkOK
  <2>2. PICK td, sn : scan'[w] = [scan[w] EXCEPT !.todo = td, !.seen = sn]
    <3>1. CASE PurgeDelete(w)
      <4>1. scan'[w] = [scan[w] EXCEPT !.todo = scan[w].todo \ {scan[w].seen}, !.seen = 0]
        BY <1>1, <3>1 DEF PurgeDelete
      <4> QED BY <4>1
    <3>2. CASE PurgeLook(w)
      <4>1. PICK b \in scan[w].todo :
              scan' = IF bufs[b].closed THEN [scan EXCEPT ![w].seen = b]
                      ELSE [scan EXCEPT ![w].todo = @ \ {b}]
        BY <3>2 DEF PurgeLook
      <4>2. \/ scan'[w] = [scan[w] EXCEPT !.todo = scan[w].todo, !.seen = b]
            \/ scan'[w] = [scan[w] EXCEPT !.todo = scan[w].todo \ {b}, !.seen = scan[w].seen]
        BY <1>1, <4>1 DEF Scan
      <4> QED BY <4>2
    <3> QED BY <1>3, <3>1, <3>2
  <2>3. ~scan'[w].on /\ ~scan'[w].marked /\ scan'[w].found = scan[w].found
    BY <1>1, <2>1, <2>2 DEF Scan
  <2> QED BY <1>1, <2>1, <2>3, CountFrame
<1>4. CASE PurgeDone(w)
  <2>1. /\ work'[w].step = "rest" /\ work'[w].sizes = work[w].sizes /\ work'[w].batch = work[w].batch
        /\ work[w].step # "idle" /\ UNCHANGED scan
    BY <1>1, <1>4 DEF PurgeDone, WorkState
  <2> QED BY <1>1, <2>1, CountFrame DEF CountInv, Fresh
<1> QED BY <1>2, <1>3, <1>4

LEMMA OtherCount ==
    ASSUME NEW w \in Workers, Inv, CountInv(w), scan'[w] = scan[w],
           UNCHANGED <<bufs, work, published, batches>>
    PROVE  CountInv(w)'
<1>1. TypeOK /\ WorkOK(work[w], scan[w].on) /\ work[w] \in WorkState
  BY Shapes DEF Inv
<1>2. work[w].step = "add" => work[w].buf \in 1..Len(bufs)
  BY <1>1, WorkFields, Shapes DEF WorkOK
<1> QED BY <1>2, CountFrame DEF CountInv, Fresh

LEMMA CountStep ==
    ASSUME NEW w, Workers = {w}, MaxRetries = 0, Inv, CountInv(w), [Next]_vars
    PROVE  CountInv(w)'
<1>1. w \in Workers /\ Ticker # w /\ Ticker \in Scanners /\ w \in Scanners /\ Scanners = {w, Ticker}
  BY TickerAssumption DEF Scanners
<1>2. scan \in [Scanners -> Scan] /\ work \in [Workers -> WorkState] /\ work[w].attempt = 0
  <2>1. TypeOK /\ work[w] \in WorkState
    BY <1>1, Shapes DEF Inv
  <2> QED BY <2>1, WorkFields DEF TypeOK
<1>3. ASSUME Work(w) PROVE CountInv(w)'
  <2>1. CASE Succeed(w)
    <3>1. scan'[w] = NoScan /\ work'[w] = NoWork
      BY <1>1, <1>2, <2>1 DEF Succeed
    <3> QED BY <1>1, <2>1, <3>1, RestCount DEF Succeed
  <2>2. CASE Fail(w)
    <3>1. ~MayRetry(w)
      BY <1>2 DEF MayRetry
    <3>2. scan'[w] = NoScan /\ work'[w] = NoWork
      BY <1>1, <1>2, <2>2, <3>1 DEF Fail
    <3>3. PICK some \in SUBSET Aggregates(w) : published' = published \cup some
      BY <2>2 DEF Fail
    <3> QED BY <1>1, <2>2, <3>2, <3>3, RestCount DEF Fail
  <2> QED BY <1>1, <1>3, <2>1, <2>2, BeginCount, PickCount, AddCount, WorkerScansCount, PurgeCount
          DEF Work
<1>4. ASSUME NEW s \in Scanners, ScanLook(s) \/ ScanMark(s) \/ ScanCopy(s) PROVE CountInv(w)'
  <2>1. CASE ScanCopy(s)
    <3>1. CASE s = w
      BY <1>1, <2>1, <3>1, CopyCount
    <3>2. CASE s # w
      <4>1. scan'[w] = scan[w]
        BY <1>1, <1>2, <2>1, <3>2 DEF ScanCopy
      <4> QED BY <1>1, <2>1, <4>1, OtherCount DEF ScanCopy
    <3> QED BY <3>1, <3>2
  <2> QED BY <1>1, <1>4, <2>1, ScanLookCount, ScanMarkCount
<1>5. CASE TickerScans \/ TickerDone
  <2>1. scan'[w] = scan[w]
    BY <1>1, <1>2, <1>5 DEF TickerScans, ScanStart, TickerDone
  <2> QED BY <1>1, <1>5, <2>1, OtherCount DEF TickerScans, ScanStart, TickerDone
<1>6. CASE PurgeStale \/ Snapshot \/ Tick \/ UNCHANGED vars
  BY <1>1, <1>6, OtherCount DEF PurgeStale, Snapshot, Tick, vars
<1>7. CASE Restart
  BY <1>1, <1>7, RestartCount
<1> QED BY <1>1, <1>3, <1>4, <1>5, <1>6, <1>7 DEF Next

LEMMA CountInit ==
    ASSUME NEW w \in Workers, Init
    PROVE  CountInv(w)
<1>1. /\ 1..Len(bufs) = {} /\ published = {} /\ work[w] = NoWork /\ scan[w] = NoScan
  BY DEF Init, Scanners
<1>2. work[w].step = "idle" /\ scan[w].found = {} /\ ~scan[w].marked
  BY <1>1 DEF NoWork, NoScan
<1>3. Out(w) = {}
  BY <1>1, <1>2 DEF Out
<1> QED BY <1>1, <1>2, <1>3 DEF CountInv, BufsOnce, OutOnce, Taken, Fresh, Absent

\* With one worker and no retry what a batch contributes to the windows of a
\* size is published at most once, whatever the ticker, the purges, the failures
\* of later stages and crashes do (aggregateWindow, processMetricBatch).  Both
\* hypotheses are needed: TLC shows two workers, or a retry, publish twice.
THEOREM BatchCountsOnce ==
    ASSUME NEW w, Workers = {w}, MaxRetries = 0
    PROVE  Spec => []CountedOnce
<1>1. Init => CountInv(w)
  BY CountInit
<1>2. Inv /\ CountInv(w) /\ [Next]_vars => CountInv(w)'
  BY CountStep
<1>3. Inv /\ CountInv(w) => CountedOnce
  <2> SUFFICES ASSUME Inv, CountInv(w), NEW k \in 1..MaxBatches, NEW size \in Sizes,
                      NEW o1 \in Occurrences(k, size), NEW o2 \in Occurrences(k, size)
               PROVE  o1 = o2
    BY DEF CountedOnce
  <2>1. /\ o1 \in published \X (1..Capacity) /\ o1[1].size = size
        /\ o1[2] <= Len(o1[1].values) /\ o1[1].values[o1[2]].batch = k
        /\ o2 \in published \X (1..Capacity) /\ o2[1].size = size
        /\ o2[2] <= Len(o2[1].values) /\ o2[1].values[o2[2]].batch = k
    BY DEF Occurrences
  <2>2. PICK p \in published, i \in 1..Capacity : o1 = <<p, i>>
    BY <2>1
  <2>3. PICK q \in published, j \in 1..Capacity : o2 = <<q, j>>
    BY <2>1
  <2>4. /\ p.size = q.size /\ p.values[i].batch = k /\ q.values[j].batch = k
        /\ i <= Len(p.values) /\ j <= Len(q.values)
    BY <2>1, <2>2, <2>3
  <2>5. Len(p.values) \in Nat /\ Len(q.values) \in Nat /\ k \in Nat
    BY BoundsAssumption DEF Inv, TypeOK
  <2>6. i \in 1..Len(p.values) /\ j \in 1..Len(q.values)
    BY <2>4, <2>5
  <2>7. Has(p, k) /\ Has(q, k)
    BY <2>4, <2>6 DEF Has
  <2>8. p = q
    BY <2>4, <2>5, <2>7 DEF CountInv, OutOnce
  <2>9. OnceIn(p)
    BY DEF CountInv, OutOnce, Out
  <2>10. i = j
    BY <2>4, <2>6, <2>8, <2>9 DEF OnceIn
  <2> QED BY <2>2, <2>3, <2>8, <2>10
<1> QED BY <1>1, <1>2, <1>3, WindowsInvariant, PTL DEF Spec
=============================================================================
