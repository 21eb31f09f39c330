--------------------------- MODULE StreamConsumer ---------------------------
(***************************************************************************)
(* The consumer of the pipeline (cluster/internal/stream/consumer.go): a   *)
(* poll loop that hands the records of a partition to a pool of workers    *)
(* over a bounded channel, retries with backoff, an optional dead letter   *)
(* queue, and the shutdown that Pipeline.Stop and Consumer.Close run in    *)
(* another goroutine.                                                      *)
(*                                                                         *)
(* The broker and its client are external: a fetch returns some records    *)
(* from the position on, and returns without any when the context is       *)
(* cancelled; it may still return buffered records then.  The client       *)
(* commits, every second and at the end, what was marked.  A crash loses   *)
(* what is in memory and the next life reads on from the committed offset. *)
(*                                                                         *)
(* A record is its offset.  A handler returns or fails; what it does is    *)
(* the subject of MetricWindows.                                           *)
(***************************************************************************)
EXTENDS Integers, Sequences, FiniteSets

CONSTANTS
    Workers,      \* the worker pool
    LastRecord,   \* the offsets of the partition are 1 .. LastRecord
    FetchSize,    \* bound of the model: records of one fetch
    ChanSize,     \* capacity of workCh
    MaxRetries,   \* maxRetries
    HasDLQ,       \* whether a DLQ producer is configured
    PollPatience, \* whether the drain timeout suffices for the poll loop
    WorkPatience, \* whether it suffices for the workers
    MaxCrashes,   \* bound of the model: crashes
    NoRecord

Records == 1 .. LastRecord

ASSUME SizesAssumption ==
    /\ LastRecord \in Nat /\ FetchSize \in Nat \ {0} /\ ChanSize \in Nat \ {0}
    /\ MaxRetries \in Nat /\ MaxCrashes \in Nat
ASSUME SwitchesAssumption ==
    HasDLQ \in BOOLEAN /\ PollPatience \in BOOLEAN /\ WorkPatience \in BOOLEAN
ASSUME NoRecordAssumption == NoRecord \notin Records
\* WithWorkerPool and the default of NewConsumerWithDLQ give at least one.
ASSUME WorkersAssumption == Workers # {}

VARIABLES
    pos,        \* offset of the next fetch
    loop,       \* where the poll loop is
    fetched,    \* records of the fetch that are not sent yet
    workCh,     \* the work channel
    closedCh,   \* whether it is closed
    work,       \* what each worker does
    cancelled,  \* the context
    draining,
    closer,     \* where Stop and Close are
    committed,  \* offset up to which the group has committed
    marked,     \* records marked for commit
    finished,   \* records of this life that a worker is done with, and how
    timedOut,   \* whether a drain timeout expired
    crashes,
    past        \* ghost: records that some life has finished

clientVars == <<committed, marked>>
vars == <<pos, loop, fetched, workCh, closedCh, work, cancelled, draining, closer,
          committed, marked, finished, timedOut, crashes, past>>

Idle == [at |-> "idle", record |-> NoRecord, attempt |-> 0]
Outcomes == {"none", "handled", "dlq", "dropped"}

Init ==
    /\ pos = 1 /\ loop = "top" /\ fetched = <<>>
    /\ workCh = <<>> /\ closedCh = FALSE
    /\ work = [w \in Workers |-> Idle]
    /\ cancelled = FALSE /\ draining = FALSE /\ closer = "running"
    /\ committed = 1 /\ marked = {}
    /\ finished = [r \in Records |-> "none"]
    /\ timedOut = FALSE /\ crashes = 0 /\ past = {}

-----------------------------------------------------------------------------
(* The poll loop.                                                          *)

\* The select and the test of draining.
LoopTop ==
    /\ loop = "top"
    /\ loop' = IF cancelled \/ draining THEN "exited" ELSE "poll"
    /\ UNCHANGED <<pos, fetched, workCh, closedCh, work, cancelled, draining, closer,
                   clientVars, finished, timedOut, crashes, past>>

\* Mutant: what was fetched counts as consumed.
MarksFetched(batch) == marked \cup {batch[i] : i \in 1 .. Len(batch)}

\* The records marked once batch is fetched: AutoCommitMarks leaves marking to
\* the program, which does not do it.
Marks(batch) == marked

\* PollFetches returns the next n records.
Fetch(n) ==
    LET batch == [i \in 1 .. n |-> pos + i - 1] IN
    /\ loop = "poll" /\ closer # "closed"
    /\ pos + n - 1 <= LastRecord
    /\ fetched' = batch /\ pos' = pos + n /\ loop' = "dispatch"
    /\ marked' = Marks(batch)
    /\ UNCHANGED <<workCh, closedCh, work, cancelled, draining, closer, committed,
                   finished, timedOut, crashes, past>>

\* PollFetches returns nothing: the context is cancelled or the client closed.
FetchNothing ==
    /\ loop = "poll" /\ (cancelled \/ closer = "closed")
    /\ loop' = IF closer = "closed" THEN "exited" ELSE "top"
    /\ UNCHANGED <<pos, fetched, workCh, closedCh, work, cancelled, draining, closer,
                   clientVars, finished, timedOut, crashes, past>>

\* Mutant: a record that finds the channel full is given up.
DispatchOrDrop ==
    /\ loop = "dispatch" /\ fetched # <<>> /\ ~closedCh
    /\ workCh' = IF Len(workCh) < ChanSize THEN Append(workCh, Head(fetched)) ELSE workCh
    /\ fetched' = Tail(fetched)
    /\ UNCHANGED <<pos, loop, closedCh, work, cancelled, draining, closer, clientVars,
                   finished, timedOut, crashes, past>>

\* Mutant: the send does not wait for room.
DispatchUnbounded ==
    /\ loop = "dispatch" /\ fetched # <<>> /\ ~closedCh
    /\ workCh' = Append(workCh, Head(fetched)) /\ fetched' = Tail(fetched)
    /\ UNCHANGED <<pos, loop, closedCh, work, cancelled, draining, closer, clientVars,
                   finished, timedOut, crashes, past>>

\* A record is sent: the send waits while the channel is full, and panics, and
\* the process with it, if the channel is closed.
Dispatch ==
    /\ loop = "dispatch" /\ fetched # <<>>
    /\ closedCh \/ Len(workCh) < ChanSize
    /\ IF closedCh THEN loop' = "panicked" /\ UNCHANGED <<workCh, fetched>>
         ELSE /\ workCh' = Append(workCh, Head(fetched)) /\ fetched' = Tail(fetched)
              /\ UNCHANGED loop
    /\ UNCHANGED <<pos, closedCh, work, cancelled, draining, closer, clientVars,
                   finished, timedOut, crashes, past>>

Dispatched ==
    /\ loop = "dispatch" /\ fetched = <<>>
    /\ loop' = "top"
    /\ UNCHANGED <<pos, fetched, workCh, closedCh, work, cancelled, draining, closer,
                   clientVars, finished, timedOut, crashes, past>>

-----------------------------------------------------------------------------
(* The workers.                                                            *)

Alive == loop # "panicked"
WorkUnchanged ==
    UNCHANGED <<pos, loop, fetched, closedCh, cancelled, draining, closer, clientVars,
                timedOut, crashes>>

\* Mutant: a worker leaves as soon as the context is cancelled.
TakeOrQuit(w) ==
    /\ Alive /\ work[w].at = "idle"
    /\ \/ /\ workCh # <<>> /\ ~cancelled
          /\ work' = [work EXCEPT ![w] = [at |-> "run", record |-> Head(workCh),
                                          attempt |-> 0]]
          /\ workCh' = Tail(workCh)
       \/ /\ cancelled
          /\ work' = [work EXCEPT ![w] = [Idle EXCEPT !.at = "stopped"]] /\ UNCHANGED workCh
    /\ WorkUnchanged /\ UNCHANGED <<finished, past>>

\* The range loop: the next record, or the end of a closed, empty channel.
Take(w) ==
    /\ Alive /\ work[w].at = "idle"
    /\ \/ /\ workCh # <<>>
          /\ work' = [work EXCEPT ![w] = [at |-> "run", record |-> Head(workCh),
                                          attempt |-> 0]]
          /\ workCh' = Tail(workCh)
       \/ /\ workCh = <<>> /\ closedCh
          /\ work' = [work EXCEPT ![w] = [Idle EXCEPT !.at = "stopped"]] /\ UNCHANGED workCh
    /\ WorkUnchanged /\ UNCHANGED <<finished, past>>

\* Worker w is done with its record.
Finish(w, outcome) ==
    /\ finished' = [finished EXCEPT ![work[w].record] = outcome]
    /\ past' = past \cup {work[w].record}
    /\ work' = [work EXCEPT ![w] = Idle]

\* The handler returns without an error.
HandleOk(w) ==
    /\ Alive /\ work[w].at = "run"
    /\ Finish(w, "handled")
    /\ WorkUnchanged /\ UNCHANGED workCh

\* No attempt is left after attempt n.
LastAttempt(n) == n >= MaxRetries

\* The handler fails: another attempt, or the DLQ.
HandleFails(w) ==
    /\ Alive /\ work[w].at = "run"
    /\ work' = [work EXCEPT ![w].at = IF LastAttempt(work[w].attempt) THEN "dlq"
                                                                      ELSE "retry",
                            ![w].attempt = @ + 1]
    /\ WorkUnchanged /\ UNCHANGED <<workCh, finished, past>>

\* The next attempt: while draining there is none, otherwise the backoff.
Retry(w) ==
    /\ Alive /\ work[w].at = "retry"
    /\ work' = [work EXCEPT ![w].at = IF draining THEN "dlq" ELSE "backoff"]
    /\ WorkUnchanged /\ UNCHANGED <<workCh, finished, past>>

\* The backoff ends with its timer or with the context.
Backoff(w) ==
    /\ Alive /\ work[w].at = "backoff"
    /\ \/ work' = [work EXCEPT ![w].at = "run"]
       \/ cancelled /\ work' = [work EXCEPT ![w].at = "dlq"]
    /\ WorkUnchanged /\ UNCHANGED <<workCh, finished, past>>

\* publishToDLQ: without a producer, or if it fails, the record is dropped.
PublishToDLQ(w) ==
    /\ Alive /\ work[w].at = "dlq"
    /\ \/ HasDLQ /\ Finish(w, "dlq")
       \/ Finish(w, "dropped")
    /\ WorkUnchanged /\ UNCHANGED workCh

-----------------------------------------------------------------------------
(* Pipeline.Stop and Consumer.Close.                                       *)

CloseUnchanged ==
    UNCHANGED <<pos, loop, fetched, workCh, work, finished, crashes, past>>

\* Stop cancels the context of the pipeline, from which the consumer's comes.
StopCancels ==
    /\ Alive /\ closer = "running"
    /\ cancelled' = TRUE /\ closer' = "close"
    /\ CloseUnchanged /\ UNCHANGED <<closedCh, draining, clientVars, timedOut>>

\* Close: draining, the consumer's own cancel.
CloseStarts ==
    /\ Alive /\ closer = "close"
    /\ draining' = TRUE /\ closer' = "wait_loop"
    /\ CloseUnchanged /\ UNCHANGED <<closedCh, cancelled, clientVars, timedOut>>

\* Mutant: the poll loop is not waited for.
CloseAtOnce ==
    /\ Alive /\ closer = "wait_loop"
    /\ closedCh' = TRUE /\ closer' = "wait_workers"
    /\ CloseUnchanged /\ UNCHANGED <<timedOut, cancelled, draining, clientVars>>

\* The poll loop has left, or the drain timeout is over: the channel is closed.
CloseChannel ==
    /\ Alive /\ closer = "wait_loop"
    /\ \/ loop = "exited" /\ UNCHANGED timedOut
       \/ ~PollPatience /\ loop # "exited" /\ timedOut' = TRUE
    /\ closedCh' = TRUE /\ closer' = "wait_workers"
    /\ CloseUnchanged /\ UNCHANGED <<cancelled, draining, clientVars>>

WorkersStopped == \A w \in Workers : work[w].at = "stopped"

\* Mutant: the workers are not waited for.
NoWaitForWorkers ==
    /\ Alive /\ closer = "wait_workers"
    /\ closer' = "commit"
    /\ CloseUnchanged /\ UNCHANGED <<closedCh, cancelled, draining, clientVars, timedOut>>

\* The workers have left, or the second drain timeout is over.
WaitWorkers ==
    /\ Alive /\ closer = "wait_workers"
    /\ \/ WorkersStopped /\ UNCHANGED timedOut
       \/ ~WorkPatience /\ ~WorkersStopped /\ timedOut' = TRUE
    /\ closer' = "commit"
    /\ CloseUnchanged /\ UNCHANGED <<closedCh, cancelled, draining, clientVars>>

\* The offset below which every record is marked.
MarkedOffset ==
    CHOOSE n \in committed .. LastRecord + 1 :
        /\ committed .. (n - 1) \subseteq marked
        /\ n \notin marked

\* CommitMarkedOffsets, which may fail, and the close of the client.
CloseClient ==
    /\ Alive /\ closer = "commit"
    /\ committed' \in {committed, MarkedOffset}
    /\ closer' = "closed"
    /\ CloseUnchanged /\ UNCHANGED <<closedCh, cancelled, draining, marked, timedOut>>

-----------------------------------------------------------------------------
\* The client commits what is marked once a second.
AutoCommit ==
    /\ Alive /\ closer # "closed"
    /\ committed' = MarkedOffset
    /\ UNCHANGED <<pos, loop, fetched, workCh, closedCh, work, cancelled, draining, closer,
                   marked, finished, timedOut, crashes, past>>

\* The process dies and a new one starts from the committed offset.
Crash ==
    /\ crashes < MaxCrashes /\ crashes' = crashes + 1
    /\ pos' = committed /\ loop' = "top" /\ fetched' = <<>>
    /\ workCh' = <<>> /\ closedCh' = FALSE
    /\ work' = [w \in Workers |-> Idle]
    /\ cancelled' = FALSE /\ draining' = FALSE /\ closer' = "running"
    /\ marked' = {} /\ finished' = [r \in Records |-> "none"]
    /\ timedOut' = FALSE
    /\ UNCHANGED <<committed, past>>

Loop ==
    \/ LoopTop \/ (\E n \in 1 .. FetchSize : Fetch(n)) \/ FetchNothing
    \/ Dispatch \/ Dispatched

Worker(w) ==
    \/ Take(w) \/ HandleOk(w) \/ HandleFails(w) \/ Retry(w) \/ Backoff(w) \/ PublishToDLQ(w)

Close == CloseStarts \/ CloseChannel \/ WaitWorkers \/ CloseClient

Next ==
    \/ Loop \/ (\E w \in Workers : Worker(w))
    \/ StopCancels \/ Close \/ AutoCommit \/ Crash

Spec == Init /\ [][Next]_vars

\* The goroutines run, and a handler returns.
FairSpec ==
    Spec /\ WF_vars(Loop) /\ (\A w \in Workers : WF_vars(Worker(w))) /\ WF_vars(Close)

-----------------------------------------------------------------------------
(* Properties.                                                             *)

TypeOK ==
    /\ pos \in 1 .. LastRecord + 1
    /\ loop \in {"top", "poll", "dispatch", "exited", "panicked"}
    /\ fetched \in Seq(Records) /\ workCh \in Seq(Records) /\ Len(workCh) <= ChanSize
    /\ work \in [Workers -> [at : {"idle", "run", "retry", "backoff", "dlq", "stopped"},
                             record : Records \cup {NoRecord},
                             attempt : 0 .. MaxRetries + 1]]
    /\ closer \in {"running", "close", "wait_loop", "wait_workers", "commit", "closed"}
    /\ committed \in 1 .. LastRecord + 1 /\ marked \subseteq Records
    /\ finished \in [Records -> Outcomes] /\ past \subseteq Records
    /\ crashes \in 0 .. MaxCrashes
    /\ {closedCh, cancelled, draining, timedOut} \subseteq BOOLEAN

\* Where record r is: waiting to be sent, in the channel, at a worker.
Places(r) ==
    {<<"fetched", i>> : i \in {j \in 1 .. Len(fetched) : fetched[j] = r}}
        \cup {<<"chan", i>> : i \in {j \in 1 .. Len(workCh) : workCh[j] = r}}
        \cup {<<"worker", w>> : w \in {v \in Workers : work[v].record = r}}

\* Every record fetched in this life is in one place or finished, and never
\* both (the hand-over from the poll loop to the workers in Start, and
\* processRecord): none is lost or processed twice, whatever Close does.
HandedOverOnce ==
    \A r \in Records :
        IF r \in committed .. (pos - 1) \/ Places(r) # {} \/ finished[r] # "none"
          THEN Cardinality(Places(r)) = IF finished[r] = "none" THEN 1 ELSE 0
          ELSE TRUE

\* The poll loop never sends on the closed channel, as long as it leaves before
\* the drain timeout (Start and Close).
NoSendOnClosed == loop # "panicked"

\* When Close returns and no timeout expired, every record that was fetched is
\* handled, in the DLQ or dropped (Close, the range loop of the workers).
DrainComplete ==
    closer = "closed" /\ ~timedOut => \A r \in Records : Places(r) = {}

\* Below the committed offset every record has been finished by some life
\* (AutoCommitMarks, Close): a crash never skips a record.
CommittedFinished == \A r \in 1 .. (committed - 1) : r \in past

\* Once Stop is called Close returns, unless the process crashes (Close, the
\* poll loop and the workers wait for each other).
CloseReturns == (closer # "running") ~> (closer = "closed" \/ closer = "running")

(* What comments say and the code does not keep.                           *)

\* "commits final marked offsets": what was processed before a clean shutdown
\* is not processed again.
CloseCommits ==
    closer = "closed" /\ ~timedOut => \A r \in Records : finished[r] # "none" => r < committed
=============================================================================
