------------------------ MODULE StreamConsumerProofs ------------------------
(***************************************************************************)
(* Theorems about StreamConsumer, for every number of workers, records and *)
(* retries, every size of the channel and of the fetches, and any crashes. *)
(***************************************************************************)
EXTENDS StreamConsumer, FiniteSetTheorems, TLAPS

WorkType == [at : {"idle", "run", "retry", "backoff", "dlq", "stopped"},
             record : Records \cup {NoRecord}, attempt : 0 .. MaxRetries + 1]

\* A worker has a record exactly while it works on one, the attempts it has
\* left bound their number, and it stops only at the end of a closed, empty
\* channel.
WorkerOK(w) ==
    /\ work[w].at \in {"idle", "stopped"} <=> work[w].record = NoRecord
    /\ work[w].at \in {"run", "retry", "backoff"} => work[w].attempt <= MaxRetries
    /\ work[w].at = "stopped" => closedCh /\ workCh = <<>>

\* What Close has waited for at each of its steps.
Closing ==
    /\ loop \in {"top", "poll", "exited"} => fetched = <<>>
    /\ closedCh <=> closer \in {"wait_workers", "commit", "closed"}
    /\ closedCh /\ (~timedOut \/ PollPatience) => loop = "exited"
    /\ closer \in {"commit", "closed"} /\ ~timedOut => WorkersStopped
    /\ loop = "panicked" => closedCh

\* The program marks nothing, so nothing is committed.
NothingMarked == marked = {} /\ committed = 1

\* The inductive invariant.
Inv ==
    /\ TypeOK
    /\ NothingMarked
    /\ Closing
    /\ \A w \in Workers : WorkerOK(w)

LEMMA IdleWork ==
    /\ Idle \in WorkType /\ Idle.at = "idle" /\ Idle.record = NoRecord /\ Idle.attempt = 0
    /\ [Idle EXCEPT !.at = "stopped"] \in WorkType
    /\ [Idle EXCEPT !.at = "stopped"].at = "stopped"
    /\ [Idle EXCEPT !.at = "stopped"].record = NoRecord
BY SizesAssumption DEF Idle, WorkType

LEMMA WorkFields ==
    ASSUME NEW c \in WorkType
    PROVE  /\ c.at \in {"idle", "run", "retry", "backoff", "dlq", "stopped"}
           /\ c.record \in Records \cup {NoRecord} /\ c.attempt \in 0 .. MaxRetries + 1
BY DEF WorkType

LEMMA InitInv == Init => Inv
<1> SUFFICES ASSUME Init PROVE Inv
  OBVIOUS
<1>1. work \in [Workers -> WorkType]
  BY IdleWork DEF Init
<1>2. TypeOK
  <2>1. pos \in 1 .. LastRecord + 1 /\ committed \in 1 .. LastRecord + 1
        /\ crashes \in 0 .. MaxCrashes
    BY SizesAssumption DEF Init
  <2>2. fetched \in Seq(Records) /\ workCh \in Seq(Records) /\ Len(workCh) <= ChanSize
    BY SizesAssumption DEF Init
  <2>3. finished \in [Records -> Outcomes]
    BY DEF Init, Outcomes
  <2>4. {closedCh, cancelled, draining, timedOut} \subseteq BOOLEAN
    BY DEF Init
  <2> QED BY <1>1, <2>1, <2>2, <2>3, <2>4 DEF Init, TypeOK, WorkType
<1>3. NothingMarked /\ Closing
  BY DEF Init, NothingMarked, Closing
<1>4. \A w \in Workers : WorkerOK(w)
  BY IdleWork, SizesAssumption DEF Init, WorkerOK
<1> QED BY <1>2, <1>3, <1>4 DEF Inv

-----------------------------------------------------------------------------
(* The poll loop.                                                          *)

\* A step that leaves the workers, the channel's end and the client alone.
LEMMA WorkersKept ==
    ASSUME Inv, UNCHANGED <<work, closedCh>>, workCh = <<>> /\ closedCh => workCh' = <<>>
    PROVE  /\ \A w \in Workers : WorkerOK(w)'
           /\ WorkersStopped' = WorkersStopped
BY DEF Inv, WorkerOK, WorkersStopped

LEMMA LoopTopInv ==
    ASSUME Inv, LoopTop
    PROVE  Inv'
<1> USE DEF LoopTop, clientVars
<1>1. TypeOK'
  BY DEF Inv, TypeOK
<1>2. /\ \A w \in Workers : WorkerOK(w)'
      /\ WorkersStopped' = WorkersStopped
  BY WorkersKept
<1>3. Closing' /\ NothingMarked'
  BY <1>2 DEF Inv, Closing, NothingMarked
<1> QED BY <1>1, <1>2, <1>3 DEF Inv

LEMMA FetchInv ==
    ASSUME Inv, NEW n \in 1 .. FetchSize, Fetch(n)
    PROVE  Inv'
<1> DEFINE batch == [i \in 1 .. n |-> pos + i - 1]
<1>1. pos \in Nat \ {0} /\ n \in Nat \ {0} /\ pos + n - 1 <= LastRecord /\ LastRecord \in Nat
  BY SizesAssumption DEF Inv, TypeOK, Fetch
<1>2. batch \in Seq(Records)
  <2>1. \A i \in 1 .. n : pos + i - 1 \in Records
    BY <1>1 DEF Records
  <2> QED BY <1>1, <2>1
<1>3. pos' \in 1 .. LastRecord + 1
  BY <1>1 DEF Fetch
<1>4. fetched' = batch /\ marked' = marked
  BY DEF Fetch, Marks
<1> HIDE DEF batch
<1>5. TypeOK'
  BY <1>2, <1>3, <1>4 DEF Inv, TypeOK, Fetch
<1>6. /\ \A w \in Workers : WorkerOK(w)'
      /\ WorkersStopped' = WorkersStopped
  BY WorkersKept DEF Fetch
<1>7. Closing' /\ NothingMarked'
  BY <1>4, <1>6 DEF Inv, Closing, NothingMarked, Fetch
<1> QED BY <1>5, <1>6, <1>7 DEF Inv

LEMMA FetchNothingInv ==
    ASSUME Inv, FetchNothing
    PROVE  Inv'
<1> USE DEF FetchNothing, clientVars
<1>1. TypeOK'
  BY DEF Inv, TypeOK
<1>2. /\ \A w \in Workers : WorkerOK(w)'
      /\ WorkersStopped' = WorkersStopped
  BY WorkersKept
<1>3. Closing' /\ NothingMarked'
  BY <1>2 DEF Inv, Closing, NothingMarked
<1> QED BY <1>1, <1>2, <1>3 DEF Inv

LEMMA DispatchInv ==
    ASSUME Inv, Dispatch
    PROVE  Inv'
<1> USE DEF Dispatch, clientVars
<1>1. fetched \in Seq(Records) /\ workCh \in Seq(Records) /\ fetched # <<>>
      /\ Len(workCh) \in Nat /\ Len(workCh) <= ChanSize /\ ChanSize \in Nat
  BY SizesAssumption DEF Inv, TypeOK
<1>2. fetched' \in Seq(Records) /\ workCh' \in Seq(Records) /\ Len(workCh') <= ChanSize
  <2>1. CASE closedCh
    BY <1>1, <2>1
  <2>2. CASE ~closedCh
    <3>1. Head(fetched) \in Records /\ Tail(fetched) \in Seq(Records)
      BY <1>1
    <3>2. Len(Append(workCh, Head(fetched))) = Len(workCh) + 1
          /\ Append(workCh, Head(fetched)) \in Seq(Records)
      BY <1>1, <3>1
    <3>3. Len(workCh) + 1 <= ChanSize
      BY <1>1, <2>2
    <3> QED BY <2>2, <3>1, <3>2, <3>3
  <2> QED BY <2>1, <2>2
<1>3. TypeOK'
  BY <1>2 DEF Inv, TypeOK
<1>4. /\ \A w \in Workers : WorkerOK(w)'
      /\ WorkersStopped' = WorkersStopped
  BY WorkersKept
<1>5. Closing' /\ NothingMarked'
  BY <1>4 DEF Inv, Closing, NothingMarked
<1> QED BY <1>3, <1>4, <1>5 DEF Inv

LEMMA DispatchedInv ==
    ASSUME Inv, Dispatched
    PROVE  Inv'
<1> USE DEF Dispatched, clientVars
<1>1. TypeOK'
  BY DEF Inv, TypeOK
<1>2. /\ \A w \in Workers : WorkerOK(w)'
      /\ WorkersStopped' = WorkersStopped
  BY WorkersKept
<1>3. Closing' /\ NothingMarked'
  BY <1>2 DEF Inv, Closing, NothingMarked
<1> QED BY <1>1, <1>2, <1>3 DEF Inv

-----------------------------------------------------------------------------
(* The workers.                                                            *)

\* One worker that has not stopped changes, to a state that fits.
LEMMA OneWorker ==
    ASSUME Inv, NEW w \in Workers, NEW c \in WorkType,
           work[w].at # "stopped", work' = [work EXCEPT ![w] = c], WorkUnchanged,
           workCh' \in Seq(Records), Len(workCh') <= ChanSize,
           workCh = <<>> => workCh' = <<>>,
           finished' \in [Records -> Outcomes], past' \subseteq Records,
           c.at \in {"idle", "stopped"} <=> c.record = NoRecord,
           c.at \in {"run", "retry", "backoff"} => c.attempt <= MaxRetries,
           c.at = "stopped" => closedCh /\ workCh' = <<>>
    PROVE  Inv'
<1> USE DEF WorkUnchanged, clientVars
<1>1. work \in [Workers -> WorkType]
  BY DEF Inv, TypeOK, WorkType
<1>2. /\ work' \in [Workers -> WorkType] /\ work'[w] = c
      /\ \A v \in Workers \ {w} : work'[v] = work[v]
  BY <1>1
<1>3. TypeOK'
  BY <1>2 DEF Inv, TypeOK, WorkType
<1>4. WorkerOK(w)'
  BY <1>2 DEF WorkerOK
<1>5. \A v \in Workers \ {w} : WorkerOK(v)'
  BY <1>2 DEF Inv, WorkerOK
<1>6. ~WorkersStopped
  BY DEF WorkersStopped
<1>7. Closing' /\ NothingMarked'
  BY <1>6 DEF Inv, Closing, NothingMarked
<1> QED BY <1>3, <1>4, <1>5, <1>7 DEF Inv

LEMMA TakeInv ==
    ASSUME Inv, NEW w \in Workers, Take(w)
    PROVE  Inv'
<1>1. /\ work[w].at # "stopped" /\ WorkUnchanged
      /\ finished' \in [Records -> Outcomes] /\ past' \subseteq Records
      /\ workCh \in Seq(Records) /\ Len(workCh) <= ChanSize
  BY DEF Take, Inv, TypeOK
<1>2. CASE /\ workCh # <<>>
           /\ work' = [work EXCEPT ![w] = [at |-> "run", record |-> Head(workCh),
                                           attempt |-> 0]]
           /\ workCh' = Tail(workCh)
  <2> DEFINE c == [at |-> "run", record |-> Head(workCh), attempt |-> 0]
  <2>1. Head(workCh) \in Records /\ Tail(workCh) \in Seq(Records)
    BY <1>1, <1>2
  <2>2. Len(Tail(workCh)) = Len(workCh) - 1 /\ Len(workCh) \in Nat /\ ChanSize \in Nat
    BY <1>1, <1>2, SizesAssumption
  <2>3. c \in WorkType /\ c.at = "run" /\ c.record # NoRecord /\ c.attempt <= MaxRetries
    BY <2>1, SizesAssumption, NoRecordAssumption DEF WorkType
  <2>4. work' = [work EXCEPT ![w] = c]
    BY <1>2
  <2>5. workCh' \in Seq(Records) /\ Len(workCh') <= ChanSize
    BY <1>1, <1>2, <2>1, <2>2
  <2> HIDE DEF c
  <2> QED BY <1>1, <1>2, <2>3, <2>4, <2>5, OneWorker
<1>3. CASE /\ workCh = <<>> /\ closedCh
           /\ work' = [work EXCEPT ![w] = [Idle EXCEPT !.at = "stopped"]]
           /\ UNCHANGED workCh
  <2> DEFINE c == [Idle EXCEPT !.at = "stopped"]
  <2>1. c \in WorkType /\ c.at = "stopped" /\ c.record = NoRecord
    BY IdleWork
  <2>2. work' = [work EXCEPT ![w] = c]
    BY <1>3
  <2> HIDE DEF c
  <2> QED BY <1>1, <1>3, <2>1, <2>2, OneWorker
<1> QED BY <1>2, <1>3 DEF Take

\* A worker with a record is done with it.
LEMMA FinishInv ==
    ASSUME Inv, NEW w \in Workers, NEW outcome \in Outcomes, Finish(w, outcome),
           work[w].at \in {"run", "dlq"}, WorkUnchanged, UNCHANGED workCh
    PROVE  Inv'
<1>1. work[w] \in WorkType /\ WorkerOK(w)
  BY DEF Inv, TypeOK, WorkType
<1>2. work[w].record \in Records
  BY <1>1, WorkFields DEF WorkerOK
<1>3. /\ finished' \in [Records -> Outcomes] /\ past' \subseteq Records
      /\ workCh' \in Seq(Records) /\ Len(workCh') <= ChanSize
  BY <1>2 DEF Inv, TypeOK, Finish
<1> QED BY <1>3, IdleWork, OneWorker DEF Finish

\* A worker goes on with the record it has.
LEMMA GoOnInv ==
    ASSUME Inv, NEW w \in Workers, NEW at \in {"run", "retry", "backoff", "dlq"},
           NEW n \in 0 .. MaxRetries + 1,
           at # "dlq" => n <= MaxRetries,
           work' = [work EXCEPT ![w] = [at |-> at, record |-> work[w].record, attempt |-> n]],
           work[w].at \in {"run", "retry", "backoff"},
           WorkUnchanged, UNCHANGED <<workCh, finished, past>>
    PROVE  Inv'
<1> DEFINE c == [at |-> at, record |-> work[w].record, attempt |-> n]
<1>1. work[w] \in WorkType /\ WorkerOK(w)
  BY DEF Inv, TypeOK, WorkType
<1>2. work[w].record \in Records /\ work[w].record # NoRecord
  BY <1>1, WorkFields, NoRecordAssumption DEF WorkerOK
<1>3. c \in WorkType /\ c.at = at /\ c.record = work[w].record /\ c.attempt = n
  BY <1>2 DEF WorkType
<1>4. work' = [work EXCEPT ![w] = c]
  OBVIOUS
<1>5. /\ finished' \in [Records -> Outcomes] /\ past' \subseteq Records
      /\ workCh' \in Seq(Records) /\ Len(workCh') <= ChanSize
  BY DEF Inv, TypeOK
<1> HIDE DEF c
<1> QED BY <1>2, <1>3, <1>4, <1>5, OneWorker

\* A worker's state after a change of its fields at and attempt.
LEMMA Fields ==
    ASSUME Inv, NEW w \in Workers, NEW at, NEW n
    PROVE  /\ [work EXCEPT ![w].at = at]
                = [work EXCEPT ![w] = [at |-> at, record |-> work[w].record,
                                       attempt |-> work[w].attempt]]
           /\ [work EXCEPT ![w].at = at, ![w].attempt = n]
                = [work EXCEPT ![w] = [at |-> at, record |-> work[w].record,
                                       attempt |-> n]]
<1>1. work \in [Workers -> WorkType]
  BY DEF Inv, TypeOK, WorkType
<1>2. work[w] = [at |-> work[w].at, record |-> work[w].record, attempt |-> work[w].attempt]
  BY <1>1 DEF WorkType
<1>3. [work[w] EXCEPT !.at = at]
        = [at |-> at, record |-> work[w].record, attempt |-> work[w].attempt]
  BY <1>2
<1>4. [work[w] EXCEPT !.at = at, !.attempt = n]
        = [at |-> at, record |-> work[w].record, attempt |-> n]
  <2>1. [work[w] EXCEPT !.at = at, !.attempt = n]
          = [[work[w] EXCEPT !.at = at] EXCEPT !.attempt = n]
    OBVIOUS
  <2>2. [[at |-> at, record |-> work[w].record, attempt |-> work[w].attempt] EXCEPT !.attempt = n]
          = [at |-> at, record |-> work[w].record, attempt |-> n]
    OBVIOUS
  <2> QED BY <1>3, <2>1, <2>2, Zenon
<1>5. [work EXCEPT ![w].at = at] = [work EXCEPT ![w] = [work[w] EXCEPT !.at = at]]
  BY <1>1, Zenon
<1>6. [work EXCEPT ![w].at = at, ![w].attempt = n]
        = [work EXCEPT ![w] = [work[w] EXCEPT !.at = at, !.attempt = n]]
  BY <1>1
<1> QED BY <1>3, <1>4, <1>5, <1>6

LEMMA HandleFailsInv ==
    ASSUME Inv, NEW w \in Workers, HandleFails(w)
    PROVE  Inv'
<1> DEFINE at == IF LastAttempt(work[w].attempt) THEN "dlq" ELSE "retry"
           n == work[w].attempt + 1
<1>1. work[w] \in WorkType /\ WorkerOK(w) /\ work[w].at = "run" /\ WorkUnchanged
      /\ UNCHANGED <<workCh, finished, past>>
  BY DEF Inv, TypeOK, WorkType, HandleFails
<1>2. work[w].attempt \in 0 .. MaxRetries + 1 /\ work[w].attempt <= MaxRetries
  BY <1>1, WorkFields DEF WorkerOK
<1>3. n \in 0 .. MaxRetries + 1 /\ (at # "dlq" => n <= MaxRetries)
  BY <1>2, SizesAssumption DEF LastAttempt
<1>4. at \in {"run", "retry", "backoff", "dlq"}
  OBVIOUS
<1>5. work' = [work EXCEPT ![w].at = at, ![w].attempt = n]
  <2>1. work \in [Workers -> WorkType]
    BY DEF Inv, TypeOK, WorkType
  <2> QED BY <2>1 DEF HandleFails, WorkType
<1> HIDE DEF at, n
<1>6. work' = [work EXCEPT ![w] = [at |-> at, record |-> work[w].record, attempt |-> n]]
  BY <1>5, Fields
<1> QED BY <1>1, <1>3, <1>4, <1>6, GoOnInv

LEMMA RetryInv ==
    ASSUME Inv, NEW w \in Workers, Retry(w) \/ Backoff(w)
    PROVE  Inv'
<1>1. PICK at \in {"run", "backoff", "dlq"} :
        /\ work' = [work EXCEPT ![w].at = at]
        /\ work[w].at \in {"retry", "backoff"} /\ WorkUnchanged
        /\ UNCHANGED <<workCh, finished, past>>
  BY DEF Retry, Backoff
<1>2. work[w] \in WorkType /\ WorkerOK(w)
  BY DEF Inv, TypeOK, WorkType
<1>3. work[w].attempt \in 0 .. MaxRetries + 1 /\ work[w].attempt <= MaxRetries
  BY <1>1, <1>2, WorkFields DEF WorkerOK
<1>4. work' = [work EXCEPT ![w] = [at |-> at, record |-> work[w].record,
                                   attempt |-> work[w].attempt]]
  BY <1>1, Fields
<1> QED BY <1>1, <1>3, <1>4, GoOnInv

LEMMA WorkerInv ==
    ASSUME Inv, NEW w \in Workers, Worker(w)
    PROVE  Inv'
<1>1. CASE HandleOk(w)
  <2>1. "handled" \in Outcomes
    BY DEF Outcomes
  <2> QED BY <1>1, <2>1, FinishInv DEF HandleOk
<1>2. CASE PublishToDLQ(w)
  <2>1. "dlq" \in Outcomes /\ "dropped" \in Outcomes
    BY DEF Outcomes
  <2> QED BY <1>2, <2>1, FinishInv DEF PublishToDLQ
<1> QED BY <1>1, <1>2, TakeInv, HandleFailsInv, RetryInv DEF Worker

-----------------------------------------------------------------------------
(* Stop and Close, the client, a crash.                                    *)

\* With nothing marked, the offset to commit is the committed one.
LEMMA NothingToCommit ==
    ASSUME Inv
    PROVE  MarkedOffset = committed
<1>1. marked = {} /\ committed = 1 /\ LastRecord \in Nat
  BY SizesAssumption DEF Inv, NothingMarked
<1>2. \A n \in committed .. LastRecord + 1 :
        (committed .. (n - 1) \subseteq marked /\ n \notin marked) <=> n = 1
  <2> SUFFICES ASSUME NEW n \in 1 .. LastRecord + 1
               PROVE  (1 .. (n - 1) \subseteq {}) <=> n = 1
    BY <1>1
  <2>1. CASE n = 1
    BY <2>1
  <2>2. CASE n # 1
    <3>1. 1 \in 1 .. (n - 1)
      BY <1>1, <2>2
    <3> QED BY <2>2, <3>1
  <2> QED BY <2>1, <2>2
<1>3. 1 \in committed .. LastRecord + 1
  BY <1>1
<1>4. \E n \in committed .. LastRecord + 1 :
        committed .. (n - 1) \subseteq marked /\ n \notin marked
  BY <1>2, <1>3
<1>5. MarkedOffset \in committed .. LastRecord + 1
      /\ committed .. (MarkedOffset - 1) \subseteq marked /\ MarkedOffset \notin marked
  BY <1>4 DEF MarkedOffset
<1> QED BY <1>1, <1>2, <1>5

\* A step of Stop, Close or the client: the workers and the poll loop stay.
LEMMA CloserInv ==
    ASSUME Inv, StopCancels \/ Close \/ AutoCommit
    PROVE  Inv'
<1> USE DEF CloseUnchanged, clientVars
<1>1. UNCHANGED <<pos, loop, fetched, workCh, work, marked, finished, crashes, past>>
      /\ committed' = committed
  BY NothingToCommit DEF StopCancels, Close, CloseStarts, CloseChannel, WaitWorkers,
                         CloseClient, AutoCommit
<1>2. {closedCh', cancelled', draining', timedOut'} \subseteq BOOLEAN
  BY DEF Inv, TypeOK, StopCancels, Close, CloseStarts, CloseChannel, WaitWorkers,
         CloseClient, AutoCommit
<1>3. closer' \in {"running", "close", "wait_loop", "wait_workers", "commit", "closed"}
  BY DEF Inv, TypeOK, StopCancels, Close, CloseStarts, CloseChannel, WaitWorkers,
         CloseClient, AutoCommit
<1>4. TypeOK'
  BY <1>1, <1>2, <1>3 DEF Inv, TypeOK
<1>5. closedCh => closedCh'
  BY DEF StopCancels, Close, CloseStarts, CloseChannel, WaitWorkers, CloseClient,
         AutoCommit
<1>6. \A w \in Workers : WorkerOK(w)'
  BY <1>1, <1>5 DEF Inv, WorkerOK
<1>7. NothingMarked'
  BY <1>1 DEF Inv, NothingMarked
<1>8. WorkersStopped' = WorkersStopped
  BY <1>1 DEF WorkersStopped
<1>9. Closing'
  <2>1. CASE StopCancels \/ CloseStarts \/ AutoCommit
    BY <1>1, <1>8, <2>1 DEF Inv, Closing, StopCancels, CloseStarts, AutoCommit
  <2>2. CASE CloseChannel
    BY <1>1, <1>8, <2>2 DEF Inv, Closing, CloseChannel
  <2>3. CASE WaitWorkers
    BY <1>1, <1>8, <2>3 DEF Inv, Closing, WaitWorkers
  <2>4. CASE CloseClient
    BY <1>1, <1>8, <2>4 DEF Inv, Closing, CloseClient
  <2> QED BY <2>1, <2>2, <2>3, <2>4 DEF Close
<1> QED BY <1>4, <1>6, <1>7, <1>9 DEF Inv

LEMMA CrashInv ==
    ASSUME Inv, Crash
    PROVE  Inv'
<1>1. work' \in [Workers -> WorkType]
  BY IdleWork DEF Crash
<1>2. TypeOK'
  <2>1. crashes \in 0 .. MaxCrashes /\ committed \in 1 .. LastRecord + 1
        /\ past \subseteq Records
    BY DEF Inv, TypeOK
  <2>2. pos' \in 1 .. LastRecord + 1 /\ committed' \in 1 .. LastRecord + 1
        /\ crashes' \in 0 .. MaxCrashes
    BY <2>1, SizesAssumption DEF Crash
  <2>3. fetched' \in Seq(Records) /\ workCh' \in Seq(Records) /\ Len(workCh') <= ChanSize
    BY SizesAssumption DEF Crash
  <2>4. finished' \in [Records -> Outcomes]
    BY DEF Crash, Outcomes
  <2>5. {closedCh', cancelled', draining', timedOut'} \subseteq BOOLEAN
    BY DEF Crash
  <2> QED BY <1>1, <2>1, <2>2, <2>3, <2>4, <2>5 DEF Crash, TypeOK, WorkType
<1>3. NothingMarked' /\ Closing'
  BY DEF Inv, NothingMarked, Closing, Crash
<1>4. \A w \in Workers : WorkerOK(w)'
  BY IdleWork, SizesAssumption DEF Crash, WorkerOK
<1> QED BY <1>2, <1>3, <1>4 DEF Inv

LEMMA StepInv == Inv /\ [Next]_vars => Inv'
<1> SUFFICES ASSUME Inv, [Next]_vars PROVE Inv'
  OBVIOUS
<1>1. CASE UNCHANGED vars
  BY <1>1 DEF Inv, TypeOK, NothingMarked, Closing, WorkerOK, WorkersStopped, vars
<1>2. CASE Loop
  BY <1>2, LoopTopInv, FetchInv, FetchNothingInv, DispatchInv, DispatchedInv DEF Loop
<1>3. CASE \E w \in Workers : Worker(w)
  BY <1>3, WorkerInv
<1>4. CASE StopCancels \/ Close \/ AutoCommit
  BY <1>4, CloserInv
<1>5. CASE Crash
  BY <1>5, CrashInv
<1> QED BY <1>1, <1>2, <1>3, <1>4, <1>5 DEF Next

LEMMA Invariance == Spec => []Inv
BY InitInv, StepInv, PTL DEF Spec

-----------------------------------------------------------------------------
(* Theorems.                                                               *)

\* Every variable keeps its type; the channel never holds more than it has
\* room for (consumer.go).
THEOREM TypeCorrect == Spec => []TypeOK
<1>1. Inv => TypeOK
  BY DEF Inv
<1> QED BY <1>1, Invariance, PTL

\* If the drain timeout suffices for the poll loop, it never sends on the closed
\* channel, whatever the workers do (Start, Close).
THEOREM NeverPanics ==
    ASSUME PollPatience
    PROVE  Spec => []NoSendOnClosed
<1>1. Inv => NoSendOnClosed
  BY DEF Inv, Closing, NoSendOnClosed
<1> QED BY <1>1, Invariance, PTL

\* A Close that met no timeout leaves no record behind, for any number of
\* workers and any backlog (Close, the range loop of the workers).
THEOREM DrainCorrect == Spec => []DrainComplete
<1>1. Inv => DrainComplete
  <2> SUFFICES ASSUME Inv, closer = "closed", ~timedOut, NEW r \in Records
               PROVE  Places(r) = {}
    BY DEF DrainComplete
  <2>1. WorkersStopped /\ fetched = <<>>
    BY DEF Inv, Closing
  <2>2. PICK w \in Workers : TRUE
    BY WorkersAssumption
  <2>3. workCh = <<>>
    BY <2>1, <2>2 DEF Inv, WorkerOK, WorkersStopped
  <2>4. \A v \in Workers : work[v].record # r
    BY <2>1, NoRecordAssumption DEF Inv, WorkerOK, WorkersStopped
  <2>5. {j \in 1 .. Len(fetched) : fetched[j] = r} = {}
        /\ {j \in 1 .. Len(workCh) : workCh[j] = r} = {}
    BY <2>1, <2>3
  <2>6. {v \in Workers : work[v].record = r} = {}
    BY <2>4
  <2> QED BY <2>5, <2>6 DEF Places
<1> QED BY <1>1, Invariance, PTL

\* No crash skips a record: below the committed offset every record has been
\* finished (AutoCommitMarks; the program marks nothing).
THEOREM NothingSkipped == Spec => []CommittedFinished
<1>1. Inv => CommittedFinished
  BY DEF Inv, NothingMarked, CommittedFinished
<1> QED BY <1>1, Invariance, PTL

-----------------------------------------------------------------------------
(* The hand-over from the poll loop to the workers.                        *)

Distinct(q) == \A i, j \in 1 .. Len(q) : q[i] = q[j] => i = j
Elems(q) == {q[i] : i \in 1 .. Len(q)}
Held == {work[w].record : w \in Workers} \ {NoRecord}

\* The inductive invariant: no record is twice in the fetch, in the channel or
\* at the workers, the three have no record in common, and together they hold
\* exactly the records below the position that are not finished.
HandInv ==
    /\ Distinct(fetched) /\ Distinct(workCh)
    /\ \A v, w \in Workers :
         work[v].record = work[w].record /\ work[v].record # NoRecord => v = w
    /\ Elems(fetched) \cap Elems(workCh) = {}
    /\ Elems(fetched) \cap Held = {} /\ Elems(workCh) \cap Held = {}
    /\ \A r \in Records :
         /\ r \in Elems(fetched) \cup Elems(workCh) \cup Held <=> r < pos /\ finished[r] = "none"
         /\ r >= pos => finished[r] = "none"

\* The empty sequence, the tail of one, and one with a new last element.
LEMMA EmptyElems == Distinct(<<>>) /\ Elems(<<>>) = {}
BY DEF Distinct, Elems

LEMMA TailElems ==
    ASSUME NEW S, NEW q \in Seq(S), q # <<>>, Distinct(q)
    PROVE  /\ Distinct(Tail(q)) /\ Elems(Tail(q)) = Elems(q) \ {Head(q)}
           /\ Head(q) \in Elems(q)
<1>1. /\ Len(q) \in Nat /\ Len(q) >= 1 /\ Len(Tail(q)) = Len(q) - 1 /\ Head(q) = q[1]
      /\ \A i \in 1 .. (Len(q) - 1) : Tail(q)[i] = q[i + 1]
  OBVIOUS
<1>2. ASSUME NEW i \in 1 .. Len(Tail(q)), NEW j \in 1 .. Len(Tail(q)), Tail(q)[i] = Tail(q)[j]
      PROVE  i = j
  <2>1. i + 1 \in 1 .. Len(q) /\ j + 1 \in 1 .. Len(q) /\ q[i + 1] = q[j + 1]
    BY <1>1, <1>2
  <2>2. i + 1 = j + 1
    BY <2>1 DEF Distinct
  <2> QED BY <1>2, <2>2
<1>3. ASSUME NEW x \in Elems(Tail(q)) PROVE x \in Elems(q) /\ x # Head(q)
  <2>1. PICK i \in 1 .. Len(Tail(q)) : x = Tail(q)[i]
    BY <1>3 DEF Elems
  <2>2. i + 1 \in 1 .. Len(q) /\ x = q[i + 1] /\ i + 1 # 1 /\ 1 \in 1 .. Len(q)
    BY <1>1, <2>1
  <2> QED BY <1>1, <2>2 DEF Elems, Distinct
<1>4. ASSUME NEW x \in Elems(q), x # Head(q) PROVE x \in Elems(Tail(q))
  <2>1. PICK i \in 1 .. Len(q) : x = q[i]
    BY <1>4 DEF Elems
  <2>2. i - 1 \in 1 .. Len(Tail(q)) /\ (i - 1) + 1 = i
    BY <1>1, <1>4, <2>1
  <2>3. Tail(q)[i - 1] = x
    BY <1>1, <2>1, <2>2
  <2> QED BY <2>2, <2>3 DEF Elems
<1>5. Head(q) \in Elems(q)
  BY <1>1 DEF Elems
<1>6. Distinct(Tail(q))
  BY <1>2 DEF Distinct
<1> QED BY <1>3, <1>4, <1>5, <1>6

LEMMA AppendElems ==
    ASSUME NEW S, NEW q \in Seq(S), NEW x \in S, Distinct(q), x \notin Elems(q)
    PROVE  Distinct(Append(q, x)) /\ Elems(Append(q, x)) = Elems(q) \cup {x}
<1>1. /\ Len(q) \in Nat /\ Len(Append(q, x)) = Len(q) + 1
      /\ Append(q, x)[Len(q) + 1] = x
      /\ \A i \in 1 .. Len(q) : Append(q, x)[i] = q[i]
  OBVIOUS
<1>2. \A i \in 1 .. Len(Append(q, x)) : i \in 1 .. Len(q) \/ i = Len(q) + 1
  BY <1>1
<1>3. 1 .. Len(q) \subseteq 1 .. Len(Append(q, x)) /\ Len(q) + 1 \in 1 .. Len(Append(q, x))
  BY <1>1
<1>4. Elems(Append(q, x)) = Elems(q) \cup {x}
  BY <1>1, <1>2, <1>3 DEF Elems
<1>5. \A i \in 1 .. Len(q) : q[i] # x
  BY DEF Elems
<1>6. Distinct(Append(q, x))
  BY <1>1, <1>2, <1>5 DEF Distinct
<1> QED BY <1>4, <1>6

\* What Inv says of the variables of the hand-over.
LEMMA HandTypes ==
    ASSUME Inv
    PROVE  /\ fetched \in Seq(Records) /\ workCh \in Seq(Records)
           /\ work \in [Workers -> WorkType] /\ pos \in Nat /\ pos >= 1
           /\ finished \in [Records -> Outcomes] /\ committed = 1
           /\ Records \subseteq Nat /\ NoRecord \notin Records
           /\ \A w \in Workers : work[w].record \in Records \cup {NoRecord}
<1>1. work \in [Workers -> WorkType]
  BY DEF Inv, TypeOK, WorkType
<1>2. \A w \in Workers : work[w].record \in Records \cup {NoRecord}
  BY <1>1, WorkFields
<1>3. pos \in Nat /\ pos >= 1 /\ Records \subseteq Nat
  BY SizesAssumption DEF Inv, TypeOK, Records
<1> QED BY <1>1, <1>2, <1>3, NoRecordAssumption DEF Inv, TypeOK, NothingMarked

\* A step of a worker that keeps its record.
LEMMA SameRecords ==
    ASSUME HandInv, UNCHANGED <<fetched, workCh, pos, finished>>,
           \A w \in Workers : work'[w].record = work[w].record
    PROVE  HandInv'
<1>1. Held' = Held
  BY DEF Held
<1> QED BY <1>1 DEF HandInv

\* The next fetch: the records from the position on, after everything that was
\* fetched before has been sent.
LEMMA FetchHand ==
    ASSUME Inv, HandInv, NEW n \in 1 .. FetchSize, Fetch(n)
    PROVE  HandInv'
<1>0. /\ pos \in Nat /\ Records \subseteq Nat /\ n \in Nat /\ FetchSize \in Nat
      /\ pos + n - 1 <= LastRecord /\ pos >= 1 /\ LastRecord \in Nat
  BY HandTypes, SizesAssumption DEF Fetch
<1>1. /\ fetched' = [i \in 1 .. n |-> pos + i - 1] /\ pos' = pos + n
      /\ UNCHANGED <<workCh, work, finished>> /\ fetched = <<>>
  BY DEF Fetch, Inv, Closing
<1>2. Len(fetched') = n /\ \A i \in 1 .. n : fetched'[i] = pos + i - 1
  BY <1>0, <1>1
<1>3. Distinct(fetched)'
  BY <1>0, <1>2 DEF Distinct
<1>4. \A r \in Records : r \in Elems(fetched') <=> pos <= r /\ r < pos + n
  <2> SUFFICES ASSUME NEW r \in Records PROVE r \in Elems(fetched') <=> pos <= r /\ r < pos + n
    OBVIOUS
  <2>1. ASSUME r \in Elems(fetched') PROVE pos <= r /\ r < pos + n
    BY <1>0, <1>2, <2>1 DEF Elems
  <2>2. ASSUME pos <= r, r < pos + n PROVE r \in Elems(fetched')
    <3>1. r - pos + 1 \in 1 .. n /\ pos + (r - pos + 1) - 1 = r
      BY <1>0, <2>2
    <3>2. fetched'[r - pos + 1] = r
      BY <1>2, <3>1
    <3> QED BY <1>2, <3>1, <3>2 DEF Elems
  <2> QED BY <2>1, <2>2
<1>5. Elems(fetched') \subseteq Records
  <2> SUFFICES ASSUME NEW i \in 1 .. n PROVE pos + i - 1 \in Records
    BY <1>2 DEF Elems
  <2> QED BY <1>0 DEF Records
<1>6. \A r \in Records : r \in Elems(workCh) \cup Held => r < pos
  BY DEF HandInv
<1>7. Elems(fetched) = {}
  BY <1>1, EmptyElems
<1>8. Held' = Held
  BY <1>1 DEF Held
<1>9. Elems(fetched') \cap (Elems(workCh) \cup Held) = {}
  <2> SUFFICES ASSUME NEW x, x \in Elems(fetched'), x \in Elems(workCh) \cup Held PROVE FALSE
    OBVIOUS
  <2>1. x \in Records /\ x \in Nat
    BY <1>0, <1>5
  <2>2. pos <= x
    BY <1>4, <2>1
  <2>3. x < pos
    BY <1>6, <2>1
  <2> QED BY <1>0, <2>1, <2>2, <2>3
<1>10. ASSUME NEW r \in Records
       PROVE  /\ r \in Elems(fetched') \cup Elems(workCh) \cup Held <=> r < pos' /\ finished'[r] = "none"
              /\ r >= pos' => finished'[r] = "none"
  <2>1. /\ r \in Elems(workCh) \cup Held <=> r < pos /\ finished[r] = "none"
        /\ r >= pos => finished[r] = "none"
    BY <1>7 DEF HandInv
  <2> QED BY <1>0, <1>1, <1>4, <2>1
<1> QED BY <1>1, <1>3, <1>8, <1>9, <1>10 DEF HandInv

\* A record goes from the fetch to the channel.
LEMMA DispatchHand ==
    ASSUME Inv, HandInv, Dispatch
    PROVE  HandInv'
<1>t. fetched \in Seq(Records) /\ workCh \in Seq(Records) /\ fetched # <<>>
  BY HandTypes DEF Dispatch
<1>1. CASE closedCh
  <2>1. UNCHANGED <<fetched, workCh, pos, finished, work>>
    BY <1>1 DEF Dispatch
  <2> QED BY <2>1, SameRecords
<1>2. CASE ~closedCh
  <2>1. /\ workCh' = Append(workCh, Head(fetched)) /\ fetched' = Tail(fetched)
        /\ UNCHANGED <<pos, finished, work>>
    BY <1>2 DEF Dispatch
  <2>2. /\ Distinct(fetched') /\ Elems(fetched') = Elems(fetched) \ {Head(fetched)}
        /\ Head(fetched) \in Elems(fetched) /\ Head(fetched) \in Records
    BY <1>t, <2>1, TailElems DEF HandInv
  <2>3. Distinct(workCh') /\ Elems(workCh') = Elems(workCh) \cup {Head(fetched)}
    BY <1>t, <2>1, <2>2, AppendElems DEF HandInv
  <2>4. Held' = Held
    BY <2>1 DEF Held
  <2> QED BY <2>1, <2>2, <2>3, <2>4 DEF HandInv
<1> QED BY <1>1, <1>2

\* A record goes from the channel to a worker that has none.
LEMMA TakeHand ==
    ASSUME Inv, HandInv, NEW w \in Workers, Take(w)
    PROVE  HandInv'
<1>t. /\ workCh \in Seq(Records) /\ work \in [Workers -> WorkType] /\ NoRecord \notin Records
      /\ work[w].record = NoRecord /\ UNCHANGED <<pos, finished, fetched>>
  BY HandTypes DEF Take, WorkUnchanged, Inv, WorkerOK
<1>1. CASE /\ workCh # <<>> /\ workCh' = Tail(workCh)
           /\ work' = [work EXCEPT ![w] = [at |-> "run", record |-> Head(workCh),
                                           attempt |-> 0]]
  <2>1. /\ Distinct(workCh') /\ Elems(workCh') = Elems(workCh) \ {Head(workCh)}
        /\ Head(workCh) \in Elems(workCh) /\ Head(workCh) \in Records
    BY <1>t, <1>1, TailElems DEF HandInv
  <2>2. work'[w].record = Head(workCh) /\ \A v \in Workers \ {w} : work'[v] = work[v]
    BY <1>t, <1>1
  <2>3. Held' = Held \cup {Head(workCh)}
    BY <1>t, <2>1, <2>2 DEF Held
  <2>4. Head(workCh) \notin Held
    BY <2>1 DEF HandInv
  <2>5. \A v \in Workers \ {w} : work[v].record # Head(workCh)
    BY <1>t, <2>1, <2>4 DEF Held
  <2>6. \A u, v \in Workers :
          work'[u].record = work'[v].record /\ work'[u].record # NoRecord => u = v
    BY <2>2, <2>5 DEF HandInv
  <2> QED BY <1>t, <2>1, <2>3, <2>6 DEF HandInv
<1>2. CASE UNCHANGED workCh /\ work' = [work EXCEPT ![w] = [Idle EXCEPT !.at = "stopped"]]
  <2>1. \A v \in Workers : work'[v].record = work[v].record
    BY <1>t, <1>2, IdleWork
  <2> QED BY <1>t, <1>2, <2>1, SameRecords
<1> QED BY <1>1, <1>2 DEF Take

\* A worker is done with its record.
LEMMA FinishHand ==
    ASSUME Inv, HandInv, NEW w \in Workers, NEW outcome \in Outcomes \ {"none"},
           Finish(w, outcome), work[w].at \in {"run", "dlq"}, WorkUnchanged, UNCHANGED workCh
    PROVE  HandInv'
<1> DEFINE r == work[w].record
<1>t. /\ work \in [Workers -> WorkType] /\ NoRecord \notin Records /\ r \in Records
      /\ finished \in [Records -> Outcomes] /\ pos \in Nat /\ Records \subseteq Nat
      /\ UNCHANGED <<pos, fetched, workCh>>
  BY HandTypes DEF WorkUnchanged, Inv, WorkerOK
<1>1. /\ work'[w].record = NoRecord /\ \A v \in Workers \ {w} : work'[v] = work[v]
      /\ finished'[r] # "none" /\ \A x \in Records \ {r} : finished'[x] = finished[x]
  BY <1>t, IdleWork DEF Finish
<1>2. r \in Held
  BY <1>t DEF Held
<1>3. r < pos
  BY <1>t, <1>2 DEF HandInv
<1>4. Held' = Held \ {r}
  <2>1. \A v \in Workers \ {w} : work[v].record # r
    BY <1>t DEF HandInv
  <2> QED BY <1>1, <2>1 DEF Held
<1>5. \A u, v \in Workers :
        work'[u].record = work'[v].record /\ work'[u].record # NoRecord => u = v
  BY <1>1 DEF HandInv
<1>6. r \notin Elems(fetched) \cup Elems(workCh)
  BY <1>2 DEF HandInv
<1>7. ASSUME NEW x \in Records
      PROVE  /\ x \in Elems(fetched) \cup Elems(workCh) \cup Held' <=> x < pos /\ finished'[x] = "none"
             /\ x >= pos => finished'[x] = "none"
  <2>1. CASE x = r
    BY <1>t, <1>1, <1>3, <1>4, <1>6, <2>1
  <2>2. CASE x # r
    BY <1>1, <1>4, <2>2 DEF HandInv
  <2> QED BY <2>1, <2>2
<1> QED BY <1>t, <1>4, <1>5, <1>7 DEF HandInv

LEMMA HandStep == Inv /\ HandInv /\ [Next]_vars => HandInv'
<1> SUFFICES ASSUME Inv, HandInv, [Next]_vars PROVE HandInv'
  OBVIOUS
<1>1. CASE LoopTop \/ FetchNothing \/ Dispatched \/ UNCHANGED vars
  BY <1>1, SameRecords DEF LoopTop, FetchNothing, Dispatched, vars
<1>2. CASE (\E n \in 1 .. FetchSize : Fetch(n)) \/ Dispatch
  BY <1>2, FetchHand, DispatchHand
<1>3. ASSUME NEW w \in Workers, Take(w) PROVE HandInv'
  BY <1>3, TakeHand
<1>4. ASSUME NEW w \in Workers, HandleOk(w) \/ PublishToDLQ(w) PROVE HandInv'
  <2>1. PICK outcome \in {"handled", "dlq", "dropped"} : Finish(w, outcome)
    BY <1>4 DEF HandleOk, PublishToDLQ
  <2>2. outcome \in Outcomes \ {"none"}
    BY DEF Outcomes
  <2> QED BY <1>4, <2>1, <2>2, FinishHand DEF HandleOk, PublishToDLQ
<1>5. ASSUME NEW w \in Workers, HandleFails(w) \/ Retry(w) \/ Backoff(w) PROVE HandInv'
  <2>1. work \in [Workers -> WorkType]
    BY HandTypes
  <2>2. ASSUME HandleFails(w) PROVE \A v \in Workers : work'[v].record = work[v].record
    BY <2>1, <2>2 DEF HandleFails, WorkType
  <2>3. ASSUME Retry(w) PROVE \A v \in Workers : work'[v].record = work[v].record
    BY <2>1, <2>3 DEF Retry, WorkType
  <2>4. ASSUME Backoff(w) PROVE \A v \in Workers : work'[v].record = work[v].record
    BY <2>1, <2>4 DEF Backoff, WorkType
  <2>5. \A v \in Workers : work'[v].record = work[v].record
    BY <1>5, <2>2, <2>3, <2>4
  <2> QED BY <1>5, <2>5, SameRecords DEF HandleFails, Retry, Backoff, WorkUnchanged
<1>6. CASE StopCancels \/ Close \/ AutoCommit
  BY <1>6, SameRecords DEF StopCancels, Close, CloseStarts, CloseChannel, WaitWorkers, CloseClient,
       AutoCommit, CloseUnchanged
<1>7. CASE Crash
  <2>1. /\ fetched' = <<>> /\ workCh' = <<>> /\ pos' = 1
        /\ \A w \in Workers : work'[w].record = NoRecord
        /\ \A r \in Records : finished'[r] = "none"
    BY <1>7, HandTypes, IdleWork DEF Crash
  <2>2. Held' = {}
    BY <2>1 DEF Held
  <2>3. \A r \in Records : ~(r < 1)
    BY DEF Records
  <2> QED BY <2>1, <2>2, <2>3, EmptyElems DEF HandInv
<1> QED BY <1>1, <1>2, <1>3, <1>4, <1>5, <1>6, <1>7 DEF Next, Loop, Worker

\* The places of a record, from where it is.
LEMMA OnePlace ==
    ASSUME Inv, HandInv, NEW r \in Records
    PROVE  Cardinality(Places(r)) = IF r < pos /\ finished[r] = "none" THEN 1 ELSE 0
<1>0. NoRecord \notin Records
  BY HandTypes
<1>1. /\ \A i \in 1 .. Len(fetched) : fetched[i] = r => r \in Elems(fetched)
      /\ \A i \in 1 .. Len(workCh) : workCh[i] = r => r \in Elems(workCh)
      /\ \A w \in Workers : work[w].record = r => r \in Held
  BY <1>0 DEF Elems, Held
<1>2. CASE r \in Elems(fetched)
  <2>1. PICK k \in 1 .. Len(fetched) : fetched[k] = r
    BY <1>2 DEF Elems
  <2>2. Places(r) = {<<"fetched", k>>}
    BY <1>1, <1>2, <2>1 DEF HandInv, Distinct, Places
  <2> QED BY <1>2, <2>2, FS_Singleton DEF HandInv
<1>3. CASE r \in Elems(workCh)
  <2>1. PICK k \in 1 .. Len(workCh) : workCh[k] = r
    BY <1>3 DEF Elems
  <2>2. Places(r) = {<<"chan", k>>}
    BY <1>1, <1>3, <2>1 DEF HandInv, Distinct, Places
  <2> QED BY <1>3, <2>2, FS_Singleton DEF HandInv
<1>4. CASE r \in Held
  <2>1. PICK w \in Workers : work[w].record = r
    BY <1>4 DEF Held
  <2>2. Places(r) = {<<"worker", w>>}
    BY <1>0, <1>1, <1>4, <2>1 DEF HandInv, Places
  <2> QED BY <1>4, <2>2, FS_Singleton DEF HandInv
<1>5. CASE r \notin Elems(fetched) \cup Elems(workCh) \cup Held
  <2>1. Places(r) = {}
    BY <1>1, <1>5 DEF Places
  <2> QED BY <1>5, <2>1, FS_EmptySet DEF HandInv
<1> QED BY <1>2, <1>3, <1>4, <1>5

\* Every record fetched in this life is in one place or finished, and never
\* both, for every number of workers, every capacity of the channel and every
\* order of hand-over, retries, shutdown and crashes (Start, processRecord).
THEOREM HandOverCorrect == Spec => []HandedOverOnce
<1>1. Init => HandInv
  <2> SUFFICES ASSUME Init PROVE HandInv
    OBVIOUS
  <2>1. Held = {}
    BY IdleWork DEF Init, Held
  <2>2. \A r \in Records : ~(r < 1)
    BY DEF Records
  <2>3. /\ fetched = <<>> /\ workCh = <<>> /\ pos = 1
        /\ \A w \in Workers : work[w].record = NoRecord
        /\ \A r \in Records : finished[r] = "none"
    BY IdleWork DEF Init
  <2>4. Distinct(fetched) /\ Distinct(workCh) /\ Elems(fetched) = {} /\ Elems(workCh) = {}
    BY <2>3, EmptyElems
  <2> QED BY <2>1, <2>2, <2>3, <2>4 DEF HandInv
<1>2. Inv /\ HandInv => HandedOverOnce
  <2> SUFFICES ASSUME Inv, HandInv, NEW r \in Records,
                      r \in committed .. (pos - 1) \/ Places(r) # {} \/ finished[r] # "none"
               PROVE  Cardinality(Places(r)) = IF finished[r] = "none" THEN 1 ELSE 0
    BY DEF HandedOverOnce
  <2>1. Cardinality(Places(r)) = IF r < pos /\ finished[r] = "none" THEN 1 ELSE 0
    BY OnePlace
  <2>2. pos \in Nat /\ committed = 1 /\ r \in Nat
    BY HandTypes
  <2>3. CASE r < pos
    BY <2>1, <2>3
  <2>4. CASE ~(r < pos)
    <3>1. finished[r] = "none"
      BY <2>2, <2>4 DEF HandInv
    <3>2. r \notin Elems(fetched) \cup Elems(workCh) \cup Held
      BY <2>4 DEF HandInv
    <3>3. Places(r) = {}
      BY <3>2, HandTypes DEF Places, Elems, Held
    <3> QED BY <2>2, <2>4, <3>1, <3>3
  <2> QED BY <2>3, <2>4
<1> QED BY <1>1, <1>2, HandStep, Invariance, PTL DEF Spec
=============================================================================
