----------------------------- MODULE EdgeBuffer -----------------------------
(***************************************************************************)
(* The agent's edge buffer (agent/src/communication/edge_buffer.rs): an    *)
(* in-memory FIFO behind a tokio RwLock, a byte counter kept in an atomic  *)
(* OUTSIDE that lock, and an optional SQLite table that takes what does    *)
(* not fit.  Collection layers write to it; the reconnection loop, the     *)
(* UploadBacklog task, the shutdown path and the DeleteBacklog command     *)
(* empty it, all on a multi-threaded runtime.                              *)
(*                                                                         *)
(* One action is one critical section (or one atomic access) of the code;  *)
(* what the code does between two of them is left to interleave.  The      *)
(* deque is the set of its entries, each carrying the rank `pos` at which  *)
(* it was pushed: the front is the entry of least rank.                    *)
(***************************************************************************)
EXTENDS Integers, FiniteSets

CONSTANTS
    Tasks,          \* tasks that share the buffer
    Sizes,          \* payload lengths in bytes
    Types,          \* DataType
    MaxMemory,      \* config.max_memory_bytes
    TTL,            \* config.entry_ttl
    DrainBatch,     \* SQLITE_DRAIN_BATCH_SIZE
    U64,            \* number of values of an AtomicU64
    SqlitePath,     \* whether config.sqlite_path is set
    DeleteBacklog,  \* whether the cluster sends DeleteBacklog commands
    MaxWrites,      \* bound: writes per life of the process
    MaxLives,       \* bound: lives of the process
    MaxClock,       \* bound: ticks of the clock
    NoEntry         \* what a task that is not writing holds

ASSUME SizesAssumption == Sizes \subseteq Nat \ {0}
ASSUME MemoryAssumption == MaxMemory \in Nat /\ U64 \in Nat \ {0}
ASSUME FlagAssumption == SqlitePath \in BOOLEAN /\ DeleteBacklog \in BOOLEAN
ASSUME BoundAssumption ==
    /\ TTL \in Nat /\ DrainBatch \in Nat
    /\ MaxWrites \in Nat /\ MaxLives \in Nat /\ MaxClock \in Nat

VARIABLES
    mem,          \* buffer: RwLock<VecDeque<BufferEntry>>
    memoryUsage,  \* memory_usage: AtomicU64
    seqCounter,   \* sequence_counter: AtomicU64
    pushed,       \* entries pushed in this life (the next rank)
    db,           \* whether init_sqlite succeeded in this life
    rows,         \* the `buffer` table of the database file
    nextId,       \* AUTOINCREMENT
    pc,           \* what each task is about to do
    ent,          \* the entry a task is writing
    hand,         \* ids of the SQLite rows a task has drained, not yet settled
    clock,        \* wall clock
    life,         \* ghost: how often the process has started
    gone          \* ghost: why an entry left the buffer

memVars == <<mem, memoryUsage, pushed>>
dbVars == <<db, rows, nextId>>
vars == <<mem, memoryUsage, seqCounter, pushed, db, rows, nextId, pc, ent,
          hand, clock, life, gone>>

-----------------------------------------------------------------------------
Entry == [life : Nat, seq : Nat, size : Sizes, type : Types, born : Nat,
          pos : Nat]

ASSUME NoEntryAssumption == NoEntry \notin Entry

Row == [id : Nat, e : Entry, born : Nat, sent : BOOLEAN]

\* The identity of an entry: sequence numbers restart with the process.
Uid(e) == <<e.life, e.seq>>

\* A buffer's content as the set of its bytes; its length in bytes.
BytesOf(S) == UNION {{e} \X (1 .. e.size) : e \in S}
Bytes(S) == Cardinality(BytesOf(S))

\* Mutant: a counter that does not wrap.
WrapSubSigned(u, n) == u - n

\* AtomicU64::fetch_add / fetch_sub (they wrap) and the u64 sum of the
\* capacity check (it wraps in a release build).
WrapAdd(u, n) == (u + n) % U64
WrapSub(u, n) == (u - n) % U64

\* The first n entries of the deque.
Front(S, n) == {e \in S : Cardinality({f \in S : f.pos < e.pos}) < n}

\* The expired entries at the front of the deque: the loop stops at the first
\* one that is not.
ExpiredFront == {e \in mem : \A f \in mem : f.pos <= e.pos => clock - f.born > TTL}

Pending == {r \in rows : ~r.sent}

\* ORDER BY priority, created_at LIMIT SQLITE_DRAIN_BATCH_SIZE.  Every row has
\* priority 2; rows of one second come in id order.
Before(r, s) == r.born < s.born \/ (r.born = s.born /\ r.id < s.id)
DrainRows == {r \in Pending : Cardinality({s \in Pending : Before(s, r)}) < DrainBatch}

Reasons == {"expired", "evicted", "handed", "deleted", "crashed"}

Mark(S, why) == {[uid |-> Uid(e), why |-> why] : e \in S}

\* The steps of write() before the entry is in the deque.
Unpushed == {"expire", "expireDb", "check", "evict", "pop", "push"}

Steps == Unpushed \union {"idle", "add", "drainDb", "delZero", "delDb"}

At(t, step) == pc[t] = step
Goto(t, step) == pc' = [pc EXCEPT ![t] = step]
Free(t) == At(t, "idle") /\ hand[t] = {}

\* Entries leave the deque: their bytes are taken off the counter inside the
\* same critical section.
Remove(S, why) ==
    /\ mem' = mem \ S
    /\ memoryUsage' = WrapSub(memoryUsage, Bytes(S))
    /\ gone' = gone \union Mark(S, why)
    /\ UNCHANGED pushed

-----------------------------------------------------------------------------
\* EdgeBuffer::new: an empty memory buffer, counters at their start, and the
\* database if it is configured and can be opened.
Fresh(opened) ==
    [mem |-> {}, usage |-> 0, seq |-> 1, pushed |-> 0, db |-> opened]

Opened == IF SqlitePath THEN BOOLEAN ELSE {FALSE}

Init ==
    /\ \E o \in Opened :
         /\ mem = Fresh(o).mem /\ memoryUsage = Fresh(o).usage
         /\ seqCounter = Fresh(o).seq /\ pushed = Fresh(o).pushed
         /\ db = Fresh(o).db
    /\ rows = {} /\ nextId = 1
    /\ pc = [t \in Tasks |-> "idle"]
    /\ ent = [t \in Tasks |-> NoEntry]
    /\ hand = [t \in Tasks |-> {}]
    /\ clock = 0 /\ life = 1 /\ gone = {}

(***************************************************************************)
(* write().                                                                *)
(***************************************************************************)
WriteBegin(t, size, type) ==
    /\ Free(t)
    /\ seqCounter <= MaxWrites
    /\ ent' = [ent EXCEPT ![t] = [life |-> life, seq |-> seqCounter,
                                  size |-> size, type |-> type,
                                  born |-> clock, pos |-> 0]]
    /\ seqCounter' = seqCounter + 1
    /\ Goto(t, "expire")
    /\ UNCHANGED <<memVars, dbVars, hand, clock, life, gone>>

\* evict_expired: the front of the deque under its lock ...
EvictExpired(t) ==
    /\ At(t, "expire")
    /\ Remove(ExpiredFront, "expired")
    /\ Goto(t, IF db THEN "expireDb" ELSE "check")
    /\ UNCHANGED <<seqCounter, dbVars, ent, hand, clock, life>>

\* ... then the database (a failed DELETE is logged and ignored).
EvictExpiredSqlite(t) ==
    /\ At(t, "expireDb")
    /\ \E old \in {{}, {r \in rows : clock - r.born > TTL}} :
         /\ rows' = rows \ old
         /\ gone' = gone \union Mark({r.e : r \in old}, "expired")
    /\ Goto(t, "check")
    /\ UNCHANGED <<memVars, seqCounter, db, nextId, ent, hand, clock, life>>

\* Mutant: the capacity test forgets the size of the new entry.
MemoryFullNoSize(t) == memoryUsage > MaxMemory

\* The capacity test, made again before each eviction.
MemoryFull(t) == WrapAdd(memoryUsage, ent[t].size) > MaxMemory

HasRoom(t) ==
    /\ pc[t] \in {"check", "evict"}
    /\ ~MemoryFull(t)
    /\ Goto(t, "push")
    /\ UNCHANGED <<memVars, seqCounter, dbVars, ent, hand, clock, life, gone>>

\* Mutant: the early return after a spill is missing.
SpillNoReturn(t) ==
    /\ At(t, "check") /\ MemoryFull(t) /\ db
    /\ rows' = rows \union {[id |-> nextId, e |-> ent[t], born |-> clock, sent |-> FALSE]}
    /\ nextId' = nextId + 1
    /\ Goto(t, "evict")
    /\ UNCHANGED <<memVars, seqCounter, db, ent, hand, clock, life, gone>>

\* spill_to_sqlite succeeds: write() returns.
Spill(t) ==
    /\ At(t, "check") /\ MemoryFull(t) /\ db
    /\ rows' = rows \union {[id |-> nextId, e |-> ent[t], born |-> clock, sent |-> FALSE]}
    /\ nextId' = nextId + 1
    /\ ent' = [ent EXCEPT ![t] = NoEntry]
    /\ Goto(t, "idle")
    /\ UNCHANGED <<memVars, seqCounter, db, hand, clock, life, gone>>

\* No database, or the INSERT failed: make room in memory.  Here and at the
\* head of the loop the counter is read; the pop is a later critical section.
MustEvict(t) ==
    /\ pc[t] \in {"check", "evict"}
    /\ MemoryFull(t)
    /\ Goto(t, "pop")
    /\ UNCHANGED <<memVars, seqCounter, dbVars, ent, hand, clock, life, gone>>

\* Mutant: the eviction loop does not stop at an empty deque.
EvictOldestForever(t) ==
    /\ At(t, "pop")
    /\ Remove(Front(mem, 1), "evicted")
    /\ Goto(t, "evict")
    /\ UNCHANGED <<seqCounter, dbVars, ent, hand, clock, life>>

\* evict_oldest: false when the deque is empty, which ends the loop.
EvictOldest(t) ==
    /\ At(t, "pop")
    /\ Remove(Front(mem, 1), "evicted")
    /\ Goto(t, IF mem = {} THEN "push" ELSE "evict")
    /\ UNCHANGED <<seqCounter, dbVars, ent, hand, clock, life>>

\* push_back, under the write lock ...
Push(t) ==
    /\ At(t, "push")
    /\ LET e == [ent[t] EXCEPT !.pos = pushed + 1]
       IN mem' = mem \union {e} /\ ent' = [ent EXCEPT ![t] = e]
    /\ pushed' = pushed + 1
    /\ Goto(t, "add")
    /\ UNCHANGED <<memoryUsage, seqCounter, dbVars, hand, clock, life, gone>>

\* ... and the counter only after the lock is released.
CountAdded(t) ==
    /\ At(t, "add")
    /\ memoryUsage' = WrapAdd(memoryUsage, ent[t].size)
    /\ ent' = [ent EXCEPT ![t] = NoEntry]
    /\ Goto(t, "idle")
    /\ UNCHANGED <<mem, pushed, seqCounter, dbVars, hand, clock, life, gone>>

(***************************************************************************)
(* Readers.                                                                *)
(***************************************************************************)
Read(t, count) ==
    /\ Free(t)
    /\ Remove(Front(mem, count), "handed")
    /\ UNCHANGED <<seqCounter, dbVars, pc, ent, hand, clock, life>>

\* Mutant: the drained bytes are not taken off the counter.
DrainByTypeUncounted(t, type) ==
    /\ Free(t)
    /\ mem' = {e \in mem : e.type # type}
    /\ gone' = gone \union Mark({e \in mem : e.type = type}, "handed")
    /\ UNCHANGED <<memoryUsage, pushed, seqCounter, dbVars, pc, ent, hand, clock, life>>

DrainByType(t, type) ==
    /\ Free(t)
    /\ Remove({e \in mem : e.type = type}, "handed")
    /\ UNCHANGED <<seqCounter, dbVars, pc, ent, hand, clock, life>>

\* drain(): the memory buffer under its lock, then the database.
DrainMemory(t) ==
    /\ Free(t)
    /\ Remove(mem, "handed")
    /\ Goto(t, IF db THEN "drainDb" ELSE "idle")
    /\ UNCHANGED <<seqCounter, dbVars, ent, hand, clock, life>>

\* drain_sqlite_pending leaves the rows where they are; on an error drain()
\* returns the memory entries alone.
DrainSqlite(t) ==
    /\ At(t, "drainDb")
    /\ \/ hand' = [hand EXCEPT ![t] = {r.id : r \in DrainRows}]
       \/ UNCHANGED hand
    /\ Goto(t, "idle")
    /\ UNCHANGED <<memVars, seqCounter, dbVars, ent, clock, life, gone>>

\* The drainer sent the entry: mark_sent (an UPDATE that may match no row).
MarkSent(t, id) ==
    /\ At(t, "idle") /\ id \in hand[t]
    /\ rows' = {IF r.id = id THEN [r EXCEPT !.sent = TRUE] ELSE r : r \in rows}
    /\ hand' = [hand EXCEPT ![t] = @ \ {id}]
    /\ UNCHANGED <<memVars, seqCounter, db, nextId, pc, ent, clock, life, gone>>

\* The drainer failed to send: mark_retry bumps a column nothing reads, and
\* the loop stops.
MarkRetry(t) ==
    /\ At(t, "idle") /\ hand[t] # {}
    /\ hand' = [hand EXCEPT ![t] = {}]
    /\ UNCHANGED <<memVars, seqCounter, dbVars, pc, ent, clock, life, gone>>

(***************************************************************************)
(* delete_all_backlog().                                                   *)
(***************************************************************************)
\* try_write fails when another task holds the lock (a writer at one of its
\* critical sections, or a reader): nothing is drained, the counter stays.
Locking == {"idle", "expire", "pop", "push"}

DeleteMemory(t) ==
    /\ DeleteBacklog /\ Free(t)
    /\ \/ /\ mem' = {}
          /\ gone' = gone \union Mark(mem, "deleted")
          /\ Goto(t, IF mem = {} THEN "delDb" ELSE "delZero")
       \/ /\ \E u \in Tasks \ {t} : pc[u] \in Locking
          /\ Goto(t, "delDb")
          /\ UNCHANGED <<mem, gone>>
    /\ UNCHANGED <<memoryUsage, pushed, seqCounter, dbVars, ent, hand, clock, life>>

\* The counter is stored, not adjusted, after the lock is released.
DeleteZero(t) ==
    /\ At(t, "delZero")
    /\ memoryUsage' = 0
    /\ Goto(t, "delDb")
    /\ UNCHANGED <<mem, pushed, seqCounter, dbVars, ent, hand, clock, life, gone>>

\* DELETE FROM buffer, when there is a database and it does not fail.
DeleteSqlite(t) ==
    /\ At(t, "delDb")
    /\ \/ /\ db
          /\ rows' = {}
          /\ gone' = gone \union Mark({r.e : r \in rows}, "deleted")
       \/ UNCHANGED <<rows, gone>>
    /\ Goto(t, "idle")
    /\ UNCHANGED <<memVars, seqCounter, db, nextId, ent, hand, clock, life>>

(***************************************************************************)
(* The environment.                                                        *)
(***************************************************************************)
Tick ==
    /\ clock < MaxClock
    /\ clock' = clock + 1
    /\ UNCHANGED <<memVars, seqCounter, dbVars, pc, ent, hand, life, gone>>

\* The process dies and is started again: memory is lost, the file is not.
Restart ==
    /\ life < MaxLives
    /\ life' = life + 1
    /\ \E o \in Opened :
         /\ mem' = Fresh(o).mem /\ memoryUsage' = Fresh(o).usage
         /\ seqCounter' = Fresh(o).seq /\ pushed' = Fresh(o).pushed
         /\ db' = Fresh(o).db
    /\ gone' = gone \union Mark(mem \union {ent[t] : t \in {u \in Tasks : pc[u] \in
                 Unpushed}}, "crashed")
    /\ pc' = [t \in Tasks |-> "idle"]
    /\ ent' = [t \in Tasks |-> NoEntry]
    /\ hand' = [t \in Tasks |-> {}]
    /\ UNCHANGED <<rows, nextId, clock>>

WriteStep(t) ==
    \/ EvictExpired(t) \/ EvictExpiredSqlite(t) \/ HasRoom(t) \/ Spill(t)
    \/ MustEvict(t) \/ EvictOldest(t) \/ Push(t) \/ CountAdded(t)

ReadStep(t) ==
    \/ \E n \in 1 .. MaxWrites : Read(t, n)
    \/ \E ty \in Types : DrainByType(t, ty)
    \/ DrainMemory(t) \/ DrainSqlite(t)
    \/ \E id \in hand[t] : MarkSent(t, id)
    \/ MarkRetry(t)

DeleteStep(t) == DeleteMemory(t) \/ DeleteZero(t) \/ DeleteSqlite(t)

Next ==
    \/ \E t \in Tasks :
         \/ \E s \in Sizes, ty \in Types : WriteBegin(t, s, ty)
         \/ WriteStep(t)
         \/ ReadStep(t)
         \/ DeleteStep(t)
    \/ Tick
    \/ Restart

Spec == Init /\ [][Next]_vars

\* A task that is writing is scheduled by the runtime until it returns.
FairSpec == Spec /\ \A t \in Tasks : WF_vars(WriteStep(t))
-----------------------------------------------------------------------------
\* Types of the variables.
TypeOK ==
    /\ mem \subseteq Entry
    /\ memoryUsage \in 0 .. U64 - 1
    /\ seqCounter \in Nat /\ pushed \in Nat
    /\ db \in BOOLEAN /\ rows \subseteq Row /\ nextId \in Nat
    /\ pc \in [Tasks -> Steps]
    /\ ent \in [Tasks -> Entry \union {NoEntry}]
    /\ hand \in [Tasks -> SUBSET Nat]
    /\ clock \in Nat /\ life \in Nat
    /\ gone \subseteq [uid : Nat \X Nat, why : Reasons]

\* Where the entries of every life are now: still in the hands of write(), in
\* memory, in the database, or gone.
Writing == {Uid(ent[t]) : t \in {u \in Tasks : pc[u] \in Unpushed}}
InMemory == {Uid(e) : e \in mem}
OnDisk == {Uid(r.e) : r \in rows}
Gone == {g.uid : g \in gone}

\* Every entry write() was ever called for is in exactly one place, and has at
\* most one reason to have left: no interleaving of writers, drainers, expiry,
\* spill, deletion and crashes duplicates an entry inside the buffer (spilled
\* AND kept, evicted twice, handed to two drainers) or lets one disappear
\* without a reason (edge_buffer.rs: write, read, drain, evict_*).
Conservation ==
    /\ Writing \intersect (InMemory \union OnDisk \union Gone) = {}
    /\ InMemory \intersect (OnDisk \union Gone) = {}
    /\ OnDisk \intersect Gone = {}
    /\ \A g, h \in gone : g.uid = h.uid => g = h
    /\ \A n \in 1 .. seqCounter - 1 :
         <<life, n>> \in Writing \union InMemory \union OnDisk \union Gone

\* The byte counter is kept outside the lock, is decremented by drainers that
\* may run between a push and its count, and wraps.  Yet whenever no write is
\* between the two, it is exactly the number of bytes in the deque (the field's
\* doc: "Current memory usage in bytes"), so no drift accumulates.
UsageExact ==
    (\A t \in Tasks : pc[t] # "add" /\ pc[t] # "delZero") /\ Bytes(mem) < U64
        => memoryUsage = Bytes(mem)

\* The inductive strengthening of TypeOK and UsageExact: at every moment the
\* counter is what the deque holds less what is pushed and not yet counted,
\* modulo its width, provided nothing stores into it (delete_all_backlog).
Adding == {ent[t] : t \in {u \in Tasks : pc[u] = "add"}}

Congruent == (memoryUsage - Bytes(mem) + Bytes(Adding)) % U64 = 0

UsageInv ==
    /\ TypeOK
    /\ IsFiniteSet(BytesOf(mem)) /\ IsFiniteSet(BytesOf(Adding))
    /\ \A e \in mem : e.pos <= pushed
    /\ \A t \in Tasks : pc[t] \in Unpushed \union {"add"} => ent[t] \in Entry
    /\ \A t \in Tasks : pc[t] = "add" => ent[t].pos <= pushed
    /\ \A t, u \in Tasks : pc[t] = "add" /\ pc[u] = "add" /\ ent[t].pos = ent[u].pos => t = u
    /\ \A t \in Tasks : pc[t] = "delZero" => DeleteBacklog
    /\ ~DeleteBacklog => Congruent

\* The inductive strengthening of Conservation: no two tasks write the same
\* entry, the deque and the table hold an entry once, and sequence numbers are
\* given out in order, so that the next one is new.
ConserveInv ==
    /\ Conservation
    /\ \A u \in Writing \union InMemory \union OnDisk \union Gone :
         u[1] < life \/ (u[1] = life /\ u[2] < seqCounter)
    /\ \A t, u \in Tasks :
         pc[t] \in Unpushed /\ pc[u] \in Unpushed /\ Uid(ent[t]) = Uid(ent[u]) => t = u
    /\ \A e, f \in mem : Uid(e) = Uid(f) => e = f
    /\ \A r, s \in rows : Uid(r.e) = Uid(s.e) => r = s

Largest == CHOOSE s \in Sizes : \A r \in Sizes : r <= s

\* The capacity test is not atomic with the push it admits, so the memory
\* buffer can exceed max_memory_bytes: by at most one entry for each other
\* task, when no entry alone is larger than the buffer.
OvershootBounded ==
    Largest <= MaxMemory =>
        Bytes(mem) <= MaxMemory + (Cardinality(Tasks) - 1) * Largest

\* What its proof needs: finitely many tasks, a largest entry, and a counter
\* wide enough (2^64) for the buffer and one more entry per task.
RoomyCounter ==
    /\ IsFiniteSet(Tasks)
    /\ \E s \in Sizes : \A r \in Sizes : r <= s
    /\ MaxMemory + Cardinality(Tasks) * Largest < U64

\* Its inductive strengthening counts the entries that were admitted and are
\* not pushed yet as if they were in the deque already.
Admitted == {ent[t] : t \in {u \in Tasks : pc[u] = "push"}}

OvershootInv ==
    /\ \A t \in Tasks : pc[t] \in Unpushed => ent[t].pos = 0
    /\ \A t \in Tasks : pc[t] = "add" => ent[t].pos > 0
    /\ \A e \in mem : e.pos > 0
    /\ Largest <= MaxMemory =>
         Bytes(mem) + Bytes(Admitted) <= MaxMemory + (Cardinality(Tasks) - 1) * Largest

\* A write returns, also when its entry is larger than the whole buffer and
\* while other tasks keep changing the counter its eviction loop tests.
WriteReturns == \A t \in Tasks : (pc[t] \in Unpushed) ~> (pc[t] = "idle")

\* The comment in evict_expired: "Entries are in FIFO order, so we can stop."
\* The order of the deque is the order of created_at.
FifoByAge == \A e, f \in mem : e.pos < f.pos => e.born <= f.born

\* BufferEntry::sequence_number is documented as "Unique sequence number for
\* deduplication": no two entries held for delivery share one.
UniqueSequence ==
    LET held == mem \union {r.e : r \in Pending}
    IN \A e, f \in held : e.seq = f.seq => e = f

\* delete_all_backlog is documented to drain the in-memory entries as well:
\* none that was there when it was called survives its memory phase.
DeleteDrainsMemory ==
    [][\A t \in Tasks : DeleteMemory(t) => mem' = {}]_vars
=============================================================================
