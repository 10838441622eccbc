----------------------------- MODULE MemStorage -----------------------------
(***************************************************************************)
(* MemStorage: two maps under one sync.RWMutex.  Each method runs step by  *)
(* step under the lock: a batch item by item, a counter update as a read   *)
(* and a write, GetAllMetrics one map after the other.                     *)
(* The RWMutex is Go's: a waiting writer holds back new readers, and the   *)
(* readers held back go before the next writer.                            *)
(***************************************************************************)
EXTENDS StorageData, FiniteSets

CONSTANTS Clients, Requests, NoClient

ASSUME ClientAssumption == NoClient \notin Clients
ASSUME RequestAssumption == \A r \in Requests : IsRequest(r)

VARIABLES
    data,      \* s.gauges and s.counters
    writer,    \* the client that holds, or drains the readers for, the write lock
    readers,   \* the clients that hold the read lock
    heldBack,  \* the clients whose RLock waits for the writer
    pc,        \* "idle", "lock", "drain", "write", "store", "read", "counters",
               \* "unlock", "runlock", "return"
    request,   \* the arguments of the call
    index,     \* the item of the range over the batch
    old,       \* the counter read by +=, not yet written back
    seen,      \* what the method has read for its caller
    before     \* history: the data when the writer took the lock

vars == <<data, writer, readers, heldBack, pc, request, index, old, seen, before>>

PCs == {"idle", "lock", "drain", "write", "store", "read", "counters", "unlock", "runlock",
        "return"}

TypeOK ==
    /\ data \in Data /\ before \in Data
    /\ writer \in Clients \cup {NoClient}
    /\ readers \subseteq Clients /\ heldBack \subseteq Clients
    /\ pc \in [Clients -> PCs]
    /\ request \in [Clients -> Requests \cup {NoRequest}]
    /\ index \in [Clients -> Nat] /\ old \in [Clients -> Word \cup {Absent}]
    /\ seen \in [Clients -> Data]

\* NewMemStorage.
Init ==
    /\ data = Empty /\ before = Empty
    /\ writer = NoClient /\ readers = {} /\ heldBack = {}
    /\ pc = [c \in Clients |-> "idle"]
    /\ request = [c \in Clients |-> NoRequest]
    /\ index = [c \in Clients |-> 0] /\ old = [c \in Clients |-> 0]
    /\ seen = [c \in Clients |-> Empty]

Goto(c, label) == pc' = [pc EXCEPT ![c] = label]

Writes(c) == request[c].op = "write"

\* A call of a method, up to its Lock or RLock.
Call(c, r) ==
    /\ pc[c] = "idle"
    /\ request' = [request EXCEPT ![c] = r] /\ Goto(c, "lock")
    /\ UNCHANGED <<data, writer, readers, heldBack, index, old, seen, before>>

----------------------------------------------------------------------------
(* sync.RWMutex *)

\* Lock, first part: the writers' mutex; from here new readers are held back.
Announce(c) ==
    /\ pc[c] = "lock" /\ Writes(c) /\ writer = NoClient
    /\ writer' = c /\ Goto(c, "drain")
    /\ UNCHANGED <<data, readers, heldBack, request, index, old, seen, before>>

\* Mutant: a write lock that does not wait for the readers.
Lock_NoDrain(c) ==
    /\ pc[c] = "drain"
    /\ before' = data
    /\ index' = [index EXCEPT ![c] = 1] /\ Goto(c, "write")
    /\ UNCHANGED <<data, writer, readers, heldBack, request, old, seen>>

\* Lock, second part: the readers that were there have left.
Lock(c) ==
    /\ pc[c] = "drain" /\ readers = {}
    /\ before' = data
    /\ index' = [index EXCEPT ![c] = 1] /\ Goto(c, "write")
    /\ UNCHANGED <<data, writer, readers, heldBack, request, old, seen>>

\* Mutant: a read without the lock.
RLock_None(c) ==
    /\ pc[c] = "lock" /\ ~Writes(c) /\ Goto(c, "read")
    /\ UNCHANGED <<readers, heldBack, data, writer, request, index, old, seen, before>>

\* Mutant: a waiting writer does not hold back new readers.
RLock_ReadersFirst(c) ==
    /\ pc[c] = "lock" /\ ~Writes(c)
    /\ \A d \in Clients : pc[d] \notin {"write", "store", "unlock"}
    /\ readers' = readers \cup {c} /\ Goto(c, "read")
    /\ UNCHANGED <<heldBack, data, writer, request, index, old, seen, before>>

RLock(c) ==
    /\ pc[c] = "lock" /\ ~Writes(c) /\ c \notin heldBack
    /\ IF writer = NoClient
         THEN readers' = readers \cup {c} /\ Goto(c, "read") /\ UNCHANGED heldBack
         ELSE heldBack' = heldBack \cup {c} /\ UNCHANGED <<readers, pc>>
    /\ UNCHANGED <<data, writer, request, index, old, seen, before>>

\* Unlock (deferred): the readers held back come in.
Unlock(c) ==
    /\ pc[c] = "unlock"
    /\ writer' = NoClient
    /\ readers' = readers \cup heldBack /\ heldBack' = {}
    /\ pc' = [d \in Clients |->
                IF d = c THEN "return" ELSE IF d \in heldBack THEN "read" ELSE pc[d]]
    /\ UNCHANGED <<data, request, index, old, seen, before>>

RUnlock(c) ==
    /\ pc[c] = "runlock"
    /\ readers' = readers \ {c} /\ Goto(c, "return")
    /\ UNCHANGED <<data, writer, heldBack, request, index, old, seen, before>>

\* The method returns what it has read; its locals are gone.
Return(c) ==
    /\ pc[c] = "return" /\ Goto(c, "idle")
    /\ request' = [request EXCEPT ![c] = NoRequest]
    /\ index' = [index EXCEPT ![c] = 0] /\ old' = [old EXCEPT ![c] = 0]
    /\ seen' = [seen EXCEPT ![c] = Empty]
    /\ UNCHANGED <<data, writer, readers, heldBack, before>>

----------------------------------------------------------------------------
(* UpdateGauge, UpdateCounter, UpdateBatch: one item or several. *)

Current(c) == request[c].items[index[c]]

\* Mutant: an item with no value ends the batch.
WriteItem_StopsAtNil(c) ==
    /\ pc[c] = "write"
    /\ IF index[c] > Len(request[c].items) \/ Current(c).val = Nil
         THEN Goto(c, "unlock") /\ UNCHANGED <<data, index, old>>
       ELSE IF Current(c).type = "counter"
         THEN /\ old' = [old EXCEPT ![c] = data.counter[Current(c).name]]
              /\ Goto(c, "store") /\ UNCHANGED <<data, index>>
         ELSE /\ data' = ApplyItem(data, Current(c))
              /\ index' = [index EXCEPT ![c] = @ + 1]
              /\ UNCHANGED <<pc, old>>
    /\ UNCHANGED <<writer, readers, heldBack, request, seen, before>>

\* An item: skipped, or s.gauges[name] = value, or the read of s.counters[name].
\* After the last one, the deferred Unlock.
WriteItem(c) ==
    /\ pc[c] = "write"
    /\ IF index[c] > Len(request[c].items)
         THEN Goto(c, "unlock") /\ UNCHANGED <<data, index, old>>
       ELSE IF Current(c).type = "counter" /\ Current(c).val # Nil
         THEN /\ old' = [old EXCEPT ![c] = data.counter[Current(c).name]]
              /\ Goto(c, "store") /\ UNCHANGED <<data, index>>
         ELSE /\ data' = ApplyItem(data, Current(c))
              /\ index' = [index EXCEPT ![c] = @ + 1]
              /\ UNCHANGED <<pc, old>>
    /\ UNCHANGED <<writer, readers, heldBack, request, seen, before>>

\* The write of s.counters[name] += delta.
StoreCounter(c) ==
    /\ pc[c] = "store"
    /\ data' = [data EXCEPT !.counter[Current(c).name] = Wrap(OrZero(old[c]) + Current(c).val)]
    /\ index' = [index EXCEPT ![c] = @ + 1] /\ Goto(c, "write")
    /\ UNCHANGED <<writer, readers, heldBack, request, old, seen, before>>

----------------------------------------------------------------------------
(* GetGauge, GetCounter, GetAllMetrics. *)

\* The value of one key, or the copy of s.gauges.
Read(c) ==
    /\ pc[c] = "read"
    /\ LET r == request[c] IN
       CASE r.op = "getGauge" ->
              /\ seen' = [seen EXCEPT ![c].gauge[r.name] = data.gauge[r.name]]
              /\ Goto(c, "runlock")
         [] r.op = "getCounter" ->
              /\ seen' = [seen EXCEPT ![c].counter[r.name] = data.counter[r.name]]
              /\ Goto(c, "runlock")
         [] r.op = "getAll" ->
              /\ seen' = [seen EXCEPT ![c].gauge = data.gauge]
              /\ Goto(c, "counters")
    /\ UNCHANGED <<data, writer, readers, heldBack, request, index, old, before>>

\* The copy of s.counters.
ReadCounters(c) ==
    /\ pc[c] = "counters"
    /\ seen' = [seen EXCEPT ![c].counter = data.counter]
    /\ Goto(c, "runlock")
    /\ UNCHANGED <<data, writer, readers, heldBack, request, index, old, before>>

----------------------------------------------------------------------------
Step(c) ==
    \/ Announce(c) \/ Lock(c) \/ RLock(c) \/ Unlock(c) \/ RUnlock(c) \/ Return(c)
    \/ WriteItem(c) \/ StoreCounter(c) \/ Read(c) \/ ReadCounters(c)

Next == \E c \in Clients : (\E r \in Requests : Call(c, r)) \/ Step(c)

Spec == Init /\ [][Next]_vars

\* Every method runs on once it is called; the mutex of the writers is fair (a
\* sync.Mutex hands itself to a waiter it has kept waiting).
FairSpec == Spec /\ \A c \in Clients : WF_vars(Step(c)) /\ SF_vars(Announce(c))

----------------------------------------------------------------------------
(* Properties. *)

Writing == {"write", "store", "unlock"}
Reading == {"read", "counters", "runlock"}

\* The lock of the maps: a method that writes them has them for itself, so no two
\* goroutines ever touch a Go map at once with one of them writing (which would
\* crash the server).
MapsExclusive ==
    \A c, d \in Clients : c # d /\ pc[c] \in Writing => pc[d] \notin Writing \cup Reading

\* The two maps GetAllMetrics returns are of one instant, never the gauges of before
\* a batch with the counters of after it.
SnapshotOfOneInstant ==
    \A c \in Clients :
        pc[c] = "runlock" /\ request[c].op = "getAll" => seen[c] = data

\* MemStorage implements Storage: an update takes effect when it unlocks, a read when
\* its last value is read.
Abstract == INSTANCE Storage WITH
    data    <- IF \E c \in Clients : pc[c] \in Writing THEN before ELSE data,
    done    <- {c \in Clients : pc[c] \in {"runlock", "return"}},
    answer  <- [c \in Clients |-> IF pc[c] \in {"runlock", "return"} THEN seen[c] ELSE Empty]

ImplementsStorage == Abstract!Spec

\* Every call returns, however many others keep coming.
EveryCallReturns == \A c \in Clients : pc[c] = "lock" ~> pc[c] = "idle"
=============================================================================
