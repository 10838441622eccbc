-------------------------- MODULE MemStorageProofs --------------------------
(***************************************************************************)
(* Theorems about MemStorage, for any number of clients, any requests, any *)
(* set of metrics and counters of any width: types, locking, snapshots,    *)
(* and that it implements Storage.                                         *)
(***************************************************************************)
EXTENDS MemStorage, StorageDataProofs

----------------------------------------------------------------------------
(* The inductive invariant. *)

\* Who holds the lock: the writer from its Lock on, the readers from their RLock on;
\* once the writer has drained the readers there are none.
LockInv ==
    \A c \in Clients :
        /\ writer = c <=> pc[c] \in {"drain"} \cup Writing
        /\ c \in readers <=> pc[c] \in Reading
        /\ pc[c] \in Writing => readers = {}
        /\ c \in heldBack => pc[c] = "lock" /\ ~Writes(c)

\* A client that reads or writes is in a call of that kind, at an item of its batch.
CallInv ==
    \A c \in Clients :
        /\ pc[c] # "idle" => request[c] \in Requests
        /\ pc[c] \in {"drain"} \cup Writing => Writes(c)
        /\ pc[c] \in Reading => ~Writes(c)
        /\ pc[c] \in {"write", "store"} => index[c] >= 1
        /\ pc[c] = "store" =>
             /\ index[c] <= Len(request[c].items)
             /\ Current(c).type = "counter" /\ Current(c).val # Nil
        /\ pc[c] = "counters" => request[c].op = "getAll"

\* What GetAllMetrics has copied is still what the maps hold.
CopyInv ==
    \A c \in Clients : request[c].op = "getAll" =>
        /\ pc[c] = "counters" => seen[c].gauge = data.gauge
        /\ pc[c] = "runlock" => seen[c] = data

Inv == TypeOK /\ LockInv /\ CallInv /\ CopyInv

\* NewMemStorage satisfies the invariant.
LEMMA InitInv == Init => Inv
  <1> SUFFICES ASSUME Init PROVE Inv
    OBVIOUS
  <1>1. Empty \in Data
    BY DEF Empty, Data
  <1>2. 0 \in Word
    BY DataAssumption DEF Word
  <1>3. TypeOK
    BY <1>1, <1>2 DEF Init, TypeOK, PCs
  <1>4. LockInv /\ CallInv /\ CopyInv
    BY ClientAssumption DEF Init, LockInv, CallInv, CopyInv, Writing, Reading
  <1> QED BY <1>3, <1>4 DEF Inv

\* The item the range of a batch is at is an item.
LEMMA CurrentType ==
  ASSUME Inv, NEW c \in Clients, pc[c] \in {"write", "store"}, index[c] <= Len(request[c].items)
  PROVE  Current(c) \in Item
  <1>1. request[c] \in Requests /\ request[c].op = "write" /\ index[c] \in Nat /\ index[c] >= 1
    BY DEF Inv, CallInv, TypeOK, Writes, Writing
  <1>2. request[c].items \in Seq(Item)
    BY <1>1, RequestAssumption DEF IsRequest
  <1>3. index[c] \in 1 .. Len(request[c].items)
    BY <1>1, <1>2
  <1> QED BY <1>2, <1>3 DEF Current

----------------------------------------------------------------------------
(* Each step keeps it. *)

\* The start of a call.
LEMMA CallStep ==
  ASSUME Inv, NEW c \in Clients, NEW r \in Requests, Call(c, r)
  PROVE  Inv'
  <1> USE DEF Inv, Call, Goto
  <1>1. TypeOK' BY DEF TypeOK, PCs
  <1>2. LockInv' BY DEF TypeOK, LockInv, Writing, Reading, Writes
  <1>3. CallInv' BY DEF TypeOK, CallInv, Writing, Reading, Writes, Current
  <1>4. CopyInv' BY DEF TypeOK, CopyInv
  <1> QED BY <1>1, <1>2, <1>3, <1>4

\* The steps of the lock: who holds it changes, the data do not.
LEMMA LockStep ==
  ASSUME Inv, NEW c \in Clients,
         Announce(c) \/ Lock(c) \/ RLock(c) \/ RUnlock(c)
  PROVE  Inv'
  <1> USE DEF Inv, Goto
  <1>1. CASE Announce(c)
    <2> USE <1>1 DEF Announce
    <2>1. TypeOK' BY DEF TypeOK, PCs
    <2>2. LockInv' BY ClientAssumption DEF TypeOK, LockInv, Writing, Reading, Writes
    <2>3. CallInv' BY DEF TypeOK, CallInv, Writing, Reading, Writes, Current
    <2>4. CopyInv' BY DEF TypeOK, CopyInv
    <2> QED BY <2>1, <2>2, <2>3, <2>4
  <1>2. CASE Lock(c)
    <2> USE <1>2 DEF Lock
    <2>1. TypeOK' BY DEF TypeOK, PCs
    <2>2. LockInv' BY DEF TypeOK, LockInv, Writing, Reading, Writes
    <2>3. CallInv' BY DEF TypeOK, CallInv, Writing, Reading, Writes, Current
    <2>4. CopyInv' BY DEF TypeOK, CopyInv
    <2> QED BY <2>1, <2>2, <2>3, <2>4
  <1>3. CASE RLock(c)
    <2> USE <1>3 DEF RLock
    <2>1. TypeOK' BY DEF TypeOK, PCs
    <2>2. LockInv' BY ClientAssumption DEF TypeOK, LockInv, Writing, Reading, Writes
    <2>3. CallInv' BY DEF TypeOK, CallInv, Writing, Reading, Writes, Current
    <2>4. CopyInv' BY DEF TypeOK, CopyInv
    <2> QED BY <2>1, <2>2, <2>3, <2>4
  <1>4. CASE RUnlock(c)
    <2> USE <1>4 DEF RUnlock
    <2>1. TypeOK' BY DEF TypeOK, PCs
    <2>2. LockInv' BY DEF TypeOK, LockInv, Writing, Reading, Writes
    <2>3. CallInv' BY DEF TypeOK, CallInv, Writing, Reading, Writes, Current
    <2>4. CopyInv' BY DEF TypeOK, CopyInv
    <2> QED BY <2>1, <2>2, <2>3, <2>4
  <1> QED BY <1>1, <1>2, <1>3, <1>4

\* Unlock hands the lock to the readers held back.
LEMMA UnlockStep ==
  ASSUME Inv, NEW c \in Clients, Unlock(c)
  PROVE  Inv'
  <1> USE DEF Inv, Unlock
  <1>1. TypeOK' BY DEF TypeOK, PCs
  <1>2. LockInv' BY ClientAssumption DEF TypeOK, LockInv, Writing, Reading, Writes
  <1>3. CallInv' BY DEF TypeOK, CallInv, LockInv, Writing, Reading, Writes, Current
  <1>4. CopyInv' BY DEF TypeOK, CopyInv
  <1> QED BY <1>1, <1>2, <1>3, <1>4

\* The return of a call.
LEMMA ReturnStep ==
  ASSUME Inv, NEW c \in Clients, Return(c)
  PROVE  Inv'
  <1> USE DEF Inv, Return, Goto
  <1>1. Empty \in Data /\ 0 \in Word
    BY DataAssumption DEF Empty, Data, Word
  <1>2. TypeOK' BY <1>1 DEF TypeOK, PCs
  <1>3. LockInv' BY DEF TypeOK, LockInv, Writing, Reading, Writes
  <1>4. CallInv' BY DEF TypeOK, CallInv, Writing, Reading, Writes, Current
  <1>5. CopyInv' BY DEF TypeOK, CopyInv
  <1> QED BY <1>2, <1>3, <1>4, <1>5

\* While a client writes nobody has a copy of the maps to keep up to date.
LEMMA NoCopy ==
  ASSUME Inv, NEW c \in Clients, pc[c] \in Writing
  PROVE  \A d \in Clients : pc[d] \notin Reading
  BY DEF Inv, LockInv

\* An item of the batch.
LEMMA WriteItemStep ==
  ASSUME Inv, NEW c \in Clients, WriteItem(c)
  PROVE  Inv'
  <1>1. \A d \in Clients : pc[d] \notin Reading
    BY NoCopy DEF Writing, WriteItem
  <1>2. index[c] \in Nat /\ index[c] >= 1 /\ Len(request[c].items) \in Nat
    <2>1. request[c] \in Requests /\ request[c].op = "write"
      BY DEF Inv, CallInv, Writes, Writing, WriteItem
    <2> QED BY <2>1, RequestAssumption DEF IsRequest, Inv, TypeOK, CallInv, WriteItem
  <1>3. CASE index[c] > Len(request[c].items)
    <2> USE <1>3 DEF Inv, WriteItem, Goto
    <2>1. TypeOK' BY DEF TypeOK, PCs
    <2>2. LockInv' BY DEF TypeOK, LockInv, Writing, Reading, Writes
    <2>3. CallInv' BY DEF TypeOK, CallInv, Writing, Reading, Writes, Current
    <2>4. CopyInv' BY DEF TypeOK, CopyInv
    <2> QED BY <2>1, <2>2, <2>3, <2>4
  <1>4. CASE index[c] <= Len(request[c].items) /\ Current(c).type = "counter" /\ Current(c).val # Nil
    <2> USE <1>4 DEF Inv, WriteItem, Goto
    <2>1. TypeOK'
      <3>1. data.counter[Current(c).name] \in Word \cup {Absent}
        BY CurrentType DEF TypeOK, Data, Item
      <3> QED BY <3>1 DEF TypeOK, PCs
    <2>2. LockInv' BY DEF TypeOK, LockInv, Writing, Reading, Writes
    <2>3. CallInv' BY DEF TypeOK, CallInv, Writing, Reading, Writes, Current
    <2>4. CopyInv' BY DEF TypeOK, CopyInv
    <2> QED BY <2>1, <2>2, <2>3, <2>4
  <1>5. CASE index[c] <= Len(request[c].items) /\ (Current(c).type # "counter" \/ Current(c).val = Nil)
    <2>1. /\ data' = ApplyItem(data, Current(c))
          /\ index' = [index EXCEPT ![c] = @ + 1]
          /\ UNCHANGED <<writer, readers, heldBack, pc, request, old, seen, before>>
      BY <1>2, <1>5 DEF WriteItem
    <2>2. pc[c] = "write"
      BY DEF WriteItem
    <2>3. data' \in Data
      BY <1>5, <2>1, <2>2, CurrentType, ApplyItemType DEF Inv, TypeOK
    <2>4. TypeOK' BY <2>1, <2>3 DEF Inv, TypeOK, PCs
    <2>5. LockInv' BY <2>1 DEF Inv, LockInv, Writes
    <2>6. CallInv'
      <3>1. \A d \in Clients \ {c} : index'[d] = index[d]
        BY <2>1 DEF Inv, TypeOK
      <3>2. index'[c] >= 1
        BY <1>2, <2>1 DEF Inv, TypeOK
      <3> QED BY <2>1, <2>2, <3>1, <3>2 DEF Inv, CallInv, Writes, Current
    <2>7. CopyInv' BY <1>1, <2>1 DEF CopyInv, Reading
    <2> QED BY <2>4, <2>5, <2>6, <2>7 DEF Inv
  <1> QED BY <1>2, <1>3, <1>4, <1>5

\* The second half of a counter's increase.
LEMMA StoreStep ==
  ASSUME Inv, NEW c \in Clients, StoreCounter(c)
  PROVE  Inv'
  <1> USE DEF Inv, StoreCounter, Goto
  <1>1. \A d \in Clients : pc[d] \notin Reading
    BY NoCopy DEF Writing
  <1>2. Current(c) \in Item /\ Current(c).type = "counter" /\ Current(c).val # Nil
    BY CurrentType DEF CallInv
  <1>3. Current(c).val \in Word /\ Current(c).name \in Names
    BY <1>2 DEF Item
  <1>4. data' \in Data
    BY <1>3, SumType, StoreType DEF TypeOK
  <1>5. TypeOK' BY <1>4 DEF TypeOK, PCs
  <1>6. LockInv' BY DEF TypeOK, LockInv, Writing, Reading, Writes
  <1>7. CallInv' BY DEF TypeOK, CallInv, Writing, Reading, Writes, Current
  <1>8. CopyInv' BY <1>1 DEF TypeOK, CopyInv, Reading
  <1> QED BY <1>5, <1>6, <1>7, <1>8

\* The read of a value, or the copy of the gauges.
LEMMA ReadStep ==
  ASSUME Inv, NEW c \in Clients, Read(c)
  PROVE  Inv'
  <1> USE DEF Inv, Read, Goto
  <1>1. request[c] \in Requests /\ request[c].op # "write"
    BY DEF CallInv, Reading, Writes
  <1>2. CASE request[c].op = "getAll"
    <2>1. seen' = [seen EXCEPT ![c].gauge = data.gauge] /\ pc' = [pc EXCEPT ![c] = "counters"]
      BY <1>2
    <2>2. TypeOK' BY <2>1 DEF TypeOK, PCs, Data
    <2>3. LockInv' BY <2>1 DEF TypeOK, LockInv, Writing, Reading, Writes
    <2>4. CallInv' BY <1>2, <2>1 DEF TypeOK, CallInv, Writing, Reading, Writes, Current
    <2>5. CopyInv' BY <2>1 DEF TypeOK, CopyInv, Data
    <2> QED BY <2>2, <2>3, <2>4, <2>5
  <1>3. CASE request[c].op = "getGauge"
    <2>1. /\ seen' = [seen EXCEPT ![c].gauge[request[c].name] = data.gauge[request[c].name]]
          /\ pc' = [pc EXCEPT ![c] = "runlock"]
      BY <1>3
    <2>2. request[c].name \in Names
      BY <1>1, <1>3, RequestAssumption DEF IsRequest
    <2>3. TypeOK' BY <2>1, <2>2 DEF TypeOK, PCs, Data
    <2>4. LockInv' BY <2>1 DEF TypeOK, LockInv, Writing, Reading, Writes
    <2>5. CallInv' BY <2>1 DEF TypeOK, CallInv, Writing, Reading, Writes, Current
    <2>6. CopyInv' BY <1>3, <2>1 DEF TypeOK, CopyInv
    <2> QED BY <2>3, <2>4, <2>5, <2>6
  <1>4. CASE request[c].op = "getCounter"
    <2>1. /\ seen' = [seen EXCEPT ![c].counter[request[c].name] = data.counter[request[c].name]]
          /\ pc' = [pc EXCEPT ![c] = "runlock"]
      BY <1>4
    <2>2. request[c].name \in Names
      BY <1>1, <1>4, RequestAssumption DEF IsRequest
    <2>3. TypeOK' BY <2>1, <2>2 DEF TypeOK, PCs, Data
    <2>4. LockInv' BY <2>1 DEF TypeOK, LockInv, Writing, Reading, Writes
    <2>5. CallInv' BY <2>1 DEF TypeOK, CallInv, Writing, Reading, Writes, Current
    <2>6. CopyInv' BY <1>4, <2>1 DEF TypeOK, CopyInv
    <2> QED BY <2>3, <2>4, <2>5, <2>6
  <1> QED BY <1>1, <1>2, <1>3, <1>4, RequestAssumption DEF IsRequest

\* The copy of the counters completes the snapshot.
LEMMA ReadCountersStep ==
  ASSUME Inv, NEW c \in Clients, ReadCounters(c)
  PROVE  Inv'
  <1> USE DEF Inv, ReadCounters, Goto
  <1>1. request[c].op = "getAll" /\ seen[c].gauge = data.gauge
    BY DEF CallInv, CopyInv
  <1>2. seen'[c] = data
    BY <1>1 DEF TypeOK, Data
  <1>3. TypeOK' BY DEF TypeOK, PCs, Data
  <1>4. LockInv' BY DEF TypeOK, LockInv, Writing, Reading, Writes
  <1>5. CallInv' BY DEF TypeOK, CallInv, Writing, Reading, Writes, Current
  <1>6. CopyInv' BY <1>2 DEF TypeOK, CopyInv
  <1> QED BY <1>3, <1>4, <1>5, <1>6

\* Every step keeps the invariant.
LEMMA NextInv == Inv /\ [Next]_vars => Inv'
  <1> SUFFICES ASSUME Inv, [Next]_vars PROVE Inv'
    OBVIOUS
  <1>1. CASE UNCHANGED vars
    BY <1>1 DEF vars, Inv, TypeOK, LockInv, CallInv, CopyInv, Writes, Current
  <1>2. ASSUME NEW c \in Clients, Step(c) PROVE Inv'
    BY <1>2, LockStep, UnlockStep, ReturnStep, WriteItemStep, StoreStep, ReadStep,
       ReadCountersStep DEF Step
  <1> QED BY <1>1, <1>2, CallStep DEF Next

\* The invariant holds throughout.
LEMMA Invariance == Spec => []Inv
  BY InitInv, NextInv, PTL DEF Spec

\* The maps, the lock and the locals keep their types; counters stay machine words.
THEOREM TypeCorrect == Spec => []TypeOK
  <1>1. Inv => TypeOK BY DEF Inv
  <1> QED BY <1>1, Invariance, PTL

\* No two goroutines touch the maps at once with one of them writing, however many
\* call the methods.
THEOREM NoMapRace == Spec => []MapsExclusive
  <1>1. Inv => MapsExclusive
    BY DEF Inv, LockInv, MapsExclusive
  <1> QED BY <1>1, Invariance, PTL

\* GetAllMetrics returns both maps of one instant.
THEOREM SnapshotIsConsistent == Spec => []SnapshotOfOneInstant
  <1>1. Inv => SnapshotOfOneInstant
    BY DEF Inv, CopyInv, SnapshotOfOneInstant
  <1> QED BY <1>1, Invariance, PTL

----------------------------------------------------------------------------
(* The storage implements its specification. *)

\* Half way through its batch a writer has made of the data it found what the first
\* items make of them; a client keeps nothing from call to call.
BatchInv ==
    \A c \in Clients :
        /\ request[c] = NoRequest <=> pc[c] = "idle"
        /\ pc[c] \in {"write", "store"} =>
             /\ index[c] \in 1 .. Len(request[c].items) + 1
             /\ data = After(before, request[c].items, index[c] - 1)
        /\ pc[c] = "store" => old[c] = data.counter[Current(c).name]
        /\ pc[c] = "unlock" => data = ApplyAll(before, request[c].items)
        /\ Writes(c) \/ pc[c] \notin {"counters", "runlock", "return"} => seen[c] = Empty

FullInv == Inv /\ BatchInv

\* A request is none of a client that is in no call.
LEMMA RequestIsOne ==
  ASSUME NEW r \in Requests
  PROVE  r # NoRequest
  BY RequestAssumption DEF IsRequest, NoRequest

\* The batch of a writer is one of items.
LEMMA BatchType ==
  ASSUME Inv, NEW c \in Clients, pc[c] \in Writing
  PROVE  request[c].items \in Seq(Item) /\ Len(request[c].items) \in Nat /\ before \in Data
  <1>1. request[c] \in Requests /\ request[c].op = "write"
    BY DEF Inv, CallInv, Writes, Writing
  <1> QED BY <1>1, RequestAssumption DEF IsRequest, Inv, TypeOK

\* Nothing is done of a batch when the lock is taken, and all when the range is over.
LEMMA InitBatch == Init => BatchInv
  BY DEF Init, BatchInv, NoRequest, Writes

\* The steps that leave the maps alone.
LEMMA QuietBatchStep ==
  ASSUME FullInv, NEW c \in Clients,
         \/ \E r \in Requests : Call(c, r)
         \/ Announce(c) \/ RLock(c) \/ RUnlock(c) \/ Return(c) \/ Unlock(c)
  PROVE  BatchInv'
  <1> USE DEF FullInv, Inv, Goto
  <1>1. ASSUME NEW r \in Requests, Call(c, r) PROVE BatchInv'
    BY <1>1, RequestIsOne DEF Call, TypeOK, BatchInv, Writes, Current
  <1>2. CASE Announce(c)
    BY <1>2 DEF Announce, TypeOK, BatchInv, Writes, Current
  <1>3. CASE RLock(c)
    BY <1>3 DEF RLock, TypeOK, BatchInv, Writes, Current
  <1>4. CASE RUnlock(c)
    BY <1>4 DEF RUnlock, TypeOK, BatchInv, Writes, Current
  <1>5. CASE Return(c)
    <2>1. ASSUME NEW d \in Clients, d # c
          PROVE  /\ pc'[d] = pc[d] /\ request'[d] = request[d] /\ index'[d] = index[d]
                 /\ old'[d] = old[d] /\ seen'[d] = seen[d]
      BY <1>5, <2>1 DEF Return, TypeOK
    <2>2. pc'[c] = "idle" /\ request'[c] = NoRequest /\ seen'[c] = Empty
      BY <1>5 DEF Return, TypeOK
    <2>3. data' = data /\ before' = before
      BY <1>5 DEF Return
    <2> QED BY <2>1, <2>2, <2>3 DEF BatchInv, Writes, Current
  <1>6. CASE Unlock(c)
    <2>1. \A d \in Clients : d \in heldBack => pc[d] = "lock" /\ ~Writes(d)
      BY DEF LockInv
    <2>2. \A d \in Clients :
             pc'[d] = IF d = c THEN "return" ELSE IF d \in heldBack THEN "read" ELSE pc[d]
      BY <1>6 DEF Unlock
    <2>3. UNCHANGED <<data, request, index, old, seen, before>> /\ pc[c] = "unlock"
      BY <1>6 DEF Unlock
    <2>4. Writes(c)
      BY <2>3 DEF CallInv, Writing
    <2> QED BY <2>1, <2>2, <2>3, <2>4 DEF BatchInv, Writes, Current
  <1> QED BY <1>1, <1>2, <1>3, <1>4, <1>5, <1>6

\* The reads of a client are not of another.
LEMMA ReadBatchStep ==
  ASSUME FullInv, NEW c \in Clients, Read(c) \/ ReadCounters(c)
  PROVE  BatchInv'
  <1> USE DEF FullInv, Inv, Goto
  <1>1. ASSUME NEW d \in Clients, d # c PROVE seen'[d] = seen[d] /\ pc'[d] = pc[d]
    <2>1. CASE ReadCounters(c)
      BY <1>1, <2>1 DEF ReadCounters, TypeOK
    <2>2. CASE Read(c)
      <3>1. request[c].op \in {"getGauge", "getCounter", "getAll"}
        BY <2>2, RequestAssumption DEF Read, CallInv, Reading, Writes, IsRequest
      <3> QED BY <1>1, <2>2, <3>1 DEF Read, TypeOK
    <2> QED BY <2>1, <2>2
  <1>2. pc'[c] \in {"counters", "runlock"} /\ ~Writes(c) /\ pc[c] \in Reading
    <2>1. CASE ReadCounters(c)
      BY <2>1 DEF ReadCounters, TypeOK, CallInv, Reading
    <2>2. CASE Read(c)
      <3>1. request[c].op \in {"getGauge", "getCounter", "getAll"}
        BY <2>2, RequestAssumption DEF Read, CallInv, Reading, Writes, IsRequest
      <3> QED BY <2>2, <3>1 DEF Read, TypeOK, Reading, Writes
    <2> QED BY <2>1, <2>2
  <1>3. UNCHANGED <<data, request, index, old, before>>
    BY DEF Read, ReadCounters
  <1> QED BY <1>1, <1>2, <1>3 DEF BatchInv, Writes, Current, Reading

\* The writer takes the lock: nothing is done yet.
LEMMA LockBatchStep ==
  ASSUME FullInv, NEW c \in Clients, Lock(c)
  PROVE  BatchInv'
  <1> USE DEF FullInv, Inv, Goto
  <1>1. Writes(c) /\ writer = c
    BY DEF Lock, CallInv, LockInv
  <1>2. request[c] \in Requests /\ request[c].op = "write"
    BY <1>1 DEF Lock, CallInv, Writes
  <1>3. request[c].items \in Seq(Item) /\ Len(request[c].items) \in Nat
    BY <1>2, RequestAssumption DEF IsRequest
  <1>4. After(data, request[c].items, 0) = data
    BY <1>3, ApplyAllItems DEF TypeOK
  <1>5. \A d \in Clients : d # c => pc[d] \notin Writing
    BY <1>1 DEF LockInv
  <1>6. ASSUME NEW d \in Clients, d # c PROVE pc'[d] = pc[d] /\ index'[d] = index[d]
    BY <1>6 DEF Lock, TypeOK
  <1>7. /\ pc'[c] = "write" /\ index'[c] = 1 /\ before' = data
        /\ UNCHANGED <<data, request, old, seen>> /\ pc[c] = "drain"
    BY DEF Lock, TypeOK
  <1>8. index'[c] \in 1 .. Len(request[c].items) + 1 /\ index'[c] - 1 = 0
    BY <1>3, <1>7
  <1> QED BY <1>4, <1>5, <1>6, <1>7, <1>8 DEF BatchInv, Writes, Writing

\* An item more, or the end of the batch.
LEMMA WriteItemBatchStep ==
  ASSUME FullInv, NEW c \in Clients, WriteItem(c)
  PROVE  BatchInv'
  <1> USE DEF FullInv
  <1>1. pc[c] = "write" /\ request[c].items \in Seq(Item) /\ Len(request[c].items) \in Nat
        /\ before \in Data
    BY BatchType DEF WriteItem, Writing
  <1>2. /\ index[c] \in 1 .. Len(request[c].items) + 1
        /\ data = After(before, request[c].items, index[c] - 1)
    BY <1>1 DEF BatchInv
  <1>3. \A d \in Clients : d # c => pc[d] \notin Writing
    BY <1>1 DEF Inv, LockInv, Writing
  <1>4. ASSUME NEW d \in Clients, d # c
        PROVE  pc'[d] = pc[d] /\ index'[d] = index[d] /\ old'[d] = old[d]
    BY <1>4 DEF WriteItem, Goto, Inv, TypeOK
  <1>5. UNCHANGED <<request, seen, before>>
    BY DEF WriteItem
  <1>6. CASE index[c] > Len(request[c].items)
    <2>1. pc'[c] = "unlock" /\ data' = data
      BY <1>6 DEF WriteItem, Goto, Inv, TypeOK
    <2>2. index[c] - 1 = Len(request[c].items)
      BY <1>1, <1>2, <1>6
    <2>3. data = ApplyAll(before, request[c].items)
      BY <1>1, <1>2, <2>2, ApplyAllItems
    <2> QED BY <1>1, <1>3, <1>4, <1>5, <2>1, <2>3 DEF BatchInv, Writes, Writing
  <1>7. CASE index[c] <= Len(request[c].items) /\ Current(c).type = "counter" /\ Current(c).val # Nil
    <2>1. /\ pc'[c] = "store" /\ old'[c] = data.counter[Current(c).name]
          /\ UNCHANGED <<data, index>>
      BY <1>1, <1>2, <1>7 DEF WriteItem, Goto, Inv, TypeOK
    <2> QED BY <1>1, <1>2, <1>3, <1>4, <1>5, <2>1 DEF BatchInv, Writes, Writing, Current
  <1>8. CASE index[c] <= Len(request[c].items) /\ (Current(c).type # "counter" \/ Current(c).val = Nil)
    <2>1. /\ pc'[c] = "write" /\ index'[c] = index[c] + 1
          /\ data' = ApplyItem(data, request[c].items[index[c]])
      BY <1>1, <1>2, <1>8 DEF WriteItem, Goto, Inv, TypeOK, Current
    <2>2. /\ index[c] \in 1 .. Len(request[c].items) /\ index'[c] - 1 = index[c]
          /\ index'[c] \in 1 .. Len(request[c].items) + 1
      BY <1>1, <1>2, <1>8, <2>1
    <2>3. data' = After(before, request[c].items, index'[c] - 1)
      BY <1>1, <1>2, <2>1, <2>2, ApplyAllItems
    <2> QED BY <1>1, <1>3, <1>4, <1>5, <2>1, <2>2, <2>3 DEF BatchInv, Writes, Writing, Current
  <1> QED BY <1>1, <1>2, <1>6, <1>7, <1>8

\* The read of a counter and the write of the sum are what ApplyItem does in one.
LEMMA StoreBatchStep ==
  ASSUME FullInv, NEW c \in Clients, StoreCounter(c)
  PROVE  BatchInv'
  <1> USE DEF FullInv
  <1>1. pc[c] = "store" /\ request[c].items \in Seq(Item) /\ Len(request[c].items) \in Nat
        /\ before \in Data
    BY BatchType DEF StoreCounter, Writing
  <1>2. /\ index[c] \in 1 .. Len(request[c].items)
        /\ data = After(before, request[c].items, index[c] - 1)
        /\ old[c] = data.counter[Current(c).name]
    BY <1>1 DEF BatchInv, Inv, CallInv
  <1>3. \A d \in Clients : d # c => pc[d] \notin Writing
    BY <1>1 DEF Inv, LockInv, Writing
  <1>4. ASSUME NEW d \in Clients, d # c PROVE pc'[d] = pc[d] /\ index'[d] = index[d]
    BY <1>4 DEF StoreCounter, Goto, Inv, TypeOK
  <1>5. pc'[c] = "write" /\ index'[c] = index[c] + 1 /\ UNCHANGED <<request, old, seen, before>>
    BY DEF StoreCounter, Goto, Inv, TypeOK
  <1>6. Current(c).type = "counter" /\ Current(c).val # Nil
    BY <1>1 DEF Inv, CallInv
  <1>7. data' = ApplyItem(data, Current(c))
    BY <1>2, <1>6 DEF StoreCounter, ApplyItem
  <1>8. /\ index'[c] - 1 = index[c] /\ index'[c] \in 1 .. Len(request[c].items) + 1
    BY <1>1, <1>2, <1>5
  <1>9. data' = After(before, request[c].items, index'[c] - 1)
    BY <1>1, <1>2, <1>7, <1>8, ApplyAllItems DEF Current
  <1> QED BY <1>1, <1>3, <1>4, <1>5, <1>8, <1>9 DEF BatchInv, Writes, Writing, Current

\* Every step keeps the rest of the invariant too.
LEMMA BatchNext == FullInv /\ [Next]_vars => BatchInv'
  <1> SUFFICES ASSUME FullInv, [Next]_vars PROVE BatchInv'
    OBVIOUS
  <1>1. CASE UNCHANGED vars
    BY <1>1 DEF vars, FullInv, BatchInv, Writes, Current
  <1>2. ASSUME NEW c \in Clients, (\E r \in Requests : Call(c, r)) \/ Step(c) PROVE BatchInv'
    BY <1>2, QuietBatchStep, ReadBatchStep, LockBatchStep, WriteItemBatchStep, StoreBatchStep
       DEF Step
  <1> QED BY <1>1, <1>2 DEF Next

\* The invariant holds throughout.
LEMMA FullInvariance == Spec => []FullInv
  <1>1. Init => FullInv
    BY InitInv, InitBatch DEF FullInv
  <1>2. FullInv /\ [Next]_vars => FullInv'
    BY NextInv, BatchNext DEF FullInv
  <1> QED BY <1>1, <1>2, PTL DEF Spec

\* The data, the answers and the clients served of the abstract storage.
AData == IF \E c \in Clients : pc[c] \in Writing THEN before ELSE data
ADone == {c \in Clients : pc[c] \in {"runlock", "return"}}
AAnswer == [c \in Clients |-> IF pc[c] \in {"runlock", "return"} THEN seen[c] ELSE Empty]

\* The instance speaks of the same data.
LEMMA AbstractData ==
    /\ Abstract!Empty = Empty /\ Abstract!NoRequest = NoRequest
    /\ \A d, items : Abstract!ApplyAll(d, items) = ApplyAll(d, items)
  <1>1. Abstract!Empty = Empty /\ Abstract!NoRequest = NoRequest
    BY DEF Abstract!Empty, Empty, Abstract!NoRequest, NoRequest
  <1>2. \A d, items : Abstract!ApplyAll(d, items) = ApplyAll(d, items)
    BY DEF Abstract!ApplyAll, ApplyAll, Abstract!FoldLeft, FoldLeft, Abstract!MapThenFoldSet,
       MapThenFoldSet, Abstract!ApplyItem, ApplyItem, Abstract!Max, Max, Abstract!OrZero, OrZero,
       Abstract!Wrap, Wrap
  <1> QED BY <1>1, <1>2

\* A step that changes nothing an abstract state is made of.
LEMMA Stutters ==
  ASSUME request' = request, AData' = AData, ADone' = ADone, AAnswer' = AAnswer
  PROVE  UNCHANGED Abstract!svars
  BY AbstractData DEF AData, ADone, AAnswer, Abstract!svars

\* An operation takes effect: a whole update at its Unlock, a read at its last value.
LEMMA TakesEffect ==
  ASSUME NEW c \in Clients, request[c] # NoRequest, c \notin ADone,
         AData' = IF request[c].op = "write" THEN ApplyAll(AData, request[c].items) ELSE AData,
         AAnswer' = [AAnswer EXCEPT ![c] = Abstract!Seen(request[c], AData)],
         ADone' = ADone \cup {c}, request' = request
  PROVE  Abstract!Next
  <1>1. Abstract!Effect(c)
    BY AbstractData DEF AData, ADone, AAnswer, Abstract!Effect
  <1> QED BY <1>1 DEF Abstract!Next

\* What the reads show.
LEMMA SeenByReads ==
  ASSUME NEW r, NEW d
  PROVE  /\ r.op = "write" => Abstract!Seen(r, d) = Empty
         /\ r.op = "getGauge" =>
              Abstract!Seen(r, d) = [Empty EXCEPT !.gauge[r.name] = d.gauge[r.name]]
         /\ r.op = "getCounter" =>
              Abstract!Seen(r, d) = [Empty EXCEPT !.counter[r.name] = d.counter[r.name]]
         /\ r.op = "getAll" => Abstract!Seen(r, d) = d
  BY AbstractData DEF Abstract!Seen

\* While no writer is at work the abstract data are the maps, else what it found.
LEMMA AbstractDataIs ==
  ASSUME Inv, NEW c \in Clients
  PROVE  /\ pc[c] \in Writing => AData = before
         /\ pc[c] \in Reading \cup {"drain"} => AData = data
         /\ writer = NoClient => AData = data
  BY ClientAssumption DEF Inv, LockInv, Writing, Reading, AData

\* A call is a call, a return a return.
LEMMA CallRefines ==
  ASSUME FullInv, NEW c \in Clients, NEW r \in Requests, Call(c, r)
  PROVE  Abstract!Next
  <1> USE DEF FullInv, Inv
  <1>1. request[c] = NoRequest /\ request' = [request EXCEPT ![c] = r]
    BY DEF Call, BatchInv
  <1>2. pc[c] = "idle" /\ pc' = [pc EXCEPT ![c] = "lock"] /\ UNCHANGED <<data, before, seen>>
    BY DEF Call, Goto
  <1>3. \A d \in Clients : d # c => pc'[d] = pc[d]
    BY <1>2 DEF TypeOK
  <1>4. pc'[c] = "lock"
    BY <1>2 DEF TypeOK
  <1>5. AData' = AData /\ ADone' = ADone /\ AAnswer' = AAnswer
    BY <1>2, <1>3, <1>4 DEF AData, ADone, AAnswer, Writing
  <1>6. Abstract!Call(c, r)
    BY <1>1, <1>5, AbstractData DEF Abstract!Call, AData, ADone, AAnswer
  <1> QED BY <1>6 DEF Abstract!Next

LEMMA ReturnRefines ==
  ASSUME FullInv, NEW c \in Clients, Return(c)
  PROVE  Abstract!Next
  <1> USE DEF FullInv, Inv
  <1>1. pc[c] = "return" /\ pc' = [pc EXCEPT ![c] = "idle"] /\ UNCHANGED <<data, before>>
        /\ request' = [request EXCEPT ![c] = NoRequest] /\ seen' = [seen EXCEPT ![c] = Empty]
    BY DEF Return, Goto
  <1>2. pc'[c] = "idle" /\ \A d \in Clients : d # c => pc'[d] = pc[d] /\ seen'[d] = seen[d]
    BY <1>1 DEF TypeOK
  <1>3. AData' = AData
    BY <1>1, <1>2 DEF AData, Writing
  <1>4. c \in ADone /\ ADone' = ADone \ {c}
    BY <1>1, <1>2 DEF ADone
  <1>5. AAnswer' = [AAnswer EXCEPT ![c] = Empty]
    BY <1>2 DEF AAnswer
  <1>6. Abstract!Return(c)
    BY <1>1, <1>3, <1>4, <1>5, AbstractData DEF Abstract!Return, AData, ADone, AAnswer
  <1> QED BY <1>6 DEF Abstract!Next

\* The steps of the lock, and of a batch, show nothing yet.
LEMMA QuietRefines ==
  ASSUME FullInv, NEW c \in Clients,
         Announce(c) \/ Lock(c) \/ RLock(c) \/ RUnlock(c) \/ WriteItem(c) \/ StoreCounter(c)
  PROVE  UNCHANGED Abstract!svars
  <1> USE DEF FullInv, Inv
  <1>1. request' = request /\ seen' = seen /\ \A d \in Clients \ {c} : pc'[d] = pc[d]
    BY DEF Announce, Lock, RLock, RUnlock, WriteItem, StoreCounter, Goto, TypeOK
  <1>2. pc[c] \in {"runlock", "return"} <=> pc'[c] \in {"runlock", "return"}
    BY DEF Announce, Lock, RLock, RUnlock, WriteItem, StoreCounter, Goto, TypeOK
  <1>3. ADone' = ADone /\ AAnswer' = AAnswer
    BY <1>1, <1>2 DEF ADone, AAnswer
  <1>4. AData' = AData
    <2>1. CASE Announce(c) \/ RLock(c) \/ RUnlock(c)
      <3>1. data' = data /\ before' = before /\ (pc[c] \in Writing <=> pc'[c] \in Writing)
        BY <2>1 DEF Announce, RLock, RUnlock, Goto, TypeOK, Writing
      <3> QED BY <1>1, <3>1 DEF AData
    <2>2. CASE Lock(c)
      <3>1. AData = data
        BY <2>2, AbstractDataIs DEF Lock
      <3>2. pc'[c] \in Writing /\ before' = data
        BY <2>2 DEF Lock, Goto, TypeOK, Writing
      <3> QED BY <3>1, <3>2 DEF AData
    <2>3. CASE WriteItem(c) \/ StoreCounter(c)
      <3>1. before' = before /\ pc[c] \in Writing /\ pc'[c] \in Writing
        BY <2>3 DEF WriteItem, StoreCounter, Goto, TypeOK, Writing
      <3> QED BY <3>1 DEF AData
    <2> QED BY <2>1, <2>2, <2>3
  <1> QED BY <1>1, <1>3, <1>4, Stutters

\* The whole update appears when the writer unlocks.
LEMMA UnlockRefines ==
  ASSUME FullInv, NEW c \in Clients, Unlock(c)
  PROVE  Abstract!Next
  <1> USE DEF FullInv, Inv
  <1>1. pc[c] = "unlock" /\ UNCHANGED <<data, request, seen, before>>
        /\ \A d \in Clients :
             pc'[d] = IF d = c THEN "return" ELSE IF d \in heldBack THEN "read" ELSE pc[d]
    BY DEF Unlock
  <1>2. \A d \in Clients : d \in heldBack => pc[d] = "lock"
    BY DEF LockInv
  <1>3. \A d \in Clients : d # c => pc[d] \notin Writing
    BY <1>1 DEF LockInv, Writing
  <1>4. AData = before /\ data = ApplyAll(before, request[c].items)
    BY <1>1, AbstractDataIs DEF BatchInv, Writing
  <1>5. AData' = data
    BY <1>1, <1>3 DEF AData, Writing
  <1>6. request[c].op = "write" /\ request[c] # NoRequest
    BY <1>1 DEF CallInv, BatchInv, Writes, Writing
  <1>7. c \notin ADone /\ ADone' = ADone \cup {c}
    BY <1>1, <1>2 DEF ADone
  <1>8. seen[c] = Empty
    BY <1>6 DEF BatchInv, Writes
  <1>9. AAnswer' = [AAnswer EXCEPT ![c] = Empty]
    BY <1>1, <1>2, <1>8 DEF AAnswer
  <1>10. Abstract!Seen(request[c], AData) = Empty
    BY <1>6, SeenByReads
  <1>11. AAnswer' = [AAnswer EXCEPT ![c] = Abstract!Seen(request[c], AData)]
    BY <1>9, <1>10
  <1>12. AData' = IF request[c].op = "write" THEN ApplyAll(AData, request[c].items) ELSE AData
    BY <1>4, <1>5, <1>6
  <1>13. request' = request
    BY <1>1
  <1> HIDE DEF FullInv, Inv
  <1> QED BY <1>6, <1>7, <1>11, <1>12, <1>13, TakesEffect

\* A read takes effect when its last value is read.
LEMMA ReadsRefine ==
  ASSUME FullInv, NEW c \in Clients, Read(c) \/ ReadCounters(c)
  PROVE  Abstract!Next \/ UNCHANGED Abstract!svars
  <1> USE DEF FullInv, Inv
  <1>1. /\ pc[c] \in {"read", "counters"} /\ UNCHANGED <<data, request, before>>
        /\ request[c].op \in {"getGauge", "getCounter", "getAll"} /\ request[c] # NoRequest
        /\ request[c].op # "write" /\ pc[c] \in Reading
    BY RequestAssumption DEF Read, ReadCounters, CallInv, Reading, Writes, IsRequest, BatchInv
  <1>2. \A d \in Clients : d # c => pc'[d] = pc[d] /\ seen'[d] = seen[d]
    BY <1>1 DEF Read, ReadCounters, Goto, TypeOK
  <1>3. pc'[c] \in {"counters", "runlock"}
    BY <1>1 DEF Read, ReadCounters, Goto, TypeOK
  <1>4. AData = data /\ AData' = data
    <2>1. \A d \in Clients : pc[d] \notin Writing
      BY <1>1 DEF LockInv
    <2> QED BY <1>1, <1>2, <1>3, <2>1 DEF AData, Writing
  <1>5. CASE pc'[c] = "counters"
    <2>1. ADone' = ADone /\ AAnswer' = AAnswer
      BY <1>1, <1>2, <1>5 DEF ADone, AAnswer
    <2> QED BY <1>1, <1>4, <2>1, Stutters
  <1>6. CASE pc'[c] = "runlock"
    <2>1. c \notin ADone /\ ADone' = ADone \cup {c}
      BY <1>1, <1>2, <1>6 DEF ADone
    <2>2. AAnswer' = [AAnswer EXCEPT ![c] = seen'[c]]
      BY <1>2, <1>6 DEF AAnswer
    <2>3. seen'[c] = Abstract!Seen(request[c], data)
      <3>1. CASE ReadCounters(c)
        <4>1. request[c].op = "getAll" /\ seen[c].gauge = data.gauge
          BY <3>1 DEF ReadCounters, CallInv, CopyInv
        <4>2. seen'[c] = data
          BY <3>1, <4>1 DEF ReadCounters, TypeOK, Data
        <4> QED BY <4>1, <4>2, SeenByReads
      <3>2. CASE Read(c) /\ request[c].op # "getAll"
        <4>1. seen[c] = Empty /\ request[c].name \in Names
          <5>1. request[c] \in Requests
            BY <1>1 DEF CallInv
          <5> QED BY <1>1, <3>2, <5>1, RequestAssumption DEF Read, BatchInv, IsRequest
        <4>2. \/ /\ request[c].op = "getGauge"
                 /\ seen' = [seen EXCEPT ![c].gauge[request[c].name] = data.gauge[request[c].name]]
              \/ /\ request[c].op = "getCounter"
                 /\ seen' = [seen EXCEPT ![c].counter[request[c].name] = data.counter[request[c].name]]
          BY <1>1, <3>2 DEF Read
        <4> QED BY <4>1, <4>2, SeenByReads DEF TypeOK
      <3>3. ~(Read(c) /\ request[c].op = "getAll")
        BY <1>6 DEF Read, Goto, TypeOK
      <3> QED BY <3>1, <3>2, <3>3
    <2> QED BY <1>1, <1>4, <2>1, <2>2, <2>3, TakesEffect
  <1> QED BY <1>3, <1>5, <1>6

\* MemStorage implements Storage: every call takes effect at one instant, a batch as a
\* whole, for any number of clients and any requests.
THEOREM MemStorageImplementsStorage == Spec => ImplementsStorage
  <1>1. Init => Abstract!Init
    <2> SUFFICES ASSUME Init PROVE Abstract!Init
      OBVIOUS
    <2>1. AData = Empty /\ ADone = {} /\ AAnswer = [c \in Clients |-> Empty]
      BY DEF Init, AData, ADone, AAnswer
    <2> QED BY <2>1, AbstractData DEF Init, AData, ADone, AAnswer, Abstract!Init
  <1>2. FullInv /\ [Next]_vars => [Abstract!Next]_(Abstract!svars)
    <2> SUFFICES ASSUME FullInv, [Next]_vars PROVE Abstract!Next \/ UNCHANGED Abstract!svars
      OBVIOUS
    <2>1. CASE UNCHANGED vars
      <3>1. request' = request /\ AData' = AData /\ ADone' = ADone /\ AAnswer' = AAnswer
        BY <2>1 DEF vars, AData, ADone, AAnswer
      <3> QED BY <3>1, Stutters
    <2>2. ASSUME NEW c \in Clients, Step(c) PROVE Abstract!Next \/ UNCHANGED Abstract!svars
      BY <2>2, ReturnRefines, QuietRefines, UnlockRefines, ReadsRefine DEF Step
    <2> QED BY <2>1, <2>2, CallRefines DEF Next
  <1> QED BY <1>1, <1>2, FullInvariance, PTL DEF Spec, ImplementsStorage, Abstract!Spec
=============================================================================
