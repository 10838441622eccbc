---------------------------- MODULE StorageData ----------------------------
(***************************************************************************)
(* What the metric storages hold and what one item of an update does to    *)
(* it: gauges are replaced, counters are increased in a signed machine     *)
(* word, an item with no value or of another type is skipped.              *)
(***************************************************************************)
EXTENDS Integers, Sequences, SequencesExt

CONSTANTS
    Names,     \* names of the metrics
    Values,    \* values of gauges
    Half,      \* counters are in -Half .. Half-1 (Half = 2^63 in the code)
    Absent,    \* the value of a name that is not in the map
    Nil        \* the value of an item whose pointer is nil

ASSUME DataAssumption ==
    /\ Half \in Nat \ {0}
    /\ Absent \notin Values \cup Int /\ Nil \notin Values \cup Int

Word == -Half .. Half - 1

\* Mutant: a sum that leaves the word.
Wrap_None(x) == x

\* int64 addition wraps around silently.
Wrap(x) == ((x + Half) % (2 * Half)) - Half

Data == [gauge : [Names -> Values \cup {Absent}], counter : [Names -> Word \cup {Absent}]]

Empty == [gauge |-> [n \in Names |-> Absent], counter |-> [n \in Names |-> Absent]]

\* models.Metrics: Value of a gauge or Delta of a counter, nil when missing; a type
\* other than the two is not rejected here.
Item == [type : {"gauge"}, name : Names, val : Values \cup {Nil}]
          \cup [type : {"counter"}, name : Names, val : Word \cup {Nil}]
          \cup [type : {"other"}, name : Names, val : {Nil}]

\* A missing key of a Go map reads as zero.
OrZero(x) == IF x = Absent THEN 0 ELSE x

ApplyItem(d, it) ==
    IF it.val = Nil \/ it.type = "other" THEN d
    ELSE IF it.type = "gauge" THEN [d EXCEPT !.gauge[it.name] = it.val]
    ELSE [d EXCEPT !.counter[it.name] = Wrap(OrZero(@) + it.val)]

\* A whole update: its items in order.
ApplyAll(d, items) == FoldLeft(ApplyItem, d, items)

\* The methods of the Storage and BatchUpdater interfaces, as requests.
UpdateGauge(n, v)   == [op |-> "write", items |-> <<[type |-> "gauge", name |-> n, val |-> v]>>]
UpdateCounter(n, d) == [op |-> "write", items |-> <<[type |-> "counter", name |-> n, val |-> d]>>]
UpdateBatch(items)  == [op |-> "write", items |-> items]
GetGauge(n)         == [op |-> "getGauge", name |-> n]
GetCounter(n)       == [op |-> "getCounter", name |-> n]
GetAllMetrics       == [op |-> "getAll"]

IsRequest(r) ==
    \/ r.op = "write" /\ r.items \in Seq(Item)
    \/ r.op \in {"getGauge", "getCounter"} /\ r.name \in Names
    \/ r.op = "getAll"

\* Of a goroutine that is in no call.
NoRequest == [op |-> "none"]
=============================================================================
