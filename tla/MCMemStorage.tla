---------------------------- MODULE MCMemStorage ----------------------------
(**************************************************************************)
(* Model checking of MemStorage: one metric name for both maps, words of  *)
(* two bits, requests that can tear a batch or lose an increment.         *)
(**************************************************************************)
EXTENDS MemStorage

CONSTANTS A, v0, v1

\* A batch that changes both maps, an item of it with no value, one of another type.
Batch == UpdateBatch(
    <<[type |-> "gauge", name |-> A, val |-> v1], [type |-> "gauge", name |-> A, val |-> Nil],
      [type |-> "other", name |-> A, val |-> Nil], [type |-> "counter", name |-> A, val |-> 1]>>)

AllRequests == {Batch, UpdateGauge(A, v0), UpdateCounter(A, 1), GetAllMetrics,
                GetGauge(A), GetCounter(A)}
=============================================================================
