----------------------------- MODULE MCHandlers -----------------------------
(***************************************************************************)
(* Model checking of Handlers: batches that lock two rows in opposite      *)
(* orders, an update of one of the rows, reads, and requests that are      *)
(* refused.                                                                *)
(***************************************************************************)
EXTENDS Handlers

CONSTANTS A, B, v

Counter(n, d) == [type |-> "counter", name |-> n, val |-> d]
Gauge(n, x) == [type |-> "gauge", name |-> n, val |-> x]
Other == [type |-> "other", name |-> A, val |-> Nil]

AllRequests ==
    {[op |-> "updates", items |-> <<Counter(A, 1), Gauge(A, Nil), Counter(B, 1)>>],
     [op |-> "updates", items |-> <<Counter(B, 1), Gauge(B, v), Counter(A, 1), Counter(A, 1)>>],
     [op |-> "updates", items |-> <<>>],
     [op |-> "update", items |-> <<Counter(A, 1)>>],
     [op |-> "update", items |-> <<Other>>],
     [op |-> "value", items |-> <<Counter(A, Nil)>>],
     [op |-> "value", items |-> <<Other>>],
     [op |-> "index", items |-> <<>>],
     [op |-> "ping", items |-> <<>>]}

BothSinks == <<"file", "http">>
=============================================================================
