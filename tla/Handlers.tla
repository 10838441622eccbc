------------------------------ MODULE Handlers ------------------------------
(***************************************************************************)
(* The handlers of the server over PostgreSQL: updateHandler,              *)
(* updateHandlerJSON, UpdatesHandler, the value handlers, indexHandler and *)
(* pingHandler, each from its request to its answer, with the audit in     *)
(* between.  The two forms of an update and of a value differ in the       *)
(* status they refuse with only, and are one kind here.                    *)
(***************************************************************************)
EXTENDS PostgresStorage

CONSTANTS
    Requests,   \* what the clients send (a bound: a small set of requests)
    Sinks       \* the audit sinks, in the order of run: <<>>, or "file", "http"

ASSUME SinkAssumption == Sinks \in Seq({"file", "http"})

\* A single update and a value are of one metric.
ASSUME RequestAssumption ==
    /\ Requests \subseteq Request
    /\ \A r \in Requests : r.op \in {"update", "value"} => Len(r.items) = 1

VARIABLES
    stage,    \* "new", "storage", "audit", "answered"
    status,   \* "none", "ok" (200), "refused" (400, 501), "notFound" (404), "error" (500)
    sink,     \* the sink Notify is at
    trail     \* the handlers whose event each sink has taken

handlerVars == <<stage, status, sink, trail>>
vars == <<storageVars, request, ctxDone, handlerVars>>

TypeOK ==
    /\ StorageTypeOK
    /\ stage \in [Handlers -> {"new", "storage", "audit", "answered"}]
    /\ status \in [Handlers -> {"none", "ok", "refused", "notFound", "error"}]
    /\ sink \in [Handlers -> 1 .. Len(Sinks) + 1]
    /\ trail \in [DOMAIN Sinks -> SUBSET Handlers]

Init ==
    /\ StorageInit /\ request \in [Handlers -> Requests]
    /\ stage = [h \in Handlers |-> "new"] /\ status = [h \in Handlers |-> "none"]
    /\ sink = [h \in Handlers |-> 1] /\ trail = [s \in DOMAIN Sinks |-> {}]

Answer(h, code) ==
    /\ stage' = [stage EXCEPT ![h] = "answered"] /\ status' = [status EXCEPT ![h] = code]

\* What a handler refuses: a body that is no JSON or an empty batch (both here the
\* batch with no items), an update without a value, another type.  The items of a
\* batch are not looked at, since both storages have UpdateBatch.  (UpdatesHandler also
\* refuses another Content-Type, with 415: to the client and the storage the same.)
Refuses(r) ==
    \/ r.op = "updates" /\ r.items = <<>>
    \/ r.op = "update" /\ r.items[1].val = Nil
    \/ r.op = "value" /\ r.items[1].type = "other"

\* Also a body that breaks off because the client is gone.
Refuse(h) ==
    /\ stage[h] = "new"
    /\ Refuses(request[h]) \/ (ctxDone[h] /\ request[h].op \in {"update", "updates", "value"})
    /\ Answer(h, "refused")
    /\ UNCHANGED <<storageVars, request, ctxDone, sink, trail>>

\* The method of the storage that serves the request.
Method == [update |-> "exec", updates |-> "begin", value |-> "select", index |-> "gauges"]

CallStorage(h) ==
    /\ stage[h] = "new" /\ ~Refuses(request[h]) /\ request[h].op # "ping"
    /\ stage' = [stage EXCEPT ![h] = "storage"] /\ Goto(h, Method[request[h].op])
    /\ attempt' = [attempt EXCEPT ![h] = 1]
    /\ UNCHANGED <<dbVars, index, seen, failed, request, ctxDone, status, sink, trail>>

\* pingHandler: the database answers or not.
Ping(h) ==
    /\ stage[h] = "new" /\ request[h].op = "ping"
    /\ \E code \in {"ok", "error"} : (ctxDone[h] => code = "error") /\ Answer(h, code)
    /\ UNCHANGED <<storageVars, request, ctxDone, sink, trail>>

InStorage(h) ==
    /\ stage[h] = "storage" /\ StorageStep(h)
    /\ UNCHANGED <<request, ctxDone, handlerVars>>

\* Back from the storage.  The error of a single update has been logged there and is
\* gone; that of a batch is answered; a value that is not there is.
StorageReturns(h) ==
    /\ stage[h] = "storage" /\ pc[h] = "returned"
    /\ Goto(h, "idle")
    /\ LET r == request[h] IN
       IF r.op = "updates" /\ failed[h] THEN Answer(h, "error")
       ELSE IF r.op = "value" /\ seen[h][r.items[1].type][r.items[1].name] = Absent
         THEN Answer(h, "notFound")
       ELSE IF r.op \in {"value", "index"} THEN Answer(h, "ok")
       ELSE stage' = [stage EXCEPT ![h] = "audit"] /\ UNCHANGED status
    /\ UNCHANGED <<dbVars, attempt, index, seen, failed, request, ctxDone, sink, trail>>

\* Notify: one sink after the other; errors are ignored.  The http sink is given the
\* context of the request.
Notify(h) ==
    /\ stage[h] = "audit" /\ sink[h] <= Len(Sinks)
    /\ sink' = [sink EXCEPT ![h] = @ + 1]
    /\ \/ /\ ctxDone[h] => Sinks[sink[h]] = "file"
          /\ trail' = [trail EXCEPT ![sink[h]] = @ \cup {h}]
       \/ UNCHANGED trail
    /\ UNCHANGED <<storageVars, request, ctxDone, stage, status>>

Respond(h) ==
    /\ stage[h] = "audit" /\ sink[h] > Len(Sinks)
    /\ Answer(h, "ok")
    /\ UNCHANGED <<storageVars, request, ctxDone, sink, trail>>

\* The client closes its connection before the answer.
ClientGone(h) ==
    /\ stage[h] # "answered" /\ ~ctxDone[h]
    /\ ctxDone' = [ctxDone EXCEPT ![h] = TRUE]
    /\ UNCHANGED <<storageVars, request, handlerVars>>

Next == \E h \in Handlers :
    \/ Refuse(h) \/ CallStorage(h) \/ Ping(h) \/ InStorage(h) \/ StorageReturns(h)
    \/ Notify(h) \/ Respond(h) \/ ClientGone(h)

Spec == Init /\ [][Next]_vars

\* A handler goes on while the database works; a sink answers in time (the http sink
\* has a timeout of five seconds).
Fairness == \A h \in Handlers :
    /\ WF_vars(Refuse(h) \/ CallStorage(h) \/ Ping(h) \/ StorageReturns(h) \/ Notify(h) \/ Respond(h))
    /\ WF_vars(InStorage(h) /\ WorkingStep(h))

FairSpec == Spec /\ Fairness

----------------------------------------------------------------------------
(* Properties. *)

\* What an item, and a whole request, adds to a counter.
Delta(it, n) == IF it.type = "counter" /\ it.name = n /\ it.val # Nil THEN it.val ELSE 0

Total(h, n) ==
    LET items == request[h].items
    IN SumFunction([i \in DOMAIN items |-> Delta(items[i], n)])

\* A counter is the sum of the deltas of the updates committed, whole batches and
\* single statements with their repetitions: no increment is lost between concurrent
\* handlers, and no batch is stored in part, whatever fails.
CountersAddUp ==
    \A n \in Names :
        OrZero(db.counter[n]) = SumFunction([h \in Handlers |-> effects[h] * Total(h, n)])

Audited(h) == \E s \in DOMAIN trail : h \in trail[s]

\* What the client and the audit are told of a batch is true: stored once, if it is
\* answered 200 or audited; never stored twice; not stored, if it is refused.  (Of a
\* single update only the refusal can be relied on, and a bound on its repetitions.)
StatusTellsEffect ==
    \A h \in Handlers :
        /\ status[h] = "refused" => effects[h] = 0
        /\ request[h].op = "updates" =>
             effects[h] <= 1 /\ (status[h] = "ok" \/ Audited(h) => effects[h] = 1)

\* A handler that is not in a transaction holds no row, so it cannot keep the others
\* waiting, whichever way its transaction has ended.
RowsReleased ==
    \A r \in DOMAIN owner : owner[r] # NoHandler => pc[owner[r]] \in {"stmt", "commit"}

\* How the call of the storage that a handler makes ends, seen from outside.
Outcome(h) ==
    IF stage[h] \in {"audit", "answered"} \/ pc[h] = "returned"
      THEN IF attempt[h] = 0 THEN "none" ELSE IF failed[h] THEN "error" ELSE "ok"
      ELSE IF pc[h] = "idle" THEN "none" ELSE "open"

Abstract == INSTANCE FallibleStorage WITH
    Callers <- Handlers, data <- db, times <- effects, answer <- seen,
    outcome <- [h \in Handlers |-> Outcome(h)]

\* PostgresStorage keeps what can be promised of a database that fails: every change of
\* the tables is one whole update of one caller, repeated at most once per retry (a
\* batch never), and what a reader is shown of a table was there at one instant.
ImplementsFallibleStorage == Abstract!Spec

\* Every request is answered while the database works, though batches may lock the
\* same rows in opposite orders.
EveryRequestAnswered == \A h \in Handlers : stage[h] = "new" ~> stage[h] = "answered"
=============================================================================
