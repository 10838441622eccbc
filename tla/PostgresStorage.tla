--------------------------- MODULE PostgresStorage ---------------------------
(***************************************************************************)
(* PostgresStorage: the two tables behind the handlers of the server.      *)
(* A single update is one autocommitted statement, retried after errors of *)
(* the connection; a batch is one transaction, not retried; GetAllMetrics  *)
(* is two queries.                                                         *)
(*                                                                         *)
(* The database is external and modelled by what the code relies on: READ  *)
(* COMMITTED, row locks held to the end of a transaction, detection of     *)
(* deadlocks, an error for a BIGINT out of range.  Every statement may     *)
(* fail, before or after it took effect.                                   *)
(***************************************************************************)
EXTENDS StorageData, FiniteSets

CONSTANTS
    Handlers,    \* the goroutines that serve one request each
    NoHandler,   \* the owner of a row that is not locked
    MaxRetries   \* len(pgDelays) (3)

ASSUME HandlerAssumption ==
    /\ IsFiniteSet(Handlers) /\ NoHandler \notin Handlers
    /\ MaxRetries \in Nat

Tables == {"gauge", "counter"}

\* A request: its kind and its metrics (for a value, the name asked for).
Request == [op : {"update", "updates", "value", "index", "ping"}, items : Seq(Item)]

VARIABLES
    db,        \* the committed rows
    owner,     \* the handler whose transaction has locked each row
    request,   \* the request of each handler
    ctxDone,   \* the client is gone: r.Context() is cancelled
    pc,        \* "idle", "exec", "delay", "begin", "stmt", "commit", "select",
               \* "gauges", "counters", "returned"
    attempt,   \* the number of the attempt in execWithRetry
    index,     \* the item of the range over the batch
    local,     \* the rows a transaction has written and not committed
    seen,      \* what a read has returned, Absent also for an error
    failed,    \* the method has an error to return or to log
    effects    \* history: how often the update of each handler has been committed

dbVars == <<db, owner, local, effects>>
callVars == <<pc, attempt, index, seen, failed>>
storageVars == <<dbVars, callVars>>

StorageTypeOK ==
    /\ db \in Data
    /\ owner \in [Tables \X Names -> Handlers \cup {NoHandler}]
    /\ request \in [Handlers -> Request] /\ ctxDone \in [Handlers -> BOOLEAN]
    /\ pc \in [Handlers -> {"idle", "exec", "delay", "begin", "stmt", "commit", "select",
                            "gauges", "counters", "returned"}]
    /\ attempt \in [Handlers -> 0 .. MaxRetries + 1]
    /\ index \in [Handlers -> Nat]
    /\ local \in [Handlers -> Data] /\ seen \in [Handlers -> Data]
    /\ failed \in [Handlers -> BOOLEAN]
    /\ effects \in [Handlers -> 0 .. MaxRetries + 1]

StorageInit ==
    /\ db = Empty /\ owner = [r \in Tables \X Names |-> NoHandler]
    /\ ctxDone = [h \in Handlers |-> FALSE]
    /\ pc = [h \in Handlers |-> "idle"]
    /\ attempt = [h \in Handlers |-> 0] /\ index = [h \in Handlers |-> 1]
    /\ local = [h \in Handlers |-> Empty] /\ seen = [h \in Handlers |-> Empty]
    /\ failed = [h \in Handlers |-> FALSE] /\ effects = [h \in Handlers |-> 0]

Goto(h, label) == pc' = [pc EXCEPT ![h] = label]

\* The method returns, with an error or without.
ReturnWith(h, error) == Goto(h, "returned") /\ failed' = [failed EXCEPT ![h] = error]

----------------------------------------------------------------------------
(* Rows *)

Current(h) == request[h].items[index[h]]

\* The row of the item is not locked by another transaction.
Free(h, it) == owner[<<it.type, it.name>>] \in {NoHandler, h}

\* Mutant: ON CONFLICT replaces a counter too.
NewValue_Replaces(d, it) == it.val

\* INSERT ... ON CONFLICT DO UPDATE: the new value of the row of an item.
NewValue(d, it) ==
    IF it.type = "gauge" THEN it.val ELSE OrZero(d.counter[it.name]) + it.val

Fits(d, it) == it.type = "gauge" \/ NewValue(d, it) \in Word

Upsert(d, it) == [d EXCEPT ![it.type][it.name] = NewValue(d, it)]

\* What the transaction of h sees: its own writes over the committed rows.
View(h) ==
    [t \in Tables |-> [n \in Names |->
        IF local[h][t][n] # Absent THEN local[h][t][n] ELSE db[t][n]]]

\* The transactions that wait for a row of one another in a circle.
Blocker(h) == owner[<<Current(h).type, Current(h).name>>]

\* The transaction of h is at an item of its batch.
Running(h) == pc[h] = "stmt" /\ index[h] <= Len(request[h].items)

Waiting(h) == Running(h) /\ Current(h).val # Nil /\ ~Free(h, Current(h))

Deadlocked(h) ==
    \E S \in SUBSET Handlers :
        h \in S /\ (\A g \in S : Waiting(g)) /\ S = {Blocker(g) : g \in S}

----------------------------------------------------------------------------
(* UpdateGauge, UpdateCounter: execWithRetry *)

Apply(h, applied) ==
    IF applied
      THEN /\ Free(h, Current(h)) /\ Fits(db, Current(h))
           /\ db' = Upsert(db, Current(h))
           /\ effects' = [effects EXCEPT ![h] = @ + 1]
      ELSE UNCHANGED <<db, effects>>

\* ExecContext returns nil.
Exec(h) ==
    /\ pc[h] = "exec" /\ ~ctxDone[h]
    /\ Apply(h, TRUE) /\ ReturnWith(h, FALSE)
    /\ UNCHANGED <<owner, local, attempt, index, seen>>

\* Mutant: the retries are not counted.
ExecRetriable_Always(h) ==
    /\ pc[h] = "exec" /\ ~ctxDone[h]
    /\ \E applied \in BOOLEAN : Apply(h, applied)
    /\ Goto(h, "delay") /\ UNCHANGED failed
    /\ UNCHANGED <<owner, local, attempt, index, seen>>

\* An error that IsRetriable accepts; with TransactionResolutionUnknown among them,
\* the statement may have been applied.
ExecRetriable(h) ==
    /\ pc[h] = "exec" /\ ~ctxDone[h]
    /\ \E applied \in BOOLEAN : Apply(h, applied)
    /\ IF attempt[h] <= MaxRetries
         THEN Goto(h, "delay") /\ UNCHANGED failed
         ELSE ReturnWith(h, TRUE)
    /\ UNCHANGED <<owner, local, attempt, index, seen>>

\* Any other error, a connection lost with the reply on it included: not retried.
ExecError(h) ==
    /\ pc[h] = "exec"
    /\ \E applied \in BOOLEAN : (applied => ~ctxDone[h]) /\ Apply(h, applied)
    /\ ReturnWith(h, TRUE)
    /\ UNCHANGED <<owner, local, attempt, index, seen>>

\* The select of DoIf: the timer, or the end of the context.
Delay(h) ==
    /\ pc[h] = "delay"
    /\ \/ /\ attempt' = [attempt EXCEPT ![h] = @ + 1] /\ Goto(h, "exec") /\ UNCHANGED failed
       \/ ctxDone[h] /\ ReturnWith(h, TRUE) /\ UNCHANGED attempt
    /\ UNCHANGED <<dbVars, index, seen>>

----------------------------------------------------------------------------
(* UpdateBatch *)

Begin(h) ==
    /\ pc[h] = "begin" /\ ~ctxDone[h] /\ Goto(h, "stmt")
    /\ UNCHANGED <<dbVars, attempt, index, seen, failed>>

BeginError(h) ==
    /\ pc[h] = "begin" /\ ReturnWith(h, TRUE)
    /\ UNCHANGED <<dbVars, attempt, index, seen>>

\* An item without a value, or of another type, is skipped.
Skip(h) ==
    /\ Running(h) /\ Current(h).val = Nil
    /\ index' = [index EXCEPT ![h] = @ + 1]
    /\ UNCHANGED <<dbVars, pc, attempt, seen, failed>>

\* Mutant: the statements run outside the transaction.
Statement_OutsideTx(h) ==
    /\ Running(h) /\ ~ctxDone[h]
    /\ Current(h).val # Nil /\ Free(h, Current(h)) /\ Fits(db, Current(h))
    /\ db' = Upsert(db, Current(h))
    /\ index' = [index EXCEPT ![h] = @ + 1]
    /\ UNCHANGED <<owner, local, effects, pc, attempt, seen, failed>>

Statement(h) ==
    /\ Running(h) /\ ~ctxDone[h]
    /\ LET it == Current(h) IN
       /\ it.val # Nil /\ Free(h, it) /\ Fits(View(h), it)
       /\ owner' = [owner EXCEPT ![<<it.type, it.name>>] = h]
       /\ local' = [local EXCEPT ![h][it.type][it.name] = NewValue(View(h), it)]
    /\ index' = [index EXCEPT ![h] = @ + 1]
    /\ UNCHANGED <<db, effects, pc, attempt, seen, failed>>

EndOfBatch(h) ==
    /\ pc[h] = "stmt" /\ ~Running(h) /\ Goto(h, "commit")
    /\ UNCHANGED <<dbVars, attempt, index, seen, failed>>

\* The transaction ends: its locks and its view are gone.
EndTransaction(h) ==
    /\ owner' = [r \in DOMAIN owner |-> IF owner[r] = h THEN NoHandler ELSE owner[r]]
    /\ local' = [local EXCEPT ![h] = Empty]

\* Mutant: an error returns without the deferred Rollback.
BatchError_NoRollback(h) ==
    /\ pc[h] = "stmt" /\ ReturnWith(h, TRUE)
    /\ UNCHANGED <<dbVars, attempt, index, seen>>

\* A statement fails: UpdateBatch returns, with the deferred Rollback.
BatchError(h) ==
    /\ pc[h] = "stmt" /\ EndTransaction(h) /\ ReturnWith(h, TRUE)
    /\ UNCHANGED <<db, effects, attempt, index, seen>>

Commit(h) ==
    /\ pc[h] = "commit" /\ ~ctxDone[h]
    /\ db' = View(h) /\ effects' = [effects EXCEPT ![h] = @ + 1]
    /\ EndTransaction(h) /\ ReturnWith(h, FALSE)
    /\ UNCHANGED <<attempt, index, seen>>

\* Mutant: the error of the Commit is not returned.
CommitError_Ignored(h) ==
    /\ pc[h] = "commit"
    /\ EndTransaction(h) /\ ReturnWith(h, FALSE)
    /\ UNCHANGED <<db, effects, attempt, index, seen>>

\* The Commit fails, or its reply is lost: rolled back, or committed all the same.
CommitError(h) ==
    /\ pc[h] = "commit"
    /\ \/ UNCHANGED <<db, effects>>
       \/ ~ctxDone[h] /\ db' = View(h) /\ effects' = [effects EXCEPT ![h] = @ + 1]
    /\ EndTransaction(h) /\ ReturnWith(h, TRUE)
    /\ UNCHANGED <<attempt, index, seen>>

----------------------------------------------------------------------------
(* GetGauge, GetCounter, GetAllMetrics *)

\* QueryRowContext: the value, no row, or an error; the caller cannot tell the last two.
Select(h) ==
    /\ pc[h] = "select" /\ ~ctxDone[h]
    /\ LET it == Current(h) IN
       seen' = [seen EXCEPT ![h][it.type][it.name] = db[it.type][it.name]]
    /\ ReturnWith(h, FALSE)
    /\ UNCHANGED <<dbVars, attempt, index>>

SelectError(h) ==
    /\ pc[h] = "select" /\ ReturnWith(h, TRUE)
    /\ UNCHANGED <<dbVars, attempt, index, seen>>

\* One query of GetAllMetrics; an error, of the query or after some of the rows, is dropped
\* and leaves the rows read before it.
Query(h, from, table, to, names) ==
    /\ pc[h] = from /\ (ctxDone[h] => names = {})
    /\ seen' = [seen EXCEPT ![h][table] =
                  [n \in Names |-> IF n \in names THEN db[table][n] ELSE Absent]]
    /\ Goto(h, to)
    /\ UNCHANGED <<dbVars, attempt, index, failed>>

QueryGauges(h, names) == Query(h, "gauges", "gauge", "counters", names)
QueryCounters(h, names) == Query(h, "counters", "counter", "returned", names)

\* The client is gone while a row is read (rows.Err): both maps are dropped, and after the
\* gauges the counters are not asked for.
QueryCut(h) ==
    /\ pc[h] \in {"gauges", "counters"} /\ ctxDone[h]
    /\ \E n \in Names : db[IF pc[h] = "gauges" THEN "gauge" ELSE "counter"][n] # Absent
    /\ seen' = [seen EXCEPT ![h] = Empty]
    /\ Goto(h, "returned")
    /\ UNCHANGED <<dbVars, attempt, index, failed>>

----------------------------------------------------------------------------
StorageStep(h) ==
    \/ Exec(h) \/ ExecRetriable(h) \/ ExecError(h) \/ Delay(h)
    \/ Begin(h) \/ BeginError(h) \/ Skip(h) \/ Statement(h) \/ EndOfBatch(h) \/ BatchError(h)
    \/ Commit(h) \/ CommitError(h) \/ Select(h) \/ SelectError(h) \/ QueryCut(h)
    \/ \E names \in SUBSET Names : QueryGauges(h, names) \/ QueryCounters(h, names)

\* What the step of h cannot but fail of: a client that is gone, a value out of range,
\* a deadlock.
Doomed(h) ==
    \/ ctxDone[h]
    \/ pc[h] = "exec" /\ Free(h, Current(h)) /\ ~Fits(db, Current(h))
    \/ Running(h) /\ Current(h).val # Nil /\ Free(h, Current(h)) /\ ~Fits(View(h), Current(h))
    \/ Deadlocked(h)

\* The steps a database that works takes: no errors but those.
WorkingStep(h) ==
    \/ Exec(h) \/ Delay(h) \/ Begin(h) \/ Skip(h) \/ Statement(h) \/ EndOfBatch(h) \/ Commit(h)
    \/ Select(h)
    \/ \E names \in SUBSET Names : QueryGauges(h, names) \/ QueryCounters(h, names)
    \/ Doomed(h) /\ (ExecError(h) \/ BeginError(h) \/ BatchError(h) \/ CommitError(h)
                       \/ SelectError(h))
=============================================================================
