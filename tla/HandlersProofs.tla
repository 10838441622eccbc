--------------------------- MODULE HandlersProofs ---------------------------
(***************************************************************************)
(* Theorems about Handlers: rows are released, answers are true, counters  *)
(* are the sum of the effects, and the storage keeps what FallibleStorage  *)
(* allows; for any number of handlers, any requests, any number of retries *)
(* and any sinks, whatever the database and the clients do.                *)
(*                                                                         *)
(* The invariant says for each handler where it can be (Placed), what it   *)
(* may have changed by then (Counted), and what it has told (Honest).  The *)
(* types of the rows rest on it (Rows), and on both what a transaction     *)
(* holds: its rows are locked (Locked), it sees the committed rows with    *)
(* the items so far (Built), and nothing is left of it before and after    *)
(* (Fresh).                                                                *)
(***************************************************************************)
EXTENDS Handlers, StorageDataProofs

\* The types of everything but the rows of the tables.
FlowTypes ==
    /\ owner \in [Tables \X Names -> Handlers \cup {NoHandler}]
    /\ request \in [Handlers -> Requests] /\ ctxDone \in [Handlers -> BOOLEAN]
    /\ pc \in [Handlers -> {"idle", "exec", "delay", "begin", "stmt", "commit", "select",
                            "gauges", "counters", "returned"}]
    /\ attempt \in [Handlers -> 0 .. MaxRetries + 1]
    /\ index \in [Handlers -> Nat \ {0}]
    /\ failed \in [Handlers -> BOOLEAN]
    /\ effects \in [Handlers -> 0 .. MaxRetries + 1]
    /\ stage \in [Handlers -> {"new", "storage", "audit", "answered"}]
    /\ status \in [Handlers -> {"none", "ok", "refused", "notFound", "error"}]
    /\ sink \in [Handlers -> 1 .. Len(Sinks) + 1]
    /\ trail \in [DOMAIN Sinks -> SUBSET Handlers]

\* Inside the storage a handler is in the method of its request, and nowhere else.
Placed(h) ==
    /\ stage[h] # "storage" => pc[h] = "idle"
    /\ stage[h] = "storage" =>
         \/ request[h].op = "update" /\ pc[h] \in {"exec", "delay", "returned"}
         \/ request[h].op = "updates" /\ pc[h] \in {"begin", "stmt", "commit", "returned"}
         \/ request[h].op = "value" /\ pc[h] \in {"select", "returned"}
         \/ request[h].op = "index" /\ pc[h] \in {"gauges", "counters", "returned"}

\* An attempt takes effect once at most, and a batch has one attempt.
Counted(h) ==
    /\ stage[h] = "new" => effects[h] = 0
    /\ pc[h] = "exec" => effects[h] < attempt[h]
    /\ pc[h] = "delay" => effects[h] <= attempt[h] /\ attempt[h] <= MaxRetries
    /\ request[h].op = "updates" =>
         /\ effects[h] <= 1
         /\ pc[h] \in {"begin", "stmt", "commit"} => effects[h] = 0
         /\ pc[h] = "returned" /\ ~failed[h] => effects[h] = 1

\* Nothing is told before the storage has returned.
Honest(h) ==
    /\ stage[h] \in {"new", "storage"} => ~Audited(h)
    /\ stage[h] # "answered" => status[h] = "none"
    /\ status[h] = "refused" => effects[h] = 0
    /\ request[h].op = "updates" /\ (stage[h] = "audit" \/ status[h] = "ok" \/ Audited(h))
         => effects[h] = 1

HInv ==
    /\ FlowTypes /\ RowsReleased
    /\ \A h \in Handlers : Placed(h) /\ Counted(h) /\ Honest(h)

----------------------------------------------------------------------------
LEMMA InitHInv == Init => HInv
  BY HandlerAssumption, SinkAssumption
  DEF Init, StorageInit, HInv, FlowTypes, RowsReleased, Placed, Counted, Honest, Audited

\* The steps outside of the storage, one lemma each.
LEMMA RefuseHInv == ASSUME HInv, NEW h \in Handlers, Refuse(h) PROVE HInv'
  BY HandlerAssumption, SinkAssumption
  DEF Refuse, Answer, HInv, storageVars, dbVars, callVars, FlowTypes, RowsReleased, Placed,
      Counted, Honest, Audited

LEMMA PingHInv == ASSUME HInv, NEW h \in Handlers, Ping(h) PROVE HInv'
  BY HandlerAssumption, SinkAssumption
  DEF Ping, Answer, HInv, storageVars, dbVars, callVars, FlowTypes, RowsReleased, Placed,
      Counted, Honest, Audited

LEMMA RespondHInv == ASSUME HInv, NEW h \in Handlers, Respond(h) PROVE HInv'
  BY HandlerAssumption, SinkAssumption
  DEF Respond, Answer, HInv, storageVars, dbVars, callVars, FlowTypes, RowsReleased, Placed,
      Counted, Honest, Audited

LEMMA ClientGoneHInv == ASSUME HInv, NEW h \in Handlers, ClientGone(h) PROVE HInv'
  BY HandlerAssumption, SinkAssumption
  DEF ClientGone, HInv, storageVars, dbVars, callVars, handlerVars, FlowTypes, RowsReleased,
      Placed, Counted, Honest, Audited

LEMMA CallStorageHInv == ASSUME HInv, NEW h \in Handlers, CallStorage(h) PROVE HInv'
  <1> DEFINE op == request[h].op
  <1>0. FlowTypes /\ RowsReleased /\ \A g \in Handlers : Placed(g) /\ Counted(g) /\ Honest(g)
    BY DEF HInv
  <1>1. op \in {"update", "updates", "value", "index"}
    BY <1>0, RequestAssumption DEF CallStorage, FlowTypes, Request
  <1>2. \E to \in {"exec", "begin", "select", "gauges"} :
          /\ pc' = [pc EXCEPT ![h] = to]
          /\ op = "update" => to = "exec"
          /\ op = "updates" => to = "begin"
          /\ op = "value" => to = "select"
          /\ op = "index" => to = "gauges"
    <2>1. pc' = [pc EXCEPT ![h] = Method[op]]
      BY DEF CallStorage, Goto
    <2>2. /\ Method["update"] = "exec" /\ Method["updates"] = "begin"
          /\ Method["value"] = "select" /\ Method["index"] = "gauges"
      BY DEF Method
    <2>3. CASE op = "update"  BY <2>1, <2>2, <2>3
    <2>4. CASE op = "updates" BY <2>1, <2>2, <2>4
    <2>5. CASE op = "value"   BY <2>1, <2>2, <2>5
    <2>6. CASE op = "index"   BY <2>1, <2>2, <2>6
    <2> QED BY <1>1, <2>3, <2>4, <2>5, <2>6
  <1>3. PICK to \in {"exec", "begin", "select", "gauges"} :
          /\ pc' = [pc EXCEPT ![h] = to]
          /\ op = "update" => to = "exec"
          /\ op = "updates" => to = "begin"
          /\ op = "value" => to = "select"
          /\ op = "index" => to = "gauges"
    BY <1>2
  <1>4. /\ stage[h] = "new" /\ stage' = [stage EXCEPT ![h] = "storage"]
        /\ attempt' = [attempt EXCEPT ![h] = 1]
        /\ UNCHANGED <<owner, effects, index, failed, request, ctxDone, status, sink, trail>>
    BY DEF CallStorage, dbVars
  <1>5. FlowTypes'
    BY <1>0, <1>3, <1>4, HandlerAssumption DEF FlowTypes
  <1>6. RowsReleased'
    BY <1>0, <1>3, <1>4 DEF FlowTypes, RowsReleased, Placed
  <1>7. \A g \in Handlers : Placed(g)'
    BY <1>0, <1>1, <1>3, <1>4 DEF FlowTypes, Placed
  <1>8. \A g \in Handlers : Counted(g)'
    BY <1>0, <1>1, <1>3, <1>4 DEF FlowTypes, Counted
  <1>9. \A g \in Handlers : Honest(g)'
    BY <1>0, <1>4 DEF FlowTypes, Honest, Audited
  <1> QED BY <1>5, <1>6, <1>7, <1>8, <1>9 DEF HInv

LEMMA StorageReturnsHInv == ASSUME HInv, NEW h \in Handlers, StorageReturns(h) PROVE HInv'
  <1>0. FlowTypes /\ RowsReleased /\ \A g \in Handlers : Placed(g) /\ Counted(g) /\ Honest(g)
    BY DEF HInv
  <1>1. PICK to \in {"audit", "answered"}, code \in {"none", "ok", "notFound", "error"} :
          /\ stage' = [stage EXCEPT ![h] = to] /\ status' = [status EXCEPT ![h] = code]
          /\ to = "audit" => code = "none"
          /\ request[h].op = "updates" =>
               (to = "audit" /\ ~failed[h]) \/ (to = "answered" /\ code = "error")
    <2>1. status[h] = "none" /\ status = [status EXCEPT ![h] = "none"]
      BY <1>0 DEF StorageReturns, FlowTypes, Honest
    <2> QED
      BY <2>1 DEF StorageReturns, Answer
  <1>2. /\ stage[h] = "storage" /\ pc[h] = "returned" /\ pc' = [pc EXCEPT ![h] = "idle"]
        /\ UNCHANGED <<owner, effects, attempt, index, failed, request, ctxDone, sink, trail>>
    BY DEF StorageReturns, Goto, dbVars
  <1>5. FlowTypes'
    BY <1>0, <1>1, <1>2 DEF FlowTypes
  <1>6. RowsReleased'
    BY <1>0, <1>2 DEF FlowTypes, RowsReleased
  <1>7. \A g \in Handlers : Placed(g)'
    BY <1>0, <1>1, <1>2 DEF FlowTypes, Placed
  <1>8. \A g \in Handlers : Counted(g)'
    BY <1>0, <1>1, <1>2 DEF FlowTypes, Counted
  <1>9. \A g \in Handlers : Honest(g)'
    BY <1>0, <1>1, <1>2 DEF FlowTypes, Counted, Honest, Audited
  <1> QED BY <1>5, <1>6, <1>7, <1>8, <1>9 DEF HInv

LEMMA NotifyHInv == ASSUME HInv, NEW h \in Handlers, Notify(h) PROVE HInv'
  <1>0. FlowTypes /\ RowsReleased /\ \A g \in Handlers : Placed(g) /\ Counted(g) /\ Honest(g)
    BY DEF HInv
  <1>1. /\ stage[h] = "audit" /\ sink[h] \in DOMAIN Sinks
        /\ sink' = [sink EXCEPT ![h] = @ + 1]
        /\ \/ trail' = [trail EXCEPT ![sink[h]] = @ \cup {h}]
           \/ trail' = trail
        /\ UNCHANGED <<owner, effects, pc, attempt, index, failed, request, ctxDone, stage, status>>
    BY <1>0, SinkAssumption DEF Notify, FlowTypes, storageVars, dbVars, callVars
  <1>2. /\ DOMAIN Sinks = 1 .. Len(Sinks) /\ Len(Sinks) \in Nat
        /\ sink[h] \in Nat
    BY <1>0, SinkAssumption DEF FlowTypes
  <1>3. /\ trail' \in [DOMAIN Sinks -> SUBSET Handlers]
        /\ \A g \in Handlers : g # h => (Audited(g)' <=> Audited(g))
    <2>1. trail \in [DOMAIN Sinks -> SUBSET Handlers]
      BY <1>0 DEF FlowTypes
    <2>2. trail' \in [DOMAIN Sinks -> SUBSET Handlers]
      BY <1>1, <2>1
    <2>3. \A s \in DOMAIN Sinks, g \in Handlers : g # h => (g \in trail'[s] <=> g \in trail[s])
      BY <1>1, <2>1
    <2> QED
      BY <2>1, <2>2, <2>3 DEF Audited
  <1>4. FlowTypes'
    BY <1>0, <1>1, <1>2, <1>3 DEF FlowTypes
  <1>5. RowsReleased' /\ \A g \in Handlers : Placed(g)' /\ Counted(g)'
    BY <1>0, <1>1 DEF RowsReleased, Placed, Counted
  <1>6. \A g \in Handlers : Honest(g)'
    BY <1>0, <1>1, <1>3 DEF FlowTypes, Honest
  <1> QED BY <1>4, <1>5, <1>6 DEF HInv

----------------------------------------------------------------------------
(* The steps inside of the storage. *)

\* A step of h that takes it to label "to" of its method, the attempt to a, the count of
\* its effects to n, and locks or releases no rows but its own.
Moves(h, to, error, n, a) ==
    /\ pc' = [pc EXCEPT ![h] = to] /\ failed' = [failed EXCEPT ![h] = error]
    /\ effects' = [effects EXCEPT ![h] = n] /\ attempt' = [attempt EXCEPT ![h] = a]
    /\ index' \in [Handlers -> Nat \ {0}]
    /\ owner' \in [Tables \X Names -> Handlers \cup {NoHandler}]
    /\ \A r \in Tables \X Names :
         \/ owner'[r] = owner[r] /\ (owner[r] = h => to \in {"stmt", "commit"})
         \/ owner'[r] = NoHandler
         \/ owner'[r] = h /\ to \in {"stmt", "commit"}

\* What such a step has to keep to.
Lawful(h, to, error, n, a) ==
    /\ n \in 0 .. MaxRetries + 1 /\ a \in 0 .. MaxRetries + 1 /\ error \in BOOLEAN
    /\ \/ request[h].op = "update" /\ to \in {"exec", "delay", "returned"}
       \/ request[h].op = "updates" /\ to \in {"stmt", "commit", "returned"}
       \/ request[h].op \in {"value", "index"} /\ to \in {"counters", "returned"}
            /\ (to = "counters" => request[h].op = "index")
    /\ to = "exec" => n < a
    /\ to = "delay" => n <= a /\ a <= MaxRetries
    /\ request[h].op = "updates" =>
         n <= 1 /\ (to # "returned" => n = 0) /\ (to = "returned" /\ ~error => n = 1)

Inside(h) == stage[h] = "storage" /\ UNCHANGED <<request, ctxDone, handlerVars>>

LEMMA MovesHInv ==
  ASSUME HInv, NEW h \in Handlers, Inside(h), NEW to, NEW error, NEW n, NEW a,
         Moves(h, to, error, n, a), Lawful(h, to, error, n, a)
  PROVE  HInv'
  <1>0. FlowTypes /\ RowsReleased /\ \A g \in Handlers : Placed(g) /\ Counted(g) /\ Honest(g)
    BY DEF HInv
  <1>1. stage[h] = "storage" /\ UNCHANGED <<request, ctxDone, stage, status, sink, trail>>
    BY DEF Inside, handlerVars
  <1>2. to \in {"exec", "delay", "stmt", "commit", "counters", "returned"}
    BY DEF Lawful
  <1>3. FlowTypes'
    BY <1>0, <1>1, <1>2 DEF FlowTypes, Moves, Lawful
  <1>4. RowsReleased'
    <2> SUFFICES ASSUME NEW r \in Tables \X Names, owner'[r] # NoHandler
                 PROVE  pc'[owner'[r]] \in {"stmt", "commit"}
      BY <1>3 DEF FlowTypes, RowsReleased
    <2>1. CASE owner'[r] = h
      BY <1>0, <2>1 DEF FlowTypes, Moves
    <2>2. CASE owner'[r] # h
      <3>1. owner'[r] = owner[r] /\ owner[r] \in Handlers
        BY <1>0, <2>2 DEF FlowTypes, Moves
      <3>2. pc[owner[r]] \in {"stmt", "commit"}
        BY <1>0, <3>1 DEF FlowTypes, RowsReleased
      <3> QED
        BY <1>0, <2>2, <3>1, <3>2 DEF FlowTypes, Moves
    <2> QED BY <2>1, <2>2
  <1>5. \A g \in Handlers : Placed(g)'
    BY <1>0, <1>1 DEF FlowTypes, Placed, Moves, Lawful
  <1>6. \A g \in Handlers : Counted(g)'
    BY <1>0, <1>1 DEF FlowTypes, Counted, Moves, Lawful
  <1>7. \A g \in Handlers : Honest(g)'
    BY <1>0, <1>1 DEF FlowTypes, Honest, Audited, Moves
  <1> QED BY <1>3, <1>4, <1>5, <1>6, <1>7 DEF HInv

\* Where h is, and that it holds no rows unless it is in a transaction.
LEMMA HereHInv ==
  ASSUME HInv, NEW h \in Handlers, Inside(h)
  PROVE  /\ FlowTypes /\ Placed(h) /\ Counted(h)
         /\ pc[h] \notin {"stmt", "commit"} => \A r \in Tables \X Names : owner[r] # h
         /\ Handlers \cap {NoHandler} = {} /\ MaxRetries \in Nat
  BY HandlerAssumption DEF HInv, FlowTypes, RowsReleased

LEMMA SingleHInv ==
  ASSUME HInv, NEW h \in Handlers, Inside(h), Exec(h) \/ ExecRetriable(h) \/ ExecError(h) \/ Delay(h)
  PROVE  HInv'
  <1>0. /\ FlowTypes /\ Placed(h) /\ Counted(h)
        /\ pc[h] \notin {"stmt", "commit"} => \A r \in Tables \X Names : owner[r] # h
        /\ Handlers \cap {NoHandler} = {} /\ MaxRetries \in Nat
    BY HereHInv
  <1>1. CASE Exec(h)
    <2>1. Moves(h, "returned", FALSE, effects[h] + 1, attempt[h])
      BY <1>0, <1>1 DEF Exec, Apply, ReturnWith, Goto, FlowTypes, Moves
    <2>2. Lawful(h, "returned", FALSE, effects[h] + 1, attempt[h])
      BY <1>0, <1>1 DEF Exec, FlowTypes, Placed, Counted, Inside, Lawful
    <2> QED BY <2>1, <2>2, MovesHInv
  <1>2. CASE ExecRetriable(h)
    <2>1. PICK n \in {effects[h], effects[h] + 1} : effects' = [effects EXCEPT ![h] = n]
      BY <1>0, <1>2 DEF ExecRetriable, Apply, FlowTypes
    <2>2. CASE attempt[h] <= MaxRetries
      <3>1. Moves(h, "delay", failed[h], n, attempt[h])
        BY <1>0, <1>2, <2>1, <2>2 DEF ExecRetriable, Goto, FlowTypes, Moves
      <3>2. Lawful(h, "delay", failed[h], n, attempt[h])
        BY <1>0, <1>2, <2>1, <2>2 DEF ExecRetriable, FlowTypes, Placed, Counted, Inside, Lawful
      <3> QED BY <3>1, <3>2, MovesHInv
    <2>3. CASE ~(attempt[h] <= MaxRetries)
      <3>1. Moves(h, "returned", TRUE, n, attempt[h])
        BY <1>0, <1>2, <2>1, <2>3 DEF ExecRetriable, ReturnWith, Goto, FlowTypes, Moves
      <3>2. Lawful(h, "returned", TRUE, n, attempt[h])
        BY <1>0, <1>2, <2>1, <2>3 DEF ExecRetriable, FlowTypes, Placed, Counted, Inside, Lawful
      <3> QED BY <3>1, <3>2, MovesHInv
    <2> QED BY <2>2, <2>3
  <1>3. CASE ExecError(h)
    <2>1. PICK n \in {effects[h], effects[h] + 1} : effects' = [effects EXCEPT ![h] = n]
      BY <1>0, <1>3 DEF ExecError, Apply, FlowTypes
    <2>2. Moves(h, "returned", TRUE, n, attempt[h])
      BY <1>0, <1>3, <2>1 DEF ExecError, ReturnWith, Goto, FlowTypes, Moves
    <2>3. Lawful(h, "returned", TRUE, n, attempt[h])
      BY <1>0, <1>3, <2>1 DEF ExecError, FlowTypes, Placed, Counted, Inside, Lawful
    <2> QED BY <2>2, <2>3, MovesHInv
  <1>4. CASE Delay(h)
    <2>1. CASE attempt' = [attempt EXCEPT ![h] = @ + 1] /\ Goto(h, "exec") /\ UNCHANGED failed
      <3>1. Moves(h, "exec", failed[h], effects[h], attempt[h] + 1)
        BY <1>0, <1>4, <2>1 DEF Delay, Goto, FlowTypes, Moves, dbVars
      <3>2. Lawful(h, "exec", failed[h], effects[h], attempt[h] + 1)
        BY <1>0, <1>4 DEF Delay, FlowTypes, Placed, Counted, Inside, Lawful
      <3> QED BY <3>1, <3>2, MovesHInv
    <2>2. CASE ReturnWith(h, TRUE) /\ UNCHANGED attempt
      <3>1. Moves(h, "returned", TRUE, effects[h], attempt[h])
        BY <1>0, <1>4, <2>2 DEF Delay, ReturnWith, Goto, FlowTypes, Moves, dbVars
      <3>2. Lawful(h, "returned", TRUE, effects[h], attempt[h])
        BY <1>0, <1>4 DEF Delay, FlowTypes, Placed, Counted, Inside, Lawful
      <3> QED BY <3>1, <3>2, MovesHInv
    <2> QED BY <1>4, <2>1, <2>2 DEF Delay
  <1> QED BY <1>1, <1>2, <1>3, <1>4

\* The end of a transaction gives up its rows and no others.
LEMMA Release ==
  ASSUME NEW h \in Handlers, owner \in [Tables \X Names -> Handlers \cup {NoHandler}],
         EndTransaction(h)
  PROVE  /\ owner' \in [Tables \X Names -> Handlers \cup {NoHandler}]
         /\ \A r \in Tables \X Names :
              \/ owner'[r] = owner[r] /\ owner[r] # h
              \/ owner'[r] = NoHandler
  BY DEF EndTransaction

LEMMA BatchHInv ==
  ASSUME HInv, NEW h \in Handlers, Inside(h),
         Begin(h) \/ BeginError(h) \/ Skip(h) \/ EndOfBatch(h) \/ BatchError(h)
  PROVE  HInv'
  <1>0. /\ FlowTypes /\ Placed(h) /\ Counted(h)
        /\ pc[h] \notin {"stmt", "commit"} => \A r \in Tables \X Names : owner[r] # h
        /\ Handlers \cap {NoHandler} = {} /\ MaxRetries \in Nat
    BY HereHInv
  <1>1. CASE Begin(h)
    <2>1. Moves(h, "stmt", failed[h], effects[h], attempt[h])
      BY <1>0, <1>1 DEF Begin, Goto, dbVars, FlowTypes, Moves
    <2>2. Lawful(h, "stmt", failed[h], effects[h], attempt[h])
      BY <1>0, <1>1 DEF Begin, FlowTypes, Placed, Counted, Inside, Lawful
    <2> QED BY <2>1, <2>2, MovesHInv
  <1>2. CASE BeginError(h)
    <2>1. Moves(h, "returned", TRUE, effects[h], attempt[h])
      BY <1>0, <1>2 DEF BeginError, ReturnWith, Goto, dbVars, FlowTypes, Moves
    <2>2. Lawful(h, "returned", TRUE, effects[h], attempt[h])
      BY <1>0, <1>2 DEF BeginError, FlowTypes, Placed, Counted, Inside, Lawful
    <2> QED BY <2>1, <2>2, MovesHInv
  <1>3. CASE Skip(h)
    <2>1. Moves(h, "stmt", failed[h], effects[h], attempt[h])
      BY <1>0, <1>3 DEF Skip, Running, dbVars, FlowTypes, Moves
    <2>2. Lawful(h, "stmt", failed[h], effects[h], attempt[h])
      BY <1>0, <1>3 DEF Skip, FlowTypes, Placed, Counted, Inside, Lawful, Running
    <2> QED BY <2>1, <2>2, MovesHInv
  <1>4. CASE EndOfBatch(h)
    <2>1. Moves(h, "commit", failed[h], effects[h], attempt[h])
      BY <1>0, <1>4 DEF EndOfBatch, Goto, dbVars, FlowTypes, Moves
    <2>2. Lawful(h, "commit", failed[h], effects[h], attempt[h])
      BY <1>0, <1>4 DEF EndOfBatch, FlowTypes, Placed, Counted, Inside, Lawful
    <2> QED BY <2>1, <2>2, MovesHInv
  <1>5. CASE BatchError(h)
    <2>1. Moves(h, "returned", TRUE, effects[h], attempt[h])
      BY <1>0, <1>5, Release DEF BatchError, ReturnWith, Goto, FlowTypes, Moves
    <2>2. Lawful(h, "returned", TRUE, effects[h], attempt[h])
      BY <1>0, <1>5 DEF BatchError, FlowTypes, Placed, Counted, Inside, Lawful
    <2> QED BY <2>1, <2>2, MovesHInv
  <1> QED BY <1>1, <1>2, <1>3, <1>4, <1>5

LEMMA StatementHInv ==
  ASSUME HInv, NEW h \in Handlers, Inside(h), Statement(h)
  PROVE  HInv'
  <1>0. /\ FlowTypes /\ Placed(h) /\ Counted(h)
        /\ pc[h] \notin {"stmt", "commit"} => \A r \in Tables \X Names : owner[r] # h
        /\ Handlers \cap {NoHandler} = {} /\ MaxRetries \in Nat
    BY HereHInv
  <1>1. /\ Running(h) /\ Current(h).val # Nil
        /\ owner' = [owner EXCEPT ![<<Current(h).type, Current(h).name>>] = h]
        /\ index' = [index EXCEPT ![h] = @ + 1]
        /\ UNCHANGED <<effects, pc, attempt, failed>>
    BY DEF Statement
  <1>2. Current(h) \in Item
    <2>1. request[h].items \in Seq(Item)
      BY <1>0, RequestAssumption DEF FlowTypes, Request
    <2>2. index[h] \in 1 .. Len(request[h].items)
      BY <1>0, <1>1, <2>1 DEF Running, FlowTypes
    <2> QED BY <2>1, <2>2 DEF Current
  <1>3. <<Current(h).type, Current(h).name>> \in Tables \X Names
    BY <1>1, <1>2 DEF Item, Tables
  <1>4. PICK row \in Tables \X Names : owner' = [owner EXCEPT ![row] = h]
    BY <1>1, <1>3
  <1>5. Moves(h, "stmt", failed[h], effects[h], attempt[h])
    <2>1. /\ owner' \in [Tables \X Names -> Handlers \cup {NoHandler}]
          /\ \A r \in Tables \X Names : owner'[r] = owner[r] \/ owner'[r] = h
      <3>1. owner \in [Tables \X Names -> Handlers \cup {NoHandler}]
        BY <1>0 DEF FlowTypes
      <3> QED BY <1>4, <3>1
    <2>2. /\ index' \in [Handlers -> Nat \ {0}] /\ pc' = [pc EXCEPT ![h] = "stmt"]
          /\ failed' = [failed EXCEPT ![h] = failed[h]]
          /\ effects' = [effects EXCEPT ![h] = effects[h]]
          /\ attempt' = [attempt EXCEPT ![h] = attempt[h]]
      BY <1>0, <1>1 DEF Running, FlowTypes
    <2> QED BY <2>1, <2>2 DEF Moves
  <1>6. Lawful(h, "stmt", failed[h], effects[h], attempt[h])
    BY <1>0, <1>1 DEF Running, FlowTypes, Placed, Counted, Inside, Lawful
  <1> QED BY <1>5, <1>6, MovesHInv

LEMMA CommitHInv ==
  ASSUME HInv, NEW h \in Handlers, Inside(h), Commit(h) \/ CommitError(h)
  PROVE  HInv'
  <1>0. /\ FlowTypes /\ Placed(h) /\ Counted(h)
        /\ pc[h] \notin {"stmt", "commit"} => \A r \in Tables \X Names : owner[r] # h
        /\ Handlers \cap {NoHandler} = {} /\ MaxRetries \in Nat
    BY HereHInv
  <1>1. CASE Commit(h)
    <2>1. Moves(h, "returned", FALSE, effects[h] + 1, attempt[h])
      BY <1>0, <1>1, Release DEF Commit, ReturnWith, Goto, FlowTypes, Moves
    <2>2. Lawful(h, "returned", FALSE, effects[h] + 1, attempt[h])
      BY <1>0, <1>1 DEF Commit, FlowTypes, Placed, Counted, Inside, Lawful
    <2> QED BY <2>1, <2>2, MovesHInv
  <1>2. CASE CommitError(h)
    <2>1. PICK n \in {effects[h], effects[h] + 1} : effects' = [effects EXCEPT ![h] = n]
      BY <1>0, <1>2 DEF CommitError, FlowTypes
    <2>2. Moves(h, "returned", TRUE, n, attempt[h])
      BY <1>0, <1>2, <2>1, Release DEF CommitError, ReturnWith, Goto, FlowTypes, Moves
    <2>3. Lawful(h, "returned", TRUE, n, attempt[h])
      BY <1>0, <1>2, <2>1 DEF CommitError, FlowTypes, Placed, Counted, Inside, Lawful
    <2> QED BY <2>2, <2>3, MovesHInv
  <1> QED BY <1>1, <1>2

LEMMA ReadHInv ==
  ASSUME HInv, NEW h \in Handlers, Inside(h),
         \/ Select(h) \/ SelectError(h) \/ QueryCut(h)
         \/ \E names \in SUBSET Names : QueryGauges(h, names) \/ QueryCounters(h, names)
  PROVE  HInv'
  <1>0. /\ FlowTypes /\ Placed(h) /\ Counted(h)
        /\ pc[h] \notin {"stmt", "commit"} => \A r \in Tables \X Names : owner[r] # h
        /\ Handlers \cap {NoHandler} = {} /\ MaxRetries \in Nat
    BY HereHInv
  <1>1. CASE Select(h)
    <2>1. Moves(h, "returned", FALSE, effects[h], attempt[h])
      BY <1>0, <1>1 DEF Select, ReturnWith, Goto, dbVars, FlowTypes, Moves
    <2>2. Lawful(h, "returned", FALSE, effects[h], attempt[h])
      BY <1>0, <1>1 DEF Select, FlowTypes, Placed, Counted, Inside, Lawful
    <2> QED BY <2>1, <2>2, MovesHInv
  <1>2. CASE SelectError(h)
    <2>1. Moves(h, "returned", TRUE, effects[h], attempt[h])
      BY <1>0, <1>2 DEF SelectError, ReturnWith, Goto, dbVars, FlowTypes, Moves
    <2>2. Lawful(h, "returned", TRUE, effects[h], attempt[h])
      BY <1>0, <1>2 DEF SelectError, FlowTypes, Placed, Counted, Inside, Lawful
    <2> QED BY <2>1, <2>2, MovesHInv
  <1>3. ASSUME NEW names \in SUBSET Names, QueryGauges(h, names)
        PROVE  HInv'
    <2>1. Moves(h, "counters", failed[h], effects[h], attempt[h])
      BY <1>0, <1>3 DEF QueryGauges, Query, Goto, dbVars, FlowTypes, Moves
    <2>2. Lawful(h, "counters", failed[h], effects[h], attempt[h])
      BY <1>0, <1>3 DEF QueryGauges, Query, FlowTypes, Placed, Counted, Inside, Lawful
    <2> QED BY <2>1, <2>2, MovesHInv
  <1>4. ASSUME NEW names \in SUBSET Names, QueryCounters(h, names)
        PROVE  HInv'
    <2>1. Moves(h, "returned", failed[h], effects[h], attempt[h])
      BY <1>0, <1>4 DEF QueryCounters, Query, Goto, dbVars, FlowTypes, Moves
    <2>2. Lawful(h, "returned", failed[h], effects[h], attempt[h])
      BY <1>0, <1>4 DEF QueryCounters, Query, FlowTypes, Placed, Counted, Inside, Lawful
    <2> QED BY <2>1, <2>2, MovesHInv
  <1>5. CASE QueryCut(h)
    <2>1. Moves(h, "returned", failed[h], effects[h], attempt[h])
      BY <1>0, <1>5 DEF QueryCut, Goto, dbVars, FlowTypes, Moves
    <2>2. Lawful(h, "returned", failed[h], effects[h], attempt[h])
      BY <1>0, <1>5 DEF QueryCut, FlowTypes, Placed, Counted, Inside, Lawful
    <2> QED BY <2>1, <2>2, MovesHInv
  <1> QED BY <1>1, <1>2, <1>3, <1>4, <1>5

LEMMA NextHInv == HInv /\ [Next]_vars => HInv'
  <1> SUFFICES ASSUME HInv, [Next]_vars PROVE HInv'
    OBVIOUS
  <1>1. ASSUME NEW h \in Handlers, InStorage(h) PROVE HInv'
    <2>1. Inside(h) /\ StorageStep(h)
      BY <1>1 DEF InStorage, Inside
    <2> QED
      BY <2>1, SingleHInv, BatchHInv, StatementHInv, CommitHInv, ReadHInv DEF StorageStep
  <1>2. CASE UNCHANGED vars
    BY <1>2 DEF vars, storageVars, dbVars, callVars, handlerVars, HInv, FlowTypes,
                RowsReleased, Placed, Counted, Honest, Audited
  <1> QED
    BY <1>1, <1>2, RefuseHInv, CallStorageHInv, PingHInv, StorageReturnsHInv, NotifyHInv,
       RespondHInv, ClientGoneHInv DEF Next

\* The invariant of the handlers holds in every state of every behaviour.
THEOREM HandlersInvariant == Spec => []HInv
  BY InitHInv, NextHInv, PTL DEF Spec

\* A handler that is not in a transaction holds no row, whichever way its transaction
\* ended: commit, error, rollback, or a client that is gone (UpdateBatch,
\* postgresstorage.go:118).
THEOREM RowsAreReleased == Spec => []RowsReleased
  <1>1. HInv => RowsReleased
    BY DEF HInv
  <1> QED BY <1>1, HandlersInvariant, PTL

\* What the client and the audit are told of a batch is true (UpdatesHandler,
\* updates.go:30).
THEOREM AnswersAreTrue == Spec => []StatusTellsEffect
  <1>1. HInv => StatusTellsEffect
    <2> SUFFICES ASSUME HInv, NEW h \in Handlers
                 PROVE  /\ status[h] = "refused" => effects[h] = 0
                        /\ request[h].op = "updates" =>
                             effects[h] <= 1
                             /\ (status[h] = "ok" \/ Audited(h) => effects[h] = 1)
      BY DEF StatusTellsEffect
    <2> QED BY DEF HInv, Counted, Honest
  <1> QED BY <1>1, HandlersInvariant, PTL
----------------------------------------------------------------------------
(* The rows keep their types. *)

LEMMA ViewType ==
  ASSUME NEW h, db \in Data, local[h] \in Data
  PROVE  View(h) \in Data
  <1>1. View(h) = [gauge |-> View(h)["gauge"], counter |-> View(h)["counter"]]
    BY DEF View, Tables
  <1>2. View(h)["gauge"] \in [Names -> Values \cup {Absent}]
    BY DEF View, Tables, Data
  <1>3. View(h)["counter"] \in [Names -> Word \cup {Absent}]
    BY DEF View, Tables, Data
  <1> QED BY <1>1, <1>2, <1>3 DEF Data

LEMMA NewValueType ==
  ASSUME NEW d \in Data, NEW it \in Item, it.val # Nil, Fits(d, it)
  PROVE  /\ it.name \in Names
         /\ \/ it.type = "gauge" /\ NewValue(d, it) \in Values
            \/ it.type = "counter" /\ NewValue(d, it) \in Word
  BY DEF Item, Fits, NewValue

\* Writing one row.
LEMMA WriteType ==
  ASSUME NEW d \in Data, NEW t, NEW n \in Names, NEW v,
         \/ t = "gauge" /\ v \in Values \cup {Absent}
         \/ t = "counter" /\ v \in Word \cup {Absent}
  PROVE  [d EXCEPT ![t][n] = v] \in Data
  <1>1. CASE t = "gauge"
    BY <1>1 DEF Data
  <1>2. CASE t = "counter"
    BY <1>2 DEF Data
  <1> QED BY <1>1, <1>2

\* The item of a single statement and of a single read is the one of the request, and
\* the handler has not refused it.
Single(h) ==
    /\ stage[h] = "new" \/ pc[h] \in {"exec", "delay", "select"} => index[h] = 1
    /\ pc[h] \in {"exec", "delay", "select"} => ~Refuses(request[h])

Rows ==
    /\ db \in Data /\ local \in [Handlers -> Data] /\ seen \in [Handlers -> Data]
    /\ \A h \in Handlers : Single(h)

LEMMA InitRows == Init => Rows
  <1>1. Empty \in Data
    BY DEF Empty, Data
  <1> QED BY <1>1 DEF Init, StorageInit, Rows, Single

\* The steps that touch neither the rows nor what a handler is about to do with them.
LEMMA OutsideRows ==
  ASSUME HInv, Rows, NEW h \in Handlers,
         \/ Refuse(h) \/ Ping(h) \/ Notify(h) \/ Respond(h) \/ ClientGone(h)
         \/ StorageReturns(h) \/ CallStorage(h)
  PROVE  Rows'
  <1>0. FlowTypes /\ \A g \in Handlers : Placed(g) /\ Single(g)
    BY DEF HInv, Rows
  <1>1. UNCHANGED <<db, local, seen, index, request>>
    BY DEF Refuse, Ping, Notify, Respond, ClientGone, StorageReturns, CallStorage,
           storageVars, dbVars, callVars
  <1>2. \A g \in Handlers \ {h} : pc'[g] = pc[g] /\ stage'[g] = stage[g]
    BY <1>0 DEF Refuse, Ping, Notify, Respond, ClientGone, StorageReturns, CallStorage, Answer,
                Goto, FlowTypes, storageVars, callVars, handlerVars
  <1>3. \A g \in Handlers \ {h} : Single(g)'
    BY <1>0, <1>1, <1>2 DEF Single
  <1>4. Single(h)'
    <2>1. CASE Refuse(h) \/ Ping(h) \/ Notify(h) \/ Respond(h) \/ ClientGone(h)
      <3>1. pc' = pc /\ (stage'[h] = "new" => stage[h] = "new")
        BY <1>0, <2>1 DEF Refuse, Ping, Notify, Respond, ClientGone, Answer, FlowTypes,
                          storageVars, callVars, handlerVars
      <3> QED BY <1>0, <1>1, <3>1 DEF Single
    <2>2. CASE StorageReturns(h)
      <3>1. pc'[h] = "idle" /\ stage'[h] # "new"
        BY <1>0, <2>2 DEF StorageReturns, Goto, Answer, FlowTypes
      <3> QED BY <3>1 DEF Single
    <2>3. CASE CallStorage(h)
      BY <1>0, <1>1, <2>3 DEF CallStorage, Single
    <2> QED BY <2>1, <2>2, <2>3
  <1> QED BY <1>1, <1>3, <1>4 DEF Rows

\* The current item of a step that uses one.
LEMMA CurrentType ==
  ASSUME HInv, Rows, NEW h \in Handlers, Inside(h)
  PROVE  /\ pc[h] = "exec" => Current(h) \in Item /\ Current(h).val # Nil
         /\ pc[h] = "select" => Current(h).type \in Tables /\ Current(h).name \in Names
         /\ Running(h) => Current(h) \in Item
  <1>0. FlowTypes /\ Placed(h) /\ Single(h) /\ stage[h] = "storage"
    BY DEF HInv, Rows, Inside
  <1>1. request[h] \in Request /\ request[h] \in Requests
    BY <1>0, RequestAssumption DEF FlowTypes
  <1>2. request[h].items \in Seq(Item)
    BY <1>1 DEF Request
  <1>3. ASSUME pc[h] \in {"exec", "select"}
        PROVE  Current(h) \in Item /\ Current(h) = request[h].items[1]
    <2>1. Len(request[h].items) = 1 /\ index[h] = 1
      BY <1>0, <1>1, <1>3, RequestAssumption DEF Placed, Single
    <2> QED BY <1>2, <2>1 DEF Current
  <1>4. pc[h] = "exec" => Current(h).val # Nil
    BY <1>0, <1>3 DEF Placed, Single, Refuses
  <1>5. pc[h] = "select" => Current(h).type # "other"
    BY <1>0, <1>3 DEF Placed, Single, Refuses
  <1>6. Running(h) => Current(h) \in Item
    <2> SUFFICES ASSUME Running(h) PROVE Current(h) \in Item
      OBVIOUS
    <2>1. index[h] \in 1 .. Len(request[h].items)
      BY <1>0, <1>2 DEF Running, FlowTypes
    <2> QED BY <1>2, <2>1 DEF Current
  <1>7. pc[h] = "select" => Current(h).type \in Tables /\ Current(h).name \in Names
    BY <1>3, <1>5 DEF Item, Tables
  <1> QED BY <1>3, <1>4, <1>6, <1>7

LEMMA ApplyRows ==
  ASSUME HInv, Rows, NEW h \in Handlers, Inside(h), pc[h] = "exec",
         NEW applied \in BOOLEAN, Apply(h, applied)
  PROVE  db' \in Data
  <1>1. CASE applied
    <2>1. Current(h) \in Item /\ Current(h).val # Nil /\ Fits(db, Current(h)) /\ db \in Data
      BY <1>1, CurrentType DEF Apply, Rows
    <2>2. Upsert(db, Current(h)) \in Data
      BY <2>1, NewValueType, WriteType DEF Upsert
    <2> QED BY <1>1, <2>2 DEF Apply
  <1>2. CASE ~applied
    BY <1>2 DEF Apply, Rows
  <1> QED BY <1>1, <1>2

LEMMA StatementRows ==
  ASSUME HInv, Rows, NEW h \in Handlers, Inside(h), Statement(h)
  PROVE  local' \in [Handlers -> Data]
  <1>1. /\ Current(h) \in Item /\ Current(h).val # Nil /\ Fits(View(h), Current(h))
        /\ local' = [local EXCEPT ![h][Current(h).type][Current(h).name]
                                    = NewValue(View(h), Current(h))]
    BY CurrentType DEF Statement
  <1>2. View(h) \in Data /\ local[h] \in Data
    BY ViewType DEF Rows
  <1> DEFINE d == [local[h] EXCEPT ![Current(h).type][Current(h).name]
                                    = NewValue(View(h), Current(h))]
  <1>3. d \in Data
    <2>1. /\ Current(h).name \in Names
          /\ \/ Current(h).type = "gauge" /\ NewValue(View(h), Current(h)) \in Values
             \/ Current(h).type = "counter" /\ NewValue(View(h), Current(h)) \in Word
      BY <1>1, <1>2, NewValueType
    <2> QED BY <1>2, <2>1, WriteType
  <1>4. local' = [local EXCEPT ![h] = d]
    BY <1>1
  <1> HIDE DEF d
  <1> QED BY <1>3, <1>4 DEF Rows

\* Inside the storage: what the rows become, and that index stays where it was.
LEMMA InsideRows ==
  ASSUME HInv, Rows, NEW h \in Handlers, Inside(h), StorageStep(h)
  PROVE  Rows'
  <1>0. /\ FlowTypes /\ Placed(h) /\ db \in Data /\ local \in [Handlers -> Data]
        /\ seen \in [Handlers -> Data] /\ \A g \in Handlers : Single(g)
        /\ stage[h] = "storage" /\ UNCHANGED <<request, stage>>
    BY DEF HInv, Rows, Inside, handlerVars
  <1>1. Empty \in Data
    BY DEF Empty, Data
  <1>2. CASE Exec(h) \/ ExecRetriable(h) \/ ExecError(h)
    <2>1. db' \in Data
      BY <1>2, ApplyRows DEF Exec, ExecRetriable, ExecError
    <2>2. UNCHANGED <<local, seen, index>> /\ pc[h] = "exec"
      BY <1>2 DEF Exec, ExecRetriable, ExecError
    <2>3. \E to \in {"delay", "returned"} : pc' = [pc EXCEPT ![h] = to]
      BY <1>2 DEF Exec, ExecRetriable, ExecError, ReturnWith, Goto
    <2>4. \A g \in Handlers : Single(g)'
      BY <1>0, <2>2, <2>3 DEF FlowTypes, Single
    <2> QED BY <1>0, <2>1, <2>2, <2>4 DEF Rows
  <1>3. CASE Delay(h)
    <2>1. UNCHANGED <<db, local, seen, index>> /\ pc[h] = "delay"
      BY <1>3 DEF Delay, dbVars
    <2>2. \E to \in {"exec", "returned"} : pc' = [pc EXCEPT ![h] = to]
      BY <1>3 DEF Delay, ReturnWith, Goto
    <2>3. \A g \in Handlers : Single(g)'
      BY <1>0, <2>1, <2>2 DEF FlowTypes, Single
    <2> QED BY <1>0, <2>1, <2>3 DEF Rows
  <1>4. CASE Begin(h) \/ BeginError(h) \/ Skip(h) \/ EndOfBatch(h) \/ BatchError(h) \/ SelectError(h)
    <2>1. UNCHANGED <<db, seen>> /\ local' \in [Handlers -> Data]
      BY <1>0, <1>1, <1>4 DEF Begin, BeginError, Skip, EndOfBatch, BatchError, SelectError,
                              EndTransaction, dbVars
    <2>2. \E to \in {"stmt", "commit", "returned"} : pc' = [pc EXCEPT ![h] = to]
      BY <1>0, <1>4 DEF Begin, BeginError, Skip, Running, EndOfBatch, BatchError, SelectError,
                        ReturnWith, Goto, FlowTypes
    <2>3. \A g \in Handlers \ {h} : index'[g] = index[g]
      BY <1>0, <1>4 DEF Begin, BeginError, Skip, EndOfBatch, BatchError, SelectError, FlowTypes
    <2>4. \A g \in Handlers : Single(g)'
      BY <1>0, <2>2, <2>3 DEF FlowTypes, Single
    <2> QED BY <1>0, <2>1, <2>4 DEF Rows
  <1>5. CASE Statement(h)
    <2>1. local' \in [Handlers -> Data]
      BY <1>5, StatementRows
    <2>2. UNCHANGED <<db, seen, pc>> /\ pc[h] = "stmt" /\ index' = [index EXCEPT ![h] = @ + 1]
      BY <1>5 DEF Statement, Running
    <2>3. \A g \in Handlers : Single(g)'
      BY <1>0, <2>2 DEF FlowTypes, Single
    <2> QED BY <1>0, <2>1, <2>2, <2>3 DEF Rows
  <1>6. CASE Commit(h) \/ CommitError(h)
    <2>1. View(h) \in Data
      BY <1>0, ViewType
    <2>2. db' \in Data /\ seen' = seen /\ index' = index
      BY <1>0, <1>6, <2>1 DEF Commit, CommitError
    <2>3. local' \in [Handlers -> Data]
      BY <1>0, <1>1, <1>6 DEF Commit, CommitError, EndTransaction
    <2>4. pc' = [pc EXCEPT ![h] = "returned"]
      BY <1>6 DEF Commit, CommitError, ReturnWith, Goto
    <2>5. \A g \in Handlers : Single(g)'
      BY <1>0, <2>2, <2>4 DEF FlowTypes, Single
    <2> QED BY <2>2, <1>0, <2>3, <2>5 DEF Rows
  <1>7. CASE Select(h)
    <2>1. UNCHANGED <<db, local, index>> /\ pc' = [pc EXCEPT ![h] = "returned"] /\ pc[h] = "select"
      BY <1>7 DEF Select, ReturnWith, Goto, dbVars
    <2>2. Current(h).type \in Tables /\ Current(h).name \in Names
      BY <2>1, CurrentType
    <2> DEFINE t == Current(h).type
               d == [seen[h] EXCEPT ![t][Current(h).name] = db[t][Current(h).name]]
    <2>3. d \in Data
      <3>1. \/ t = "gauge" /\ db[t][Current(h).name] \in Values \cup {Absent}
            \/ t = "counter" /\ db[t][Current(h).name] \in Word \cup {Absent}
        BY <1>0, <2>2 DEF Tables, Data
      <3> QED BY <1>0, <2>2, <3>1, WriteType
    <2>4. seen' = [seen EXCEPT ![h] = d]
      BY <1>7 DEF Select
    <2> HIDE DEF d
    <2>5. seen' \in [Handlers -> Data]
      BY <1>0, <2>3, <2>4
    <2>6. \A g \in Handlers : Single(g)'
      BY <1>0, <2>1 DEF FlowTypes, Single
    <2> QED BY <1>0, <2>1, <2>5, <2>6 DEF Rows
  <1>8. ASSUME NEW names \in SUBSET Names, QueryGauges(h, names) \/ QueryCounters(h, names)
        PROVE  Rows'
    <2>1. UNCHANGED <<db, local, index>>
      BY <1>8 DEF QueryGauges, QueryCounters, Query, dbVars
    <2>2. \E to \in {"counters", "returned"} : pc' = [pc EXCEPT ![h] = to]
      BY <1>8 DEF QueryGauges, QueryCounters, Query, Goto
    <2>3. seen' \in [Handlers -> Data]
      <3>1. CASE QueryGauges(h, names)
        BY <1>0, <3>1 DEF QueryGauges, Query, Data
      <3>2. CASE QueryCounters(h, names)
        BY <1>0, <3>2 DEF QueryCounters, Query, Data
      <3> QED BY <1>8, <3>1, <3>2
    <2>4. \A g \in Handlers : Single(g)'
      BY <1>0, <2>1, <2>2 DEF FlowTypes, Single
    <2> QED BY <1>0, <2>1, <2>3, <2>4 DEF Rows
  <1>9. CASE QueryCut(h)
    <2>1. UNCHANGED <<db, local, index>> /\ pc' = [pc EXCEPT ![h] = "returned"]
      BY <1>9 DEF QueryCut, Goto, dbVars
    <2>2. seen' \in [Handlers -> Data]
      BY <1>0, <1>1, <1>9 DEF QueryCut
    <2>3. \A g \in Handlers : Single(g)'
      BY <1>0, <2>1 DEF FlowTypes, Single
    <2> QED BY <1>0, <2>1, <2>2, <2>3 DEF Rows
  <1> QED
    BY <1>2, <1>3, <1>4, <1>5, <1>6, <1>7, <1>8, <1>9 DEF StorageStep

LEMMA NextRows == HInv /\ Rows /\ [Next]_vars => Rows'
  <1> SUFFICES ASSUME HInv, Rows, [Next]_vars PROVE Rows'
    OBVIOUS
  <1>1. ASSUME NEW h \in Handlers, InStorage(h) PROVE Rows'
    <2>1. Inside(h) /\ StorageStep(h)
      BY <1>1 DEF InStorage, Inside
    <2> QED BY <2>1, InsideRows
  <1>2. CASE UNCHANGED vars
    BY <1>2 DEF vars, storageVars, dbVars, callVars, handlerVars, Rows, Single
  <1> QED
    BY <1>1, <1>2, OutsideRows DEF Next

\* Every variable keeps its type: a counter never leaves its word, by single statements
\* or in a transaction (ON CONFLICT DO UPDATE, postgresstorage.go:56), and no update is
\* repeated more often than there are retries.
THEOREM TypeCorrect == Spec => []TypeOK
  <1>1. HInv /\ Rows => TypeOK
    BY RequestAssumption DEF HInv, FlowTypes, Rows, TypeOK, StorageTypeOK
  <1> QED BY <1>1, InitHInv, NextHInv, InitRows, NextRows, PTL DEF Spec

----------------------------------------------------------------------------
(* Transactions: what one sees is its batch so far, over the rows committed *)
(* by now, and the rows it has written are locked until it ends.           *)

Within(h) == pc[h] \in {"stmt", "commit"}

\* The rows written are locked.
Locked(h) ==
    \A t \in Tables, n \in Names :
        /\ local[h][t][n] # Absent => owner[<<t, n>>] = h
        /\ \A i \in 1 .. index[h] - 1 :
             Within(h) /\ WritesRow(request[h].items[i], t, n) => owner[<<t, n>>] = h

\* What the first k items of a batch add to a counter.
Added(items, n, k) == SumFunctionOnSet([i \in DOMAIN items |-> Delta(items[i], n)], 1 .. k)

\* What the transaction sees, as the effect of its items and as sums.
Built(h) ==
    Within(h) =>
        /\ index[h] \in 1 .. Len(request[h].items) + 1
        /\ View(h) = After(db, request[h].items, index[h] - 1)
        /\ \A n \in Names : OrZero(View(h).counter[n])
              = OrZero(db.counter[n]) + Added(request[h].items, n, index[h] - 1)

\* What is not begun has no traces, what is committed is complete.
Fresh(h) ==
    /\ ~Within(h) => local[h] = Empty
    /\ stage[h] = "new" \/ pc[h] = "begin" => index[h] = 1
    /\ pc[h] = "commit" => index[h] = Len(request[h].items) + 1
    /\ stage[h] = "new" => attempt[h] = 0
    /\ stage[h] \in {"storage", "audit"} => attempt[h] >= 1
    /\ stage[h] = "new" \/ pc[h] = "select" => seen[h] = Empty

Tx(h) == Locked(h) /\ Built(h) /\ Fresh(h)

TxInv == HInv /\ Rows /\ \A h \in Handlers : Tx(h)

\* Maps with the same rows are the same.
LEMMA SameRows ==
  ASSUME NEW d \in Data, NEW e \in Data,
         \A t \in Tables, n \in Names : d[t][n] = e[t][n]
  PROVE  d = e
  <1>1. \A n \in Names : d.gauge[n] = e.gauge[n] /\ d.counter[n] = e.counter[n]
    BY DEF Tables
  <1>2. d.gauge = e.gauge
    BY <1>1 DEF Data
  <1>3. d.counter = e.counter
    BY <1>1 DEF Data
  <1> QED BY <1>2, <1>3 DEF Data

\* The batch of a handler.
LEMMA ItemsType ==
  ASSUME FlowTypes, NEW h \in Handlers
  PROVE  request[h].items \in Seq(Item) /\ Len(request[h].items) \in Nat
         /\ DOMAIN request[h].items = 1 .. Len(request[h].items)
  <1>1. request[h] \in Request
    BY RequestAssumption DEF FlowTypes
  <1>2. request[h].items \in Seq(Item)
    BY <1>1 DEF Request
  <1> QED BY <1>2

\* A delta is an integer, not zero only for an item that writes the counter.
LEMMA DeltaType ==
  ASSUME NEW it \in Item, NEW n
  PROVE  Delta(it, n) \in Int /\ (Delta(it, n) # 0 => WritesRow(it, "counter", n))
  BY DEF Item, Delta, WritesRow, Word

\* The sum goes on item by item.
LEMMA AddedItems ==
  ASSUME NEW items \in Seq(Item), NEW n
  PROVE  /\ Added(items, n, 0) = 0
         /\ \A k \in 0 .. Len(items) : Added(items, n, k) \in Int
         /\ \A k \in 1 .. Len(items) :
              Added(items, n, k) = Added(items, n, k - 1) + Delta(items[k], n)
         /\ \A k \in 0 .. Len(items) :
              (\A i \in 1 .. k : ~WritesRow(items[i], "counter", n)) => Added(items, n, k) = 0
  <1> DEFINE f == [i \in DOMAIN items |-> Delta(items[i], n)]
  <1>1. Len(items) \in Nat /\ DOMAIN items = 1 .. Len(items)
        /\ \A i \in 1 .. Len(items) : items[i] \in Item
    OBVIOUS
  <1>2. \A i \in 1 .. Len(items) :
           f[i] \in Int /\ f[i] = Delta(items[i], n) /\ (f[i] # 0 => WritesRow(items[i], "counter", n))
    BY <1>1, DeltaType
  <1> HIDE DEF f
  <1>3. ASSUME NEW k \in 0 .. Len(items)
        PROVE  IsFiniteSet(1 .. k) /\ \A i \in 1 .. k : f[i] \in Int
    <2>1. k \in Nat /\ k <= Len(items)
      BY <1>1
    <2>2. IsFiniteSet(1 .. k)
      BY <2>1, FS_Interval
    <2> QED BY <1>1, <1>2, <2>1, <2>2
  <1>4. \A k \in 0 .. Len(items) : SumFunctionOnSet(f, 1 .. k) \in Int
    BY <1>3, SumIsInt
  <1>5. SumFunctionOnSet(f, 1 .. 0) = 0
    BY SumOfNone, 1 .. 0 = {}
  <1>6. ASSUME NEW k \in 1 .. Len(items)
        PROVE  SumFunctionOnSet(f, 1 .. k) = SumFunctionOnSet(f, 1 .. (k - 1)) + f[k]
    <2>1. (1 .. k) \ {k} = 1 .. (k - 1) /\ k \in 1 .. k /\ k \in 0 .. Len(items)
          /\ k - 1 \in 0 .. Len(items)
      BY <1>1
    <2>2. SumFunctionOnSet(f, 1 .. k) = f[k] + SumFunctionOnSet(f, (1 .. k) \ {k})
      BY <1>3, <2>1, SumTakeOut
    <2>3. f[k] \in Int /\ SumFunctionOnSet(f, 1 .. (k - 1)) \in Int
      BY <1>2, <1>4, <2>1
    <2>4. (1 .. k) \ {k} = 1 .. (k - 1)
      BY <2>1
    <2>5. SumFunctionOnSet(f, 1 .. k) = f[k] + SumFunctionOnSet(f, 1 .. (k - 1))
      BY <2>2, <2>4, Zenon
    <2> QED BY <2>3, <2>5
  <1>7. ASSUME NEW m \in 0 .. Len(items), \A i \in 1 .. m : ~WritesRow(items[i], "counter", n)
        PROVE  SumFunctionOnSet(f, 1 .. m) = 0
    <2>1. \A i \in 1 .. m : f[i] = 0
      BY <1>1, <1>2, <1>7
    <2> QED BY <1>3, <2>1, SumOfZeros
  <1>8. \A k \in 0 .. Len(items) : Added(items, n, k) = SumFunctionOnSet(f, 1 .. k)
    BY DEF Added, f
  <1>9. /\ 0 \in 0 .. Len(items)
        /\ \A k \in 1 .. Len(items) : k \in 0 .. Len(items) /\ k - 1 \in 0 .. Len(items)
    BY <1>1
  <1> QED BY <1>2, <1>4, <1>5, <1>6, <1>7, <1>8, <1>9

\* What a transaction sees of a row.
LEMMA ViewRow ==
  ASSUME NEW h, NEW t \in Tables, NEW n \in Names
  PROVE  /\ View(h)[t][n] = IF local[h][t][n] # Absent THEN local[h][t][n] ELSE db[t][n]
         /\ View(h)'[t][n] = IF local'[h][t][n] # Absent THEN local'[h][t][n] ELSE db'[t][n]
  BY DEF View

\* Of a transaction nothing is changed from outside: others only change rows that it
\* has not locked, and those it sees as they are.
LEMMA KeepTx ==
  ASSUME FlowTypes, db \in Data, local \in [Handlers -> Data], NEW g \in Handlers, Tx(g),
         db' \in Data, request' = request, local'[g] = local[g], index'[g] = index[g],
         pc'[g] = pc[g], stage'[g] = stage[g], attempt'[g] = attempt[g], seen'[g] = seen[g],
         \A t \in Tables, n \in Names :
            owner[<<t, n>>] = g => owner'[<<t, n>>] = g /\ db'[t][n] = db[t][n]
  PROVE  Tx(g)'
  <1> DEFINE items == request[g].items
             k == index[g] - 1
  <1>1. Locked(g)'
    BY DEF Tx, Locked, Within
  <1>2. Fresh(g)'
    BY DEF Tx, Fresh, Within
  <1>3. ASSUME Within(g)
        PROVE  /\ View(g)' = After(db', items, k)
               /\ \A n \in Names : OrZero(View(g)'.counter[n])
                     = OrZero(db'.counter[n]) + Added(items, n, k)
    <2>1. items \in Seq(Item) /\ k \in 0 .. Len(items)
      BY <1>3, ItemsType DEF Tx, Built
    <2>2. View(g) \in Data /\ View(g)' \in Data /\ local[g] \in Data
      <3>1. View(g) \in Data
        BY ViewType
      <3>2. View(g)' = [gauge |-> View(g)'["gauge"], counter |-> View(g)'["counter"]]
        BY DEF View, Tables
      <3>3. local'[g] \in Data
        OBVIOUS
      <3>4. View(g)'["gauge"] \in [Names -> Values \cup {Absent}]
        BY <3>3 DEF View, Tables, Data
      <3>5. View(g)'["counter"] \in [Names -> Word \cup {Absent}]
        BY <3>3 DEF View, Tables, Data
      <3> QED BY <3>1, <3>2, <3>4, <3>5 DEF Data
    <2>3. After(db, items, k) \in Data /\ After(db', items, k) \in Data
      BY <2>1, ApplyAllItems
    <2>4. View(g) = After(db, items, k)
      BY <1>3 DEF Tx, Built
    <2>5. ASSUME NEW t \in Tables, NEW n \in Names, owner[<<t, n>>] # g
          PROVE  /\ View(g)'[t][n] = db'[t][n]
                 /\ \A i \in 1 .. k : ~WritesRow(items[i], t, n)
      BY <1>3, <2>5, ViewRow DEF Tx, Locked
    <2>6. ASSUME NEW t \in Tables, NEW n \in Names, owner[<<t, n>>] = g
          PROVE  View(g)'[t][n] = View(g)[t][n] /\ db'[t][n] = db[t][n]
      BY <2>6, ViewRow
    <2>7. ASSUME NEW t \in Tables, NEW n \in Names
          PROVE  View(g)'[t][n] = After(db', items, k)[t][n]
      <3>0. t \in {"gauge", "counter"}
        BY DEF Tables
      <3> HIDE DEF items, k
      <3>1. CASE owner[<<t, n>>] # g
        BY <2>1, <2>5, <3>0, <3>1, ApplyAllRow
      <3>2. CASE owner[<<t, n>>] = g
        <4>1. After(db', items, k)[t][n] = After(db, items, k)[t][n]
          BY <2>1, <2>6, <3>0, <3>2, ApplyAllRow
        <4> QED BY <2>4, <2>6, <3>2, <4>1
      <3> QED BY <3>1, <3>2
    <2>8. View(g)' = After(db', items, k)
      <3> HIDE DEF items, k
      <3> QED BY <2>2, <2>3, <2>7, SameRows
    <2>9. ASSUME NEW n \in Names
          PROVE  OrZero(View(g)'.counter[n]) = OrZero(db'.counter[n]) + Added(items, n, k)
      <3>0. "counter" \in Tables
        BY DEF Tables
      <3>1. CASE owner[<<"counter", n>>] = g
        <4>1. OrZero(View(g).counter[n]) = OrZero(db.counter[n]) + Added(items, n, k)
          BY <1>3 DEF Tx, Built
        <4> QED BY <2>6, <3>0, <3>1, <4>1
      <3>2. CASE owner[<<"counter", n>>] # g
        <4>1. View(g)'.counter[n] = db'.counter[n] /\ Added(items, n, k) = 0
          <5>1. View(g)'["counter"][n] = db'["counter"][n]
                /\ \A i \in 1 .. k : ~WritesRow(items[i], "counter", n)
            BY <2>5, <3>0, <3>2
          <5>2. Added(items, n, k) = 0
            <6> HIDE DEF items, k
            <6> QED BY <2>1, <5>1, AddedItems
          <5> QED BY <5>1, <5>2
        <4>2. db'.counter[n] \in Word \cup {Absent}
          BY DEF Data
        <4>3. OrZero(db'.counter[n]) \in Int
          BY <4>2, DataAssumption DEF OrZero, Word
        <4> QED BY <4>1, <4>3
      <3> QED BY <3>1, <3>2
    <2> QED BY <2>8, <2>9
  <1>4. Built(g)'
    <2>1. Within(g)' <=> Within(g)
      BY DEF Within
    <2>2. Within(g) => index[g] \in 1 .. Len(request[g].items) + 1
      BY DEF Tx, Built
    <2> QED BY <1>3, <2>1, <2>2 DEF Built
  <1> QED BY <1>1, <1>2, <1>4 DEF Tx

\* What a step of h in the storage leaves to the others.
LEMMA OthersKept ==
  ASSUME TxInv, NEW h \in Handlers, Inside(h), StorageStep(h), NEW g \in Handlers, g # h
  PROVE  /\ request' = request /\ stage' = stage
         /\ local'[g] = local[g] /\ index'[g] = index[g] /\ pc'[g] = pc[g]
         /\ attempt'[g] = attempt[g] /\ seen'[g] = seen[g]
         /\ \A t \in Tables, n \in Names :
              owner[<<t, n>>] = g => owner'[<<t, n>>] = g /\ db'[t][n] = db[t][n]
  <1>0. /\ FlowTypes /\ local \in [Handlers -> Data] /\ seen \in [Handlers -> Data]
        /\ request' = request /\ stage' = stage /\ Handlers \cap {NoHandler} = {}
    BY HandlerAssumption DEF TxInv, HInv, Rows, Inside, handlerVars
  <1> DEFINE Same ==
        /\ local'[g] = local[g] /\ index'[g] = index[g] /\ pc'[g] = pc[g]
        /\ attempt'[g] = attempt[g] /\ seen'[g] = seen[g]
  <1>1. CASE \/ Begin(h) \/ BeginError(h) \/ Skip(h) \/ EndOfBatch(h) \/ Delay(h)
             \/ Select(h) \/ SelectError(h) \/ QueryCut(h)
    <2>1. Same
      BY <1>0, <1>1 DEF Begin, BeginError, Skip, EndOfBatch, Delay, Select, SelectError,
                        QueryCut, ReturnWith, Goto, dbVars, FlowTypes
    <2>2. db' = db /\ owner' = owner
      BY <1>1 DEF Begin, BeginError, Skip, EndOfBatch, Delay, Select, SelectError, QueryCut,
                  dbVars
    <2> QED BY <1>0, <2>1, <2>2
  <1>2. CASE \E names \in SUBSET Names : QueryGauges(h, names) \/ QueryCounters(h, names)
    <2>1. Same
      BY <1>0, <1>2 DEF QueryGauges, QueryCounters, Query, Goto, dbVars, FlowTypes
    <2>2. db' = db /\ owner' = owner
      BY <1>2 DEF QueryGauges, QueryCounters, Query, dbVars
    <2> QED BY <1>0, <2>1, <2>2
  <1>3. CASE Exec(h) \/ ExecRetriable(h) \/ ExecError(h)
    <2>1. Same /\ owner' = owner /\ pc[h] = "exec"
      BY <1>0, <1>3 DEF Exec, ExecRetriable, ExecError, ReturnWith, Goto, FlowTypes
    <2>2. PICK applied \in BOOLEAN : Apply(h, applied)
      BY <1>3 DEF Exec, ExecRetriable, ExecError
    <2>3. ASSUME NEW t \in Tables, NEW n \in Names, owner[<<t, n>>] = g
          PROVE  db'[t][n] = db[t][n]
      <3>1. CASE ~applied
        BY <2>2, <3>1 DEF Apply
      <3>2. CASE applied
        <4> DEFINE it == Current(h)
        <4>1. db' = [db EXCEPT ![it.type][it.name] = NewValue(db, it)] /\ db \in Data
          BY <2>2, <3>2 DEF Apply, Upsert, TxInv, Rows
        <4>2. ~(it.type = t /\ it.name = n)
          BY <1>0, <2>2, <2>3, <3>2 DEF Apply, Free
        <4> HIDE DEF it
        <4>3. CASE it.type # t
          BY <4>1, <4>3 DEF Data, Tables
        <4>4. CASE it.type = t /\ it.name # n
          BY <4>1, <4>4 DEF Data, Tables
        <4> QED BY <4>2, <4>3, <4>4
      <3> QED BY <3>1, <3>2
    <2> QED BY <1>0, <2>1, <2>3
  <1>4. CASE Statement(h)
    <2>1. Same /\ db' = db
      BY <1>0, <1>4 DEF Statement, FlowTypes
    <2>2. ASSUME NEW t \in Tables, NEW n \in Names, owner[<<t, n>>] = g
          PROVE  owner'[<<t, n>>] = g
      <3>1. /\ owner' = [owner EXCEPT ![<<Current(h).type, Current(h).name>>] = h]
            /\ owner[<<Current(h).type, Current(h).name>>] \in {NoHandler, h}
        BY <1>4 DEF Statement, Free
      <3>2. <<t, n>> # <<Current(h).type, Current(h).name>>
        BY <1>0, <2>2, <3>1
      <3> QED BY <1>0, <2>2, <3>1, <3>2 DEF FlowTypes
    <2> QED BY <1>0, <2>1, <2>2
  <1>5. CASE BatchError(h) \/ Commit(h) \/ CommitError(h)
    <2>1. Same /\ EndTransaction(h)
      BY <1>0, <1>5 DEF BatchError, Commit, CommitError, ReturnWith, Goto, EndTransaction, FlowTypes
    <2>2. db' = db \/ db' = View(h)
      BY <1>5 DEF BatchError, Commit, CommitError
    <2>3. ASSUME NEW t \in Tables, NEW n \in Names, owner[<<t, n>>] = g
          PROVE  owner'[<<t, n>>] = g /\ db'[t][n] = db[t][n]
      <3>1. owner'[<<t, n>>] = g
        BY <1>0, <2>1, <2>3 DEF EndTransaction, FlowTypes
      <3>2. local[h][t][n] = Absent
        BY <2>3 DEF TxInv, Tx, Locked
      <3> QED BY <2>2, <3>1, <3>2, ViewRow
    <2> QED BY <1>0, <2>1, <2>3
  <1> QED BY <1>1, <1>2, <1>3, <1>4, <1>5 DEF StorageStep

\* A value in the word is what it is.
LEMMA WrapFits ==
  ASSUME NEW x \in Word
  PROVE  Wrap(x) = x
  <1>1. Half \in Nat \ {0} /\ x \in -Half .. Half - 1
    BY DataAssumption DEF Word
  <1>2. x + Half \in 0 .. 2 * Half - 1 /\ 2 * Half \in Nat
    BY <1>1
  <1>3. (x + Half) % (2 * Half) = x + Half
    BY <1>2
  <1> QED BY <1>1, <1>3 DEF Wrap

\* A statement that does not fail does what the item asks for, and adds its delta.
LEMMA UpsertApplies ==
  ASSUME NEW d \in Data, NEW it \in Item, it.val # Nil, Fits(d, it)
  PROVE  /\ [d EXCEPT ![it.type][it.name] = NewValue(d, it)] = ApplyItem(d, it)
         /\ \A n \in Names : OrZero(ApplyItem(d, it).counter[n])
                                = OrZero(d.counter[n]) + Delta(it, n)
  <1>1. CASE it.type = "gauge"
    <2>1. NewValue(d, it) = it.val /\ ApplyItem(d, it) = [d EXCEPT !.gauge[it.name] = it.val]
      BY <1>1 DEF NewValue, ApplyItem
    <2>2. ASSUME NEW n \in Names
          PROVE  OrZero(ApplyItem(d, it).counter[n]) = OrZero(d.counter[n]) + Delta(it, n)
      <3>1. ApplyItem(d, it).counter = d.counter /\ Delta(it, n) = 0
        BY <1>1, <2>1 DEF Delta, Data
      <3>2. OrZero(d.counter[n]) \in Int
        BY DataAssumption DEF Data, OrZero, Word
      <3> QED BY <3>1, <3>2
    <2> QED BY <1>1, <2>1, <2>2
  <1>2. CASE it.type = "counter"
    <2> DEFINE v == OrZero(d.counter[it.name]) + it.val
    <2>1. /\ NewValue(d, it) = v /\ v \in Word /\ it.name \in Names /\ it.val \in Word
          /\ ApplyItem(d, it) = [d EXCEPT !.counter[it.name] = Wrap(v)]
      BY <1>2 DEF NewValue, ApplyItem, Fits, Item
    <2>2. Wrap(v) = v
      BY <2>1, WrapFits
    <2>3. ASSUME NEW n \in Names
          PROVE  OrZero(ApplyItem(d, it).counter[n]) = OrZero(d.counter[n]) + Delta(it, n)
      <3>1. OrZero(d.counter[n]) \in Int /\ v # Absent
        BY <2>1, DataAssumption DEF Data, OrZero, Word
      <3>2. CASE n = it.name
        <4>1. ApplyItem(d, it).counter[n] = v
          BY <2>1, <2>2, <3>2 DEF Data
        <4>2. Delta(it, n) = it.val
          BY <1>2, <3>2 DEF Delta
        <4> QED BY <3>1, <3>2, <4>1, <4>2 DEF OrZero
      <3>3. CASE n # it.name
        <4>1. ApplyItem(d, it).counter[n] = d.counter[n]
          BY <2>1, <3>3 DEF Data
        <4>2. Delta(it, n) = 0
          BY <3>3 DEF Delta
        <4> QED BY <3>1, <4>1, <4>2
      <3> QED BY <3>2, <3>3
    <2>4. [d EXCEPT ![it.type][it.name] = NewValue(d, it)] = ApplyItem(d, it)
      BY <1>2, <2>1, <2>2
    <2> QED BY <2>3, <2>4
  <1> QED BY <1>1, <1>2 DEF Item

\* One statement more, or one item skipped.
LEMMA ItemTx ==
  ASSUME TxInv, NEW h \in Handlers, Inside(h), Statement(h) \/ Skip(h)
  PROVE  Tx(h)'
  <1> DEFINE items == request[h].items
             it == Current(h)
             i == index[h]
  <1>0. /\ FlowTypes /\ db \in Data /\ local \in [Handlers -> Data]
        /\ Tx(h) /\ stage[h] = "storage" /\ UNCHANGED <<request, stage>>
    BY DEF TxInv, HInv, Rows, Inside, handlerVars
  <1>1. items \in Seq(Item) /\ Len(items) \in Nat
    BY <1>0, ItemsType
  <1>2. /\ pc[h] = "stmt" /\ pc' = pc /\ i \in 1 .. Len(items) /\ it \in Item /\ it = items[i]
        /\ index'[h] = i + 1 /\ index'[h] \in 1 .. Len(items) + 1 /\ index'[h] - 1 = i
        /\ UNCHANGED <<db, attempt, seen>>
    <2>1. Running(h) /\ pc' = pc /\ index' = [index EXCEPT ![h] = @ + 1]
          /\ UNCHANGED <<db, attempt, seen>>
      BY DEF Statement, Skip, dbVars
    <2>2. i \in 1 .. Len(items)
      BY <1>0, <1>1, <2>1 DEF Running, FlowTypes
    <2>3. it \in Item
      BY <2>1, CurrentType DEF TxInv
    <2> QED BY <1>0, <1>1, <2>1, <2>2, <2>3 DEF Running, Current, FlowTypes
  <1>3. Fresh(h)'
    <2>1. UNCHANGED <<pc[h], stage[h], attempt[h], seen[h]>> /\ pc[h] = "stmt"
      BY <1>0, <1>2
    <2> QED BY <1>0, <2>1 DEF Tx, Fresh, Within
  <1> DEFINE d == After(db, items, i - 1)
  <1>4. View(h) = d /\ d \in Data
        /\ \A n \in Names : OrZero(d.counter[n]) = OrZero(db.counter[n]) + Added(items, n, i - 1)
    <2>1. View(h) \in Data
      BY <1>0, ViewType
    <2> QED BY <1>0, <1>2, <2>1 DEF Tx, Built, Within
  <1>5. /\ After(db, items, i) = ApplyItem(d, it)
        /\ \A n \in Names : Added(items, n, i) = Added(items, n, i - 1) + Delta(it, n)
                            /\ Added(items, n, i - 1) \in Int /\ Delta(it, n) \in Int
    <2>1. i - 1 \in 0 .. Len(items)
      BY <1>1, <1>2
    <2> HIDE DEF items, i, it
    <2> QED BY <1>0, <1>1, <1>2, <2>1, ApplyAllItems, AddedItems, DeltaType
  <1>6. \A n \in Names : OrZero(db.counter[n]) \in Int
    BY <1>0, DataAssumption DEF Data, OrZero, Word
  <1>7. ASSUME View(h)' = ApplyItem(d, it),
               \A n \in Names : OrZero(ApplyItem(d, it).counter[n])
                                   = OrZero(d.counter[n]) + Delta(it, n)
        PROVE  Built(h)'
    <2>1. ASSUME NEW n \in Names
          PROVE  OrZero(View(h)'.counter[n]) = OrZero(db.counter[n]) + Added(items, n, i)
      <3> HIDE DEF items, i, it, d
      <3> QED BY <1>4, <1>5, <1>6, <1>7
    <2>2. View(h)' = After(db, items, i)
      BY <1>5, <1>7
    <2>3. db' = db /\ request' = request /\ index'[h] \in 1 .. Len(items) + 1 /\ index'[h] - 1 = i
      BY <1>0, <1>2
    <2> QED BY <2>1, <2>2, <2>3 DEF Built
  <1>8. CASE Skip(h)
    <2>1. it.val = Nil /\ local' = local /\ owner' = owner
      BY <1>8 DEF Skip, dbVars
    <2>2. View(h)' = View(h)
      BY <1>2, <2>1 DEF View
    <2>3. ApplyItem(d, it) = d /\ \A n \in Names : Delta(it, n) = 0
      BY <2>1 DEF ApplyItem, Delta
    <2>4. \A n \in Names : OrZero(d.counter[n]) \in Int
      BY <1>4, DataAssumption DEF Data, OrZero, Word
    <2>5. Built(h)'
      <3>1. \A n \in Names : OrZero(ApplyItem(d, it).counter[n]) = OrZero(d.counter[n]) + Delta(it, n)
        <4> HIDE DEF d, it
        <4> QED BY <2>3, <2>4
      <3> QED BY <1>4, <1>7, <2>2, <2>3, <3>1
    <2>6. Locked(h)'
      <3>1. \A j \in 1 .. i : j \in 1 .. i - 1 \/ j = i
        BY <1>2
      <3>2. \A t, n : ~WritesRow(items[i], t, n)
        BY <1>2, <2>1 DEF WritesRow
      <3>3. request' = request /\ index'[h] - 1 = i /\ pc' = pc
        BY <1>0, <1>2
      <3> QED BY <1>0, <2>1, <3>1, <3>2, <3>3 DEF Tx, Locked, Within
    <2> QED BY <1>3, <2>5, <2>6 DEF Tx
  <1>9. CASE Statement(h)
    <2>1. /\ it.val # Nil /\ Free(h, it) /\ Fits(View(h), it)
          /\ owner' = [owner EXCEPT ![<<it.type, it.name>>] = h]
          /\ local' = [local EXCEPT ![h][it.type][it.name] = NewValue(View(h), it)]
      BY <1>9, SMTT(30) DEF Statement
    <2>2. it.type \in Tables /\ it.name \in Names
      BY <1>2, <2>1 DEF Item, Tables
    <2>3. \A t \in Tables, n \in Names : owner'[<<t, n>>] =
             IF t = it.type /\ n = it.name THEN h ELSE owner[<<t, n>>]
      <3> HIDE DEF it
      <3> QED BY <1>0, <2>1, <2>2 DEF FlowTypes
    <2>4. \A t \in Tables, n \in Names : local'[h][t][n] =
             IF t = it.type /\ n = it.name THEN NewValue(View(h), it) ELSE local[h][t][n]
      <3> HIDE DEF it
      <3>1. local[h] \in Data
        BY <1>0
      <3>2. local'[h] = [local[h] EXCEPT ![it.type][it.name] = NewValue(View(h), it)]
        BY <1>0, <2>1
      <3> QED BY <2>2, <3>1, <3>2 DEF Data, Tables
    <2>5. NewValue(View(h), it) # Absent
      <3>1. NewValue(View(h), it) \in Values \/ NewValue(View(h), it) \in Word
        BY <1>2, <1>4, <2>1, NewValueType, ZenonT(40)
      <3> QED BY <3>1, DataAssumption, SMTT(30) DEF Word
    <2>6. ApplyItem(d, it) = [d EXCEPT ![it.type][it.name] = NewValue(d, it)]
          /\ \A n \in Names : OrZero(ApplyItem(d, it).counter[n]) = OrZero(d.counter[n]) + Delta(it, n)
      <3> HIDE DEF it, d
      <3> QED BY <1>2, <1>4, <2>1, UpsertApplies
    <2>7. View(h)' = ApplyItem(d, it)
      <3>1. local' \in [Handlers -> Data] /\ db' \in Data
        BY <1>0, <1>2, <1>9, StatementRows DEF TxInv
      <3>2. View(h)' \in Data
        <4>1. local'[h] \in Data
          BY <3>1
        <4>2. View(h)' = [gauge |-> View(h)'["gauge"], counter |-> View(h)'["counter"]]
          BY DEF View, Tables
        <4>3. View(h)'["gauge"] \in [Names -> Values \cup {Absent}]
          BY <3>1, <4>1 DEF View, Tables, Data
        <4>4. View(h)'["counter"] \in [Names -> Word \cup {Absent}]
          BY <3>1, <4>1 DEF View, Tables, Data
        <4> QED BY <4>2, <4>3, <4>4 DEF Data
      <3>3. ApplyItem(d, it) \in Data
        <4> HIDE DEF d, it
        <4> QED BY <1>2, <1>4, ApplyItemType
      <3>4. ASSUME NEW t \in Tables, NEW n \in Names
            PROVE  View(h)'[t][n] = ApplyItem(d, it)[t][n]
        <4>1. d[t][n] = IF local[h][t][n] # Absent THEN local[h][t][n] ELSE db[t][n]
          BY <1>4, ViewRow
        <4>2. View(h)'[t][n] = IF local'[h][t][n] # Absent THEN local'[h][t][n] ELSE db[t][n]
          BY <1>2, ViewRow
        <4> HIDE DEF d, it
        <4>3. ApplyItem(d, it)[t][n] =
                IF t = it.type /\ n = it.name THEN NewValue(d, it) ELSE d[t][n]
          BY <1>4, <2>2, <2>6 DEF Data, Tables
        <4> QED BY <1>4, <2>4, <2>5, <4>1, <4>2, <4>3
      <3> HIDE DEF d, it
      <3> QED BY <3>2, <3>3, <3>4, SameRows
    <2>8. Locked(h)'
      <3>1. \A j \in 1 .. i : j \in 1 .. i - 1 \/ j = i
        BY <1>2
      <3>2. \A t, n : WritesRow(items[i], t, n) => t = it.type /\ n = it.name
        BY <1>2 DEF WritesRow
      <3>3. request' = request /\ index'[h] - 1 = i /\ pc' = pc
        BY <1>0, <1>2
      <3>4. Locked(h) /\ Within(h)
        BY <1>0, <1>2 DEF Tx, Within
      <3> HIDE DEF it, i
      <3>5. ASSUME NEW t \in Tables, NEW n \in Names, local'[h][t][n] # Absent
            PROVE  owner'[<<t, n>>] = h
        BY <2>3, <2>4, <3>4, <3>5 DEF Locked
      <3>6. ASSUME NEW t \in Tables, NEW n \in Names, NEW j \in 1 .. i,
                   WritesRow(items[j], t, n)
            PROVE  owner'[<<t, n>>] = h
        <4>1. CASE j = i
          BY <2>3, <3>2, <3>6, <4>1
        <4>2. CASE j \in 1 .. i - 1
          <5>1. owner[<<t, n>>] = h
            BY <3>4, <3>6, <4>2 DEF Locked, i
          <5> QED BY <2>3, <5>1
        <4> QED BY <3>1, <4>1, <4>2
      <3> QED BY <3>3, <3>5, <3>6 DEF Locked
    <2>9. Built(h)'
      BY <1>7, <2>6, <2>7
    <2> QED BY <1>3, <2>8, <2>9 DEF Tx
  <1> QED BY <1>8, <1>9

\* An empty map.
LEMMA EmptyRows ==
  /\ Empty \in Data
  /\ \A t \in Tables, n \in Names : Empty[t][n] = Absent
  BY DEF Empty, Data, Tables

\* A handler outside of a transaction, with no local rows.
LEMMA NotWithin ==
  ASSUME TxInv, NEW h \in Handlers, stage'[h] = stage[h], stage[h] = "storage",
         pc'[h] \in {"exec", "delay", "counters", "returned"}, local'[h] = Empty,
         attempt'[h] >= 1
  PROVE  Tx(h)'
  BY EmptyRows DEF Tx, Locked, Built, Fresh, Within

\* The start of a transaction and the end of its batch.
LEMMA BeginTx ==
  ASSUME TxInv, NEW h \in Handlers, Inside(h), Begin(h) \/ EndOfBatch(h)
  PROVE  Tx(h)'
  <1>0. /\ FlowTypes /\ db \in Data /\ local \in [Handlers -> Data]
        /\ Tx(h) /\ stage[h] = "storage" /\ UNCHANGED <<request, stage>>
    BY DEF TxInv, HInv, Rows, Inside, handlerVars
  <1>1. request[h].items \in Seq(Item) /\ Len(request[h].items) \in Nat
    BY <1>0, ItemsType
  <1>2. UNCHANGED <<db, owner, local, index, attempt, seen>>
    BY DEF Begin, EndOfBatch, dbVars
  <1>3. View(h)' = View(h)
    BY <1>2 DEF View
  <1>4. CASE Begin(h)
    <2>1. pc[h] = "begin" /\ pc'[h] = "stmt"
      BY <1>0, <1>4 DEF Begin, Goto, FlowTypes
    <2>2. local[h] = Empty /\ index[h] = 1
      BY <1>0, <2>1 DEF Tx, Fresh, Within
    <2>3. Locked(h)'
      <3>1. 1 .. index'[h] - 1 = {}
        BY <1>2, <2>2
      <3> QED BY <1>2, <2>2, <3>1, EmptyRows DEF Locked
    <2>4. View(h) = db
      <3>1. View(h) \in Data
        BY <1>0, ViewType
      <3>2. \A t \in Tables, n \in Names : View(h)[t][n] = db[t][n]
        BY <2>2, ViewRow, EmptyRows
      <3> QED BY <1>0, <3>1, <3>2, SameRows
    <2>5. Built(h)'
      <3>1. After(db, request[h].items, 0) = db
        BY <1>0, <1>1, ApplyAllItems
      <3>2. \A n \in Names : Added(request[h].items, n, 0) = 0
        BY <1>1, AddedItems
      <3>3. \A n \in Names : OrZero(db.counter[n]) \in Int
        BY <1>0, DataAssumption DEF Data, OrZero, Word
      <3>4. index'[h] - 1 = 0 /\ index'[h] \in 1 .. Len(request[h].items) + 1
        BY <1>1, <1>2, <2>2
      <3>5. View(h)' = db /\ db' = db /\ request' = request
        BY <1>0, <1>2, <1>3, <2>4
      <3> QED BY <3>1, <3>2, <3>3, <3>4, <3>5 DEF Built
    <2>6. Fresh(h)'
      BY <1>0, <1>2, <2>1 DEF Tx, Fresh, Within
    <2> QED BY <2>3, <2>5, <2>6 DEF Tx
  <1>5. CASE EndOfBatch(h)
    <2>1. pc[h] = "stmt" /\ pc'[h] = "commit" /\ index[h] > Len(request[h].items)
      BY <1>0, <1>1, <1>5 DEF EndOfBatch, Running, Goto, FlowTypes
    <2>2. index[h] = Len(request[h].items) + 1
      BY <1>0, <1>1, <2>1 DEF Tx, Built, Within
    <2>3. Within(h) /\ Within(h)'
      BY <2>1 DEF Within
    <2>4. Locked(h)'
      BY <1>0, <1>2, <2>3 DEF Tx, Locked
    <2>5. Built(h)'
      BY <1>0, <1>2, <1>3, <2>3 DEF Tx, Built
    <2>6. Fresh(h)'
      BY <1>0, <1>2, <2>1, <2>2, <2>3 DEF Tx, Fresh
    <2> QED BY <2>4, <2>5, <2>6 DEF Tx
  <1> QED BY <1>4, <1>5

\* The other steps in the storage.
LEMMA RestTx ==
  ASSUME TxInv, NEW h \in Handlers, Inside(h), StorageStep(h),
         ~(Begin(h) \/ EndOfBatch(h) \/ Statement(h) \/ Skip(h))
  PROVE  Tx(h)'
  <1>0. /\ FlowTypes /\ local \in [Handlers -> Data]
        /\ Tx(h) /\ stage[h] = "storage" /\ stage' = stage
    BY DEF TxInv, HInv, Rows, Inside, handlerVars
  <1>1. attempt[h] >= 1 /\ attempt[h] \in Nat /\ (~Within(h) => local[h] = Empty)
    BY <1>0, HandlerAssumption DEF Tx, Fresh, FlowTypes
  <1>2. CASE Exec(h) \/ ExecRetriable(h) \/ ExecError(h) \/ Delay(h)
    <2>1. pc'[h] \in {"exec", "delay", "returned"} /\ pc[h] \in {"exec", "delay"}
      BY <1>0, <1>2 DEF Exec, ExecRetriable, ExecError, Delay, ReturnWith, Goto, FlowTypes
    <2>2. local' = local
      BY <1>2 DEF Exec, ExecRetriable, ExecError, Delay, dbVars
    <2>3. attempt' = attempt \/ attempt' = [attempt EXCEPT ![h] = @ + 1]
      BY <1>2 DEF Exec, ExecRetriable, ExecError, Delay
    <2>4. attempt'[h] >= 1
      BY <1>0, <1>1, <2>3 DEF FlowTypes
    <2> QED BY <1>0, <1>1, <2>1, <2>2, <2>4, NotWithin DEF Within
  <1>3. CASE BeginError(h) \/ Select(h) \/ SelectError(h)
    <2>1. pc'[h] = "returned" /\ pc[h] \in {"begin", "select"}
      BY <1>0, <1>3 DEF BeginError, Select, SelectError, ReturnWith, Goto, FlowTypes
    <2>2. local' = local /\ attempt' = attempt
      BY <1>3 DEF BeginError, Select, SelectError, dbVars
    <2> QED BY <1>0, <1>1, <2>1, <2>2, NotWithin DEF Within
  <1>4. CASE BatchError(h) \/ Commit(h) \/ CommitError(h)
    <2>1. pc'[h] = "returned" /\ attempt' = attempt
      BY <1>0, <1>4 DEF BatchError, Commit, CommitError, ReturnWith, Goto, FlowTypes
    <2>2. local'[h] = Empty
      BY <1>0, <1>4 DEF BatchError, Commit, CommitError, EndTransaction
    <2> QED BY <1>0, <1>1, <2>1, <2>2, NotWithin
  <1>5. CASE \E names \in SUBSET Names : QueryGauges(h, names) \/ QueryCounters(h, names)
    <2>1. pc'[h] \in {"counters", "returned"} /\ pc[h] \in {"gauges", "counters"}
      BY <1>0, <1>5 DEF QueryGauges, QueryCounters, Query, Goto, FlowTypes
    <2>2. local' = local /\ attempt' = attempt
      BY <1>5 DEF QueryGauges, QueryCounters, Query, dbVars
    <2> QED BY <1>0, <1>1, <2>1, <2>2, NotWithin DEF Within
  <1>6. CASE QueryCut(h)
    <2>1. pc'[h] = "returned" /\ pc[h] \in {"gauges", "counters"}
      BY <1>0, <1>6 DEF QueryCut, Goto, FlowTypes
    <2>2. local' = local /\ attempt' = attempt
      BY <1>6 DEF QueryCut, dbVars
    <2> QED BY <1>0, <1>1, <2>1, <2>2, NotWithin DEF Within
  <1> QED BY <1>2, <1>3, <1>4, <1>5, <1>6 DEF StorageStep

\* The steps outside of the storage.
LEMMA OutsideTx ==
  ASSUME TxInv, NEW h \in Handlers,
         \/ Refuse(h) \/ Ping(h) \/ Notify(h) \/ Respond(h) \/ ClientGone(h)
         \/ StorageReturns(h) \/ CallStorage(h)
  PROVE  \A g \in Handlers : Tx(g)'
  <1>0. /\ FlowTypes /\ db \in Data /\ local \in [Handlers -> Data]
        /\ \A g \in Handlers : Tx(g) /\ Placed(g)
    BY DEF TxInv, HInv, Rows
  <1>1. UNCHANGED <<db, owner, local, seen, index, request>>
    BY DEF Refuse, Ping, Notify, Respond, ClientGone, StorageReturns, CallStorage,
           storageVars, dbVars, callVars
  <1>2. ASSUME NEW g \in Handlers, g # h
        PROVE  pc'[g] = pc[g] /\ stage'[g] = stage[g] /\ attempt'[g] = attempt[g]
    BY <1>0, <1>2 DEF Refuse, Ping, Notify, Respond, ClientGone, StorageReturns, CallStorage,
                Answer, Goto, FlowTypes, storageVars, callVars, handlerVars
  <1>3. ASSUME NEW g \in Handlers, g # h PROVE Tx(g)'
    BY <1>0, <1>1, <1>2, <1>3, KeepTx
  <1>4. CASE ClientGone(h)
    <2>1. UNCHANGED <<pc, stage, attempt>>
      BY <1>4 DEF ClientGone, storageVars, callVars, handlerVars
    <2> QED BY <1>0, <1>1, <2>1, KeepTx
  <1>5. CASE ~ClientGone(h)
    <2>1. pc[h] \notin {"stmt", "commit", "begin", "select"}
      BY <1>0, <1>5 DEF Placed, Refuse, Ping, Notify, Respond, StorageReturns, CallStorage
    <2>2. ~Within(h) /\ local[h] = Empty
      BY <1>0, <2>1 DEF Tx, Fresh, Within
    <2>3. Tx(h)'
      <3>1. CASE CallStorage(h)
        <4>1. stage[h] = "new" /\ stage'[h] = "storage" /\ attempt'[h] = 1
          BY <1>0, <3>1 DEF CallStorage, FlowTypes
        <4>2. index[h] = 1 /\ seen[h] = Empty
          BY <1>0, <4>1 DEF Tx, Fresh
        <4>3. ~Within(h)'
          <5>1. request[h].op \in {"update", "updates", "value", "index"}
            BY <1>0, <3>1, RequestAssumption DEF CallStorage, FlowTypes, Request
          <5>2. pc'[h] = Method[request[h].op]
            BY <1>0, <3>1 DEF CallStorage, Goto, FlowTypes
          <5>3. pc'[h] \in {"exec", "begin", "select", "gauges"}
            BY <5>1, <5>2 DEF Method
          <5> QED BY <5>3 DEF Within
        <4>4. pc'[h] # "commit"
          BY <4>3 DEF Within
        <4> QED BY <1>1, <2>2, <4>1, <4>2, <4>3, <4>4, EmptyRows DEF Tx, Locked, Built, Fresh
      <3>2. CASE StorageReturns(h)
        <4>1. pc'[h] = "idle" /\ stage[h] = "storage" /\ stage'[h] \in {"audit", "answered"}
              /\ attempt' = attempt
          BY <1>0, <3>2 DEF StorageReturns, Goto, Answer, FlowTypes
        <4> QED BY <1>0, <1>1, <2>2, <4>1, EmptyRows DEF Tx, Locked, Built, Fresh, Within
      <3>3. CASE Refuse(h) \/ Ping(h) \/ Notify(h) \/ Respond(h)
        <4>1. UNCHANGED <<pc, attempt>> /\ stage'[h] \in {stage[h], "answered"}
              /\ stage'[h] # "new"
          BY <1>0, <3>3 DEF Refuse, Ping, Notify, Respond, Answer, storageVars, callVars, FlowTypes
        <4>2. Locked(h)' /\ Built(h)'
          BY <1>1, <2>2, <4>1, EmptyRows DEF Locked, Built, Within
        <4>3. Fresh(h)'
          BY <1>0, <1>1, <2>1, <2>2, <4>1 DEF Tx, Fresh, Within
        <4> QED BY <4>2, <4>3 DEF Tx
      <3> QED BY <1>5, <3>1, <3>2, <3>3
    <2> QED BY <1>3, <2>3
  <1> QED BY <1>4, <1>5

LEMMA InitTx == Init => \A h \in Handlers : Tx(h)
  BY EmptyRows DEF Init, StorageInit, Tx, Locked, Built, Fresh, Within

LEMMA NextTx == TxInv /\ [Next]_vars => \A g \in Handlers : Tx(g)'
  <1> SUFFICES ASSUME TxInv, [Next]_vars, NEW g \in Handlers PROVE Tx(g)'
    OBVIOUS
  <1>0. FlowTypes /\ Rows /\ Tx(g) /\ local \in [Handlers -> Data] /\ db \in Data
    BY DEF TxInv, HInv, Rows
  <1>1. CASE UNCHANGED vars
    <2>1. UNCHANGED <<db, owner, local, seen, index, request, pc, stage, attempt>>
      BY <1>1 DEF vars, storageVars, dbVars, callVars, handlerVars
    <2> QED BY <1>0, <2>1, KeepTx
  <1>2. ASSUME NEW h \in Handlers, InStorage(h) PROVE Tx(g)'
    <2>1. Inside(h) /\ StorageStep(h)
      BY <1>2 DEF InStorage, Inside
    <2>2. CASE g = h
      BY <2>1, <2>2, ItemTx, BeginTx, RestTx
    <2>3. CASE g # h
      <3>1. Rows'
        BY <2>1, InsideRows DEF TxInv
      <3>2. db' \in Data
        BY <3>1 DEF Rows
      <3>3. /\ request' = request /\ stage' = stage
            /\ local'[g] = local[g] /\ index'[g] = index[g] /\ pc'[g] = pc[g]
            /\ attempt'[g] = attempt[g] /\ seen'[g] = seen[g]
            /\ \A t \in Tables, n \in Names :
                 owner[<<t, n>>] = g => owner'[<<t, n>>] = g /\ db'[t][n] = db[t][n]
        BY <2>1, <2>3, OthersKept
      <3>4. stage'[g] = stage[g]
        BY <3>3
      <3> QED BY <1>0, <3>2, <3>3, <3>4, KeepTx
    <2> QED BY <2>2, <2>3
  <1>3. ASSUME NEW h \in Handlers,
               \/ Refuse(h) \/ Ping(h) \/ Notify(h) \/ Respond(h) \/ ClientGone(h)
               \/ StorageReturns(h) \/ CallStorage(h)
        PROVE  Tx(g)'
    BY <1>3, OutsideTx
  <1> QED BY <1>1, <1>2, <1>3 DEF Next

\* The invariant of the transactions holds in every state of every behaviour.
LEMMA TxInvariant == Spec => []TxInv
  <1>1. Init => TxInv
    BY InitHInv, InitRows, InitTx DEF TxInv
  <1>2. TxInv /\ [Next]_vars => TxInv'
    BY NextHInv, NextRows, NextTx DEF TxInv
  <1> QED BY <1>1, <1>2, PTL DEF Spec

----------------------------------------------------------------------------
(* Counters are sums of what was committed. *)

\* What a request adds, as the sum over all its items.
LEMMA TotalIs ==
  ASSUME FlowTypes, NEW h \in Handlers, NEW n
  PROVE  /\ Total(h, n) = Added(request[h].items, n, Len(request[h].items))
         /\ Total(h, n) \in Int
  <1>1. /\ request[h].items \in Seq(Item) /\ Len(request[h].items) \in Nat
        /\ DOMAIN request[h].items = 1 .. Len(request[h].items)
    BY ItemsType
  <1>2. Total(h, n) = Added(request[h].items, n, Len(request[h].items))
    BY <1>1 DEF Total, Added, SumFunction
  <1>3. Len(request[h].items) \in 0 .. Len(request[h].items)
    BY <1>1
  <1> QED BY <1>1, <1>2, <1>3, AddedItems

\* The right side of CountersAddUp.
Committed(n) == SumFunction([h \in Handlers |-> effects[h] * Total(h, n)])

LEMMA Distributes == \A a, b \in Int : (a + 1) * b = a * b + b /\ a * b \in Int
  OBVIOUS

\* One effect more of one handler adds its total once.
LEMMA EffectAdds ==
  ASSUME FlowTypes, NEW h \in Handlers, NEW n, request' = request,
         effects' = [effects EXCEPT ![h] = @ + 1]
  PROVE  Committed(n)' = Committed(n) + Total(h, n)
  <1> DEFINE f == [g \in Handlers |-> effects[g] * Total(g, n)]
             e == [g \in Handlers |-> effects'[g] * Total(g, n)]
             v == (effects[h] + 1) * Total(h, n)
  <1>1. \A g \in Handlers : effects[g] \in Int /\ Total(g, n) \in Int
    BY TotalIs, HandlerAssumption DEF FlowTypes
  <1>2. \A g \in Handlers : f[g] \in Int /\ f[g] = effects[g] * Total(g, n)
    BY <1>1
  <1>3. v \in Int /\ v = f[h] + Total(h, n)
    BY <1>1, <1>2, Distributes
  <1>4. \A g \in Handlers : e[g] = IF g = h THEN v ELSE f[g]
    <2>1. \A g \in Handlers : effects'[g] = IF g = h THEN effects[h] + 1 ELSE effects[g]
      BY DEF FlowTypes
    <2> QED BY <2>1
  <1>5. Committed(n) = SumFunctionOnSet(f, Handlers)
    BY DEF Committed, SumFunction
  <1>6. Committed(n)' = SumFunctionOnSet(e, Handlers)
    <2>1. \A g : Total(g, n)' = Total(g, n)
      BY DEF Total
    <2> QED BY <2>1 DEF Committed, SumFunction
  <1> HIDE DEF f, e, v
  <1>7. SumFunctionOnSet(e, Handlers) = SumFunctionOnSet(f, Handlers) + Total(h, n)
    <2> DEFINE rest == Handlers \ {h}
    <2>1. IsFiniteSet(Handlers) /\ IsFiniteSet(rest) /\ rest \subseteq Handlers
      BY HandlerAssumption, FS_RemoveElement
    <2>2. \A g \in Handlers : f[g] \in Int /\ e[g] \in Int
      BY <1>2, <1>3, <1>4
    <2>3. SumFunctionOnSet(f, Handlers) = f[h] + SumFunctionOnSet(f, Handlers \ {h})
      BY <2>1, <2>2, SumTakeOut
    <2>4. SumFunctionOnSet(e, Handlers) = e[h] + SumFunctionOnSet(e, Handlers \ {h})
      BY <2>1, <2>2, SumTakeOut
    <2>5. SumFunctionOnSet(f, rest) = SumFunctionOnSet(e, rest)
      <3>1. \A g \in rest : f[g] \in Int /\ e[g] = f[g]
        BY <1>2, <1>4
      <3> HIDE DEF rest
      <3> QED BY <2>1, <3>1, SumCongruent
    <2>6. SumFunctionOnSet(f, rest) \in Int
      <3>1. \A g \in rest : f[g] \in Int
        BY <2>1, <2>2
      <3> HIDE DEF rest
      <3> QED BY <2>1, <3>1, SumIsInt
    <2>7. e[h] = f[h] + Total(h, n)
      BY <1>3, <1>4
    <2> QED BY <1>1, <2>2, <2>3, <2>4, <2>5, <2>6, <2>7
  <1> QED BY <1>5, <1>6, <1>7

\* A change of the rows is one whole effect of one handler.
LEMMA WholeEffect ==
  ASSUME TxInv, NEW h \in Handlers, Inside(h), StorageStep(h)
  PROVE  \/ UNCHANGED <<db, effects>>
         \/ /\ effects' = [effects EXCEPT ![h] = @ + 1]
            /\ db' = ApplyAll(db, request[h].items)
            /\ \A n \in Names : OrZero(db'.counter[n]) = OrZero(db.counter[n]) + Total(h, n)
            /\ \/ request[h].op = "update" /\ pc[h] = "exec"
               \/ request[h].op = "updates" /\ pc[h] = "commit"
  <1>0. /\ FlowTypes /\ db \in Data /\ local \in [Handlers -> Data]
        /\ Tx(h) /\ Placed(h) /\ Single(h) /\ stage[h] = "storage"
    BY DEF TxInv, HInv, Rows, Inside
  <1> DEFINE items == request[h].items
  <1>1. items \in Seq(Item) /\ Len(items) \in Nat
    BY <1>0, ItemsType
  <1>2. CASE Exec(h) \/ ExecRetriable(h) \/ ExecError(h)
    <2>1. PICK applied \in BOOLEAN : Apply(h, applied)
      BY <1>2 DEF Exec, ExecRetriable, ExecError
    <2>2. pc[h] = "exec"
      BY <1>2 DEF Exec, ExecRetriable, ExecError
    <2>3. CASE ~applied
      BY <2>1, <2>3 DEF Apply
    <2>4. CASE applied
      <3> DEFINE it == Current(h)
      <3>1. /\ it \in Item /\ it.val # Nil /\ Fits(db, it)
            /\ db' = [db EXCEPT ![it.type][it.name] = NewValue(db, it)]
            /\ effects' = [effects EXCEPT ![h] = @ + 1]
        BY <2>1, <2>2, <2>4, CurrentType DEF TxInv, Apply, Upsert
      <3>2. request[h].op = "update" /\ Len(items) = 1 /\ it = items[1]
        <4>1. request[h].op = "update" /\ request[h] \in Requests /\ index[h] = 1
          BY <1>0, <2>2 DEF Placed, Single, FlowTypes
        <4> QED BY <4>1, RequestAssumption DEF Current
      <3>3. After(db, items, 1) = ApplyItem(db, items[1]) /\ ApplyAll(db, items) = After(db, items, 1)
        <4>1. 1 \in 1 .. Len(items) /\ 1 - 1 = 0
          BY <3>2
        <4> HIDE DEF items
        <4> QED BY <1>0, <1>1, <3>2, <4>1, ApplyAllItems
      <3>4. \A n \in Names : Total(h, n) = Delta(items[1], n)
        <4>1. \A n \in Names : Total(h, n) = Added(items, n, 1)
          BY <1>0, <3>2, TotalIs
        <4>2. \A n \in Names : Added(items, n, 1) = Delta(items[1], n)
          <5>1. 1 \in 1 .. Len(items) /\ 1 - 1 = 0 /\ items[1] \in Item
            BY <1>1, <3>2
          <5> HIDE DEF items
          <5>2. \A n \in Names : Added(items, n, 1) = Added(items, n, 0) + Delta(items[1], n)
                                 /\ Added(items, n, 0) = 0
            BY <1>1, <5>1, AddedItems
          <5>3. \A n \in Names : Delta(items[1], n) \in Int
            BY <5>1, DeltaType
          <5> QED BY <5>2, <5>3
        <4> QED BY <4>1, <4>2
      <3>5. /\ db' = ApplyItem(db, it)
            /\ \A n \in Names : OrZero(db'.counter[n]) = OrZero(db.counter[n]) + Delta(it, n)
        <4> HIDE DEF it
        <4>1. [db EXCEPT ![it.type][it.name] = NewValue(db, it)] = ApplyItem(db, it)
              /\ \A n \in Names : OrZero(ApplyItem(db, it).counter[n])
                                   = OrZero(db.counter[n]) + Delta(it, n)
          BY <1>0, <3>1, UpsertApplies
        <4>2. db' = ApplyItem(db, it)
          BY <3>1, <4>1
        <4> QED BY <4>1, <4>2
      <3> QED BY <2>2, <3>1, <3>2, <3>3, <3>4, <3>5
    <2> QED BY <2>3, <2>4
  <1>3. CASE Commit(h) \/ CommitError(h)
    <2>1. /\ pc[h] = "commit"
          /\ \/ UNCHANGED <<db, effects>>
             \/ db' = View(h) /\ effects' = [effects EXCEPT ![h] = @ + 1]
      BY <1>3 DEF Commit, CommitError
    <2>2. request[h].op = "updates"
      BY <1>0, <2>1 DEF Placed
    <2>3. index[h] - 1 = Len(items)
      BY <1>0, <1>1, <2>1 DEF Tx, Fresh
    <2>4. /\ View(h) = ApplyAll(db, items)
          /\ \A n \in Names : OrZero(View(h).counter[n]) = OrZero(db.counter[n]) + Total(h, n)
      <3>1. /\ View(h) = After(db, items, Len(items))
            /\ \A n \in Names : OrZero(View(h).counter[n])
                  = OrZero(db.counter[n]) + Added(items, n, Len(items))
        BY <1>0, <2>1, <2>3 DEF Tx, Built, Within
      <3>2. ApplyAll(db, items) = After(db, items, Len(items))
        BY <1>0, <1>1, ApplyAllItems
      <3> QED BY <1>0, <3>1, <3>2, TotalIs
    <2> QED BY <2>1, <2>2, <2>4
  <1>4. CASE ~(Exec(h) \/ ExecRetriable(h) \/ ExecError(h) \/ Commit(h) \/ CommitError(h))
    BY <1>4 DEF StorageStep, Delay, Begin, BeginError, Skip, Statement, EndOfBatch, BatchError,
                Select, SelectError, QueryGauges, QueryCounters, Query, QueryCut, dbVars
  <1> QED BY <1>2, <1>3, <1>4

\* No increment is lost and no batch is stored in part: a counter is the sum of the
\* deltas of what has been committed, for any number of handlers, whatever fails
\* (UpdateBatch, postgresstorage.go:118, UpdateCounter, :72).
THEOREM NoIncrementLost == Spec => []CountersAddUp
  <1>0. CountersAddUp <=> \A n \in Names : OrZero(db.counter[n]) = Committed(n)
    BY DEF CountersAddUp, Committed
  <1>1. Init => CountersAddUp
    <2> SUFFICES ASSUME Init, NEW n \in Names PROVE OrZero(db.counter[n]) = Committed(n)
      BY <1>0
    <2>1. FlowTypes
      BY InitHInv DEF HInv
    <2> DEFINE f == [g \in Handlers |-> effects[g] * Total(g, n)]
    <2>2. \A g \in Handlers : f[g] = 0
      BY <2>1, TotalIs DEF Init, StorageInit
    <2>3. SumFunctionOnSet(f, Handlers) = 0
      <3> HIDE DEF f
      <3> QED BY <2>2, HandlerAssumption, SumOfZeros
    <2>4. OrZero(db.counter[n]) = 0
      BY DEF Init, StorageInit, Empty, OrZero
    <2> QED BY <2>3, <2>4 DEF Committed, SumFunction
  <1>2. TxInv /\ CountersAddUp /\ [Next]_vars => CountersAddUp'
    <2> SUFFICES ASSUME TxInv, CountersAddUp, [Next]_vars PROVE CountersAddUp'
      OBVIOUS
    <2>0. FlowTypes
      BY DEF TxInv, HInv
    <2>1. ASSUME UNCHANGED <<db, effects, request>> PROVE CountersAddUp'
      <3>1. \A n \in Names : Committed(n)' = Committed(n)
        BY <2>1 DEF Committed, Total
      <3> QED BY <1>0, <2>1, <3>1 DEF CountersAddUp, Committed
    <2>2. ASSUME NEW h \in Handlers, InStorage(h) PROVE CountersAddUp'
      <3>1. Inside(h) /\ StorageStep(h) /\ request' = request
        BY <2>2 DEF InStorage, Inside
      <3>2. CASE UNCHANGED <<db, effects>>
        BY <2>1, <3>1, <3>2
      <3>3. CASE /\ effects' = [effects EXCEPT ![h] = @ + 1]
                 /\ \A n \in Names : OrZero(db'.counter[n]) = OrZero(db.counter[n]) + Total(h, n)
        <4>1. \A n \in Names : Committed(n)' = Committed(n) + Total(h, n)
          BY <2>0, <3>1, <3>3, EffectAdds
        <4>2. \A n \in Names : OrZero(db'.counter[n]) = Committed(n)'
          BY <1>0, <3>3, <4>1
        <4> QED BY <4>2 DEF CountersAddUp, Committed
      <3> QED BY <3>1, <3>2, <3>3, WholeEffect
    <2>3. CASE UNCHANGED vars
      BY <2>1, <2>3 DEF vars, storageVars, dbVars
    <2>4. ASSUME NEW h \in Handlers,
                 \/ Refuse(h) \/ Ping(h) \/ Notify(h) \/ Respond(h) \/ ClientGone(h)
                 \/ StorageReturns(h) \/ CallStorage(h)
          PROVE  CountersAddUp'
      BY <2>1, <2>4 DEF Refuse, Ping, Notify, Respond, ClientGone, StorageReturns, CallStorage,
                        storageVars, dbVars
    <2> QED BY <2>2, <2>3, <2>4 DEF Next
  <1> QED BY <1>1, <1>2, TxInvariant, PTL DEF Spec
----------------------------------------------------------------------------
(* The refinement: every step of a handler is an attempt or a read of      *)
(* FallibleStorage, or shows nothing.                                      *)

\* The outcomes of all calls.
Outcomes == [h \in Handlers |-> Outcome(h)]

\* The instance speaks of the same data.
LEMMA AbstractData ==
    /\ Abstract!Empty = Empty
    /\ \A d, items : Abstract!ApplyAll(d, items) = ApplyAll(d, items)
  <1>1. Abstract!Empty = Empty
    BY DEF Abstract!Empty, Empty
  <1>2. \A d, items : Abstract!ApplyAll(d, items) = ApplyAll(d, items)
    BY DEF Abstract!ApplyAll, ApplyAll, Abstract!FoldLeft, FoldLeft, Abstract!MapThenFoldSet,
       MapThenFoldSet, Abstract!ApplyItem, ApplyItem, Abstract!Max, Max, Abstract!OrZero, OrZero,
       Abstract!Wrap, Wrap
  <1> QED BY <1>1, <1>2

\* A step that changes nothing an abstract state is made of.
LEMMA Silent ==
  ASSUME UNCHANGED <<db, request, effects, seen>>,
         \A g \in Handlers : Outcome(g)' = Outcome(g)
  PROVE  UNCHANGED Abstract!fvars
  <1>1. Outcomes' = Outcomes
    BY DEF Outcomes
  <1> QED BY <1>1 DEF Outcomes, Abstract!fvars

\* A step of the call of h: what becomes of its outcome.
LEMMA Returns ==
  ASSUME NEW h \in Handlers, \A g \in Handlers \ {h} : Outcome(g)' = Outcome(g),
         \/ Outcome(h)' = Outcome(h)
         \/ Outcome(h)' = "error"
         \/ Outcome(h)' = "ok" /\ (Abstract!Writes(h) => effects'[h] > 0)
  PROVE  Abstract!Return(h) \/ Outcomes' = Outcomes
  <1>1. Outcomes' = [Outcomes EXCEPT ![h] = Outcome(h)']
    BY DEF Outcomes
  <1>2. CASE Outcome(h)' = Outcome(h)
    BY <1>2 DEF Outcomes
  <1>3. CASE Outcome(h)' = "error"
    BY <1>1, <1>3 DEF Abstract!Return, Outcomes
  <1>4. CASE Outcome(h)' = "ok" /\ (Abstract!Writes(h) => effects'[h] > 0)
    BY <1>1, <1>4 DEF Abstract!Return, Outcomes
  <1> QED BY <1>2, <1>3, <1>4

\* A step inside the storage: the call was open, and is open or has returned.
LEMMA OpenCall ==
  ASSUME TxInv, NEW h \in Handlers, Inside(h), StorageStep(h)
  PROVE  /\ Outcome(h) = "open"
         /\ Outcome(h)' = IF pc'[h] = "returned" THEN IF failed'[h] THEN "error" ELSE "ok"
                                                 ELSE "open"
         /\ \A g \in Handlers \ {h} : Outcome(g)' = Outcome(g)
  <1>0. FlowTypes /\ Tx(h) /\ Placed(h) /\ stage' = stage /\ stage[h] = "storage"
    BY DEF TxInv, HInv, Inside, handlerVars
  <1>1. pc[h] \notin {"idle", "returned"}
    BY DEF StorageStep, Exec, ExecRetriable, ExecError, Delay, Begin, BeginError, Skip, Statement,
           EndOfBatch, BatchError, Commit, CommitError, Select, SelectError, QueryGauges,
           QueryCounters, Query, QueryCut, Running
  <1>2. attempt[h] >= 1 /\ attempt[h] \in Nat
    BY <1>0, HandlerAssumption DEF Tx, Fresh, FlowTypes
  <1>3. /\ pc'[h] # "idle"
        /\ attempt' = attempt \/ attempt' = [attempt EXCEPT ![h] = @ + 1]
        /\ \A g \in Handlers \ {h} : pc'[g] = pc[g] /\ failed'[g] = failed[g]
    BY <1>0, <1>1 DEF FlowTypes, StorageStep, Exec, ExecRetriable, ExecError, Delay, Begin,
           BeginError, Skip, Statement, EndOfBatch, BatchError, Commit, CommitError, Select,
           SelectError, QueryGauges, QueryCounters, Query, QueryCut, Running, Goto, ReturnWith
  <1>4. /\ attempt'[h] # 0
        /\ \A g \in Handlers \ {h} : attempt'[g] = attempt[g]
    BY <1>0, <1>2, <1>3 DEF FlowTypes
  <1> QED BY <1>0, <1>1, <1>2, <1>3, <1>4 DEF Outcome

\* The step of an update, of a batch, or of a read that fails, is an attempt.
LEMMA AttemptRefines ==
  ASSUME TxInv, NEW h \in Handlers, Inside(h), StorageStep(h), seen' = seen,
         Abstract!Writes(h) \/ pc'[h] # "returned" \/ failed'[h]
  PROVE  Abstract!Next
  <1>0. /\ FlowTypes /\ Counted(h) /\ Placed(h) /\ stage[h] = "storage" /\ request' = request
        /\ effects[h] \in Nat /\ attempt[h] \in 0 .. MaxRetries + 1 /\ MaxRetries \in Nat
    BY HandlerAssumption DEF TxInv, HInv, Inside, FlowTypes
  <1>1. Abstract!Effect(h) \/ UNCHANGED <<db, effects>>
    <2>1. CASE /\ effects' = [effects EXCEPT ![h] = @ + 1]
               /\ db' = ApplyAll(db, request[h].items)
               /\ \/ request[h].op = "update" /\ pc[h] = "exec"
                  \/ request[h].op = "updates" /\ pc[h] = "commit"
      <3>1. effects[h] <= IF request[h].op = "updates" THEN 0 ELSE MaxRetries
        BY <1>0, <2>1 DEF Counted
      <3> QED BY <2>1, <3>1, AbstractData DEF Abstract!Effect, Abstract!Writes
    <2> QED BY <2>1, WholeEffect
  <1>2. pc'[h] = "returned" /\ ~failed'[h] /\ Abstract!Writes(h) => effects'[h] > 0
    <2>1. SUFFICES ASSUME pc'[h] = "returned", ~failed'[h], Abstract!Writes(h)
                   PROVE  effects'[h] > 0
      OBVIOUS
    <2>2. pc[h] \in {"exec", "delay", "begin", "stmt", "commit", "returned"}
      BY <1>0, <2>1 DEF Abstract!Writes, Placed
    <2>3. Exec(h) \/ Commit(h)
      BY <1>0, <2>1, <2>2 DEF FlowTypes, StorageStep, ExecRetriable, ExecError, Delay,
         Begin, BeginError, Skip, Statement, EndOfBatch, BatchError, CommitError, Select,
         SelectError, QueryGauges, QueryCounters, Query, QueryCut, Running, Goto, ReturnWith
    <2>4. effects' = [effects EXCEPT ![h] = @ + 1]
      BY <2>3 DEF Exec, Apply, Commit
    <2> QED BY <1>0, <2>4 DEF FlowTypes
  <1>3. Abstract!Return(h) \/ Outcomes' = Outcomes
    BY <1>2, OpenCall, Returns
  <1>4. Abstract!Attempt(h)
    BY <1>0, <1>1, <1>3, OpenCall DEF Abstract!Attempt, Outcomes
  <1> QED BY <1>4 DEF Abstract!Next

\* A query that is answered is a read.
LEMMA ReadRefines ==
  ASSUME TxInv, NEW h \in Handlers, Inside(h), StorageStep(h), ~Abstract!Writes(h),
         UNCHANGED <<db, effects>>,
         NEW table \in {"gauge", "counter"}, NEW names \in SUBSET Names,
         seen' = [seen EXCEPT ![h][table] =
                    [n \in Names |-> IF n \in names THEN db[table][n] ELSE Absent]]
  PROVE  Abstract!Next
  <1>1. Abstract!Return(h) \/ Outcomes' = Outcomes
    BY OpenCall, Returns
  <1>2. Abstract!Read(h, table, names)
    BY <1>1, OpenCall DEF Inside, Abstract!Read, Outcomes
  <1> QED BY <1>2 DEF Abstract!Next

\* GetGauge and GetCounter read the row of one name.
LEMMA SelectRefines ==
  ASSUME TxInv, NEW h \in Handlers, Inside(h), Select(h)
  PROVE  Abstract!Next
  <1> DEFINE it == Current(h)
             t == it.type
             n == it.name
  <1>0. /\ FlowTypes /\ Placed(h) /\ Tx(h) /\ stage[h] = "storage" /\ db \in Data
        /\ seen \in [Handlers -> Data] /\ pc[h] = "select"
        /\ UNCHANGED <<db, effects>>
        /\ seen' = [seen EXCEPT ![h][t][n] = db[t][n]]
    BY DEF TxInv, HInv, Inside, Rows, Select, dbVars
  <1>1. t \in {"gauge", "counter"} /\ n \in Names
    BY <1>0, CurrentType DEF TxInv, Tables
  <1>2. ~Abstract!Writes(h)
    BY <1>0 DEF Abstract!Writes, Placed
  <1>3. seen[h] = Empty
    BY <1>0 DEF Tx, Fresh
  <1>4. [seen[h][t] EXCEPT ![n] = db[t][n]]
          = [m \in Names |-> IF m \in {n} THEN db[t][m] ELSE Absent]
    BY <1>1, <1>3 DEF Empty
  <1>5. seen' = [seen EXCEPT ![h][t] = [m \in Names |-> IF m \in {n} THEN db[t][m] ELSE Absent]]
    BY <1>0, <1>4
  <1>6. StorageStep(h)
    BY DEF StorageStep
  <1> HIDE DEF it, t, n
  <1>7. {n} \in SUBSET Names
    BY <1>1
  <1> QED BY <1>0, <1>1, <1>2, <1>5, <1>6, <1>7, ReadRefines

\* Every step inside the storage.
LEMMA InStorageRefines ==
  ASSUME TxInv, NEW h \in Handlers, InStorage(h)
  PROVE  Abstract!Next
  <1>0. Inside(h) /\ StorageStep(h) /\ FlowTypes /\ Placed(h) /\ stage[h] = "storage"
    BY DEF InStorage, Inside, TxInv, HInv
  <1>1. CASE Select(h)
    BY <1>0, <1>1, SelectRefines
  <1>2. ASSUME NEW names \in SUBSET Names, QueryGauges(h, names) PROVE Abstract!Next
    BY <1>0, <1>2, ReadRefines DEF QueryGauges, Query, dbVars, Abstract!Writes, Placed
  <1>3. ASSUME NEW names \in SUBSET Names, QueryCounters(h, names) PROVE Abstract!Next
    BY <1>0, <1>3, ReadRefines DEF QueryCounters, Query, dbVars, Abstract!Writes, Placed
  <1>4. CASE QueryCut(h)
    <2>1. seen' = [seen EXCEPT ![h] = Empty] /\ UNCHANGED <<db, effects>> /\ request' = request
      BY <1>0, <1>4 DEF QueryCut, dbVars, Inside
    <2>2. ~Abstract!Writes(h)
      BY <1>0, <1>4 DEF QueryCut, Placed, Abstract!Writes
    <2>3. pc'[h] = "returned"
      BY <1>0, <1>4 DEF QueryCut, Goto, FlowTypes
    <2>4. Outcomes' = [Outcomes EXCEPT ![h] = IF failed'[h] THEN "error" ELSE "ok"]
      BY <1>0, <2>3, OpenCall DEF Outcomes
    <2>5. Abstract!Return(h)
      BY <2>2, <2>4 DEF Abstract!Return, Outcomes
    <2>6. Abstract!Drop(h)
      BY <1>0, <2>1, <2>2, <2>5, OpenCall, AbstractData DEF Abstract!Drop, Outcomes
    <2> QED BY <2>6 DEF Abstract!Next
  <1>5. CASE SelectError(h)
    <2>1. seen' = seen /\ failed'[h]
      BY <1>0, <1>5 DEF SelectError, ReturnWith, FlowTypes
    <2> QED BY <1>0, <2>1, AttemptRefines
  <1>6. CASE \/ Exec(h) \/ ExecRetriable(h) \/ ExecError(h) \/ Delay(h) \/ Begin(h)
             \/ BeginError(h) \/ Skip(h) \/ Statement(h) \/ EndOfBatch(h) \/ BatchError(h)
             \/ Commit(h) \/ CommitError(h)
    <2>1. seen' = seen /\ pc[h] \in {"exec", "delay", "begin", "stmt", "commit"}
      BY <1>6 DEF Exec, ExecRetriable, ExecError, Delay, Begin, BeginError, Skip, Statement,
             EndOfBatch, BatchError, Commit, CommitError, Running
    <2>2. Abstract!Writes(h)
      BY <1>0, <2>1 DEF Placed, Abstract!Writes
    <2> QED BY <1>0, <2>1, <2>2, AttemptRefines
  <1> QED BY <1>0, <1>1, <1>2, <1>3, <1>4, <1>5, <1>6 DEF StorageStep

\* The steps of the handlers themselves: a call, or nothing.
LEMMA OutsideRefines ==
  ASSUME TxInv, NEW h \in Handlers,
         \/ Refuse(h) \/ Ping(h) \/ Notify(h) \/ Respond(h) \/ ClientGone(h)
         \/ StorageReturns(h) \/ CallStorage(h)
  PROVE  Abstract!Next \/ UNCHANGED Abstract!fvars
  <1>0. FlowTypes /\ Placed(h) /\ Tx(h)
    BY DEF TxInv, HInv
  <1>1. UNCHANGED <<db, request, effects, seen, failed>>
    BY DEF Refuse, Ping, Notify, Respond, ClientGone, StorageReturns, CallStorage,
           storageVars, dbVars, callVars
  <1>2. ASSUME NEW g \in Handlers \ {h} PROVE Outcome(g)' = Outcome(g)
    <2>1. pc'[g] = pc[g] /\ stage'[g] = stage[g] /\ attempt'[g] = attempt[g]
      BY <1>0 DEF Refuse, Ping, Notify, Respond, ClientGone, StorageReturns, CallStorage,
                  Answer, Goto, FlowTypes, storageVars, callVars, handlerVars
    <2> QED BY <1>1, <2>1 DEF Outcome
  <1>3. CASE CallStorage(h)
    <2>1. stage[h] = "new" /\ stage'[h] = "storage" /\ pc[h] = "idle" /\ attempt'[h] = 1
      BY <1>0, <1>3 DEF CallStorage, FlowTypes, Placed
    <2>2. pc'[h] \in {"exec", "begin", "select", "gauges"}
      <3>1. request[h].op \in {"update", "updates", "value", "index"}
        BY <1>0, <1>3, RequestAssumption DEF CallStorage, FlowTypes, Request
      <3>2. pc'[h] = Method[request[h].op]
        BY <1>0, <1>3 DEF CallStorage, Goto, FlowTypes
      <3> QED BY <3>1, <3>2 DEF Method
    <2>3. Outcome(h) = "none" /\ Outcome(h)' = "open"
      BY <2>1, <2>2 DEF Outcome
    <2>4. Outcomes' = [Outcomes EXCEPT ![h] = "open"]
      BY <1>2, <2>3 DEF Outcomes
    <2>5. Abstract!Call(h)
      BY <1>1, <2>3, <2>4 DEF Abstract!Call, Outcomes
    <2> QED BY <2>5 DEF Abstract!Next
  <1>4. CASE ~CallStorage(h)
    <2>1. Outcome(h)' = Outcome(h)
      <3>1. CASE StorageReturns(h)
        BY <1>0, <1>1, <3>1 DEF StorageReturns, Goto, Answer, FlowTypes, Outcome
      <3>2. CASE Refuse(h) \/ Ping(h)
        <4>1. /\ stage[h] = "new" /\ stage'[h] = "answered" /\ attempt' = attempt /\ pc' = pc
              /\ attempt[h] = 0 /\ pc[h] = "idle"
          BY <1>0, <3>2 DEF Refuse, Ping, Answer, storageVars, callVars, FlowTypes, Tx, Fresh, Placed
        <4> QED BY <4>1 DEF Outcome
      <3>3. CASE Notify(h) \/ Respond(h) \/ ClientGone(h)
        <4>1. UNCHANGED <<attempt, pc>>
          BY <3>3 DEF Notify, Respond, ClientGone, storageVars, callVars
        <4>2. stage'[h] = stage[h] \/ (stage[h] = "audit" /\ stage'[h] = "answered")
          BY <1>0, <3>3 DEF Notify, Respond, ClientGone, Answer, handlerVars, FlowTypes
        <4> QED BY <1>1, <4>1, <4>2 DEF Outcome
      <3> QED BY <1>4, <3>1, <3>2, <3>3
    <2>2. \A g \in Handlers : Outcome(g)' = Outcome(g)
      BY <1>2, <2>1
    <2> QED BY <1>1, <2>2, Silent
  <1> QED BY <1>3, <1>4

\* PostgresStorage, behind its handlers, implements FallibleStorage: every change of the
\* tables is one whole update of one caller, repeated at most once per retry and a batch
\* never, and a read shows a table as it was at one instant, whatever fails
\* (execWithRetry, postgresstorage.go:39, UpdateBatch, :118, GetAllMetrics, :182).
THEOREM PostgresImplementsFallibleStorage == Spec => ImplementsFallibleStorage
  <1>1. Init => Abstract!Init
    <2> SUFFICES ASSUME Init PROVE Abstract!Init
      OBVIOUS
    <2>1. \A h \in Handlers : Outcome(h) = "none"
      BY DEF Init, StorageInit, Outcome
    <2>2. /\ db = Empty
          /\ \A h \in Handlers : effects[h] = 0 /\ seen[h] = Empty
      BY DEF Init, StorageInit
    <2>3. \A h \in Handlers : [g \in Handlers |-> Outcome(g)][h] = "none"
      BY <2>1
    <2> QED BY <2>2, <2>3, AbstractData DEF Abstract!Init
  <1>2. TxInv /\ [Next]_vars => [Abstract!Next]_(Abstract!fvars)
    <2> SUFFICES ASSUME TxInv, [Next]_vars PROVE Abstract!Next \/ UNCHANGED Abstract!fvars
      OBVIOUS
    <2>1. CASE UNCHANGED vars
      <3>1. UNCHANGED <<db, request, effects, seen>> /\ \A g \in Handlers : Outcome(g)' = Outcome(g)
        BY <2>1 DEF vars, storageVars, dbVars, callVars, handlerVars, Outcome
      <3> QED BY <3>1, Silent
    <2>2. CASE Next
      BY <2>2, InStorageRefines, OutsideRefines DEF Next
    <2> QED BY <2>1, <2>2
  <1> QED BY <1>1, <1>2, TxInvariant, PTL DEF Spec, ImplementsFallibleStorage, Abstract!Spec
=============================================================================
