------------------------------ MODULE Delivery ------------------------------
(***************************************************************************)
(* The agent and the server it reports to: Agent's steps, with the effect  *)
(* of every POST /update on the storage of the server (updateHandlerJSON   *)
(* and the storage's UpdateGauge and UpdateCounter, atomic here), also of  *)
(* the requests that arrive after the agent has given them up.             *)
(***************************************************************************)
EXTENDS Agent

VARIABLES
    gauge,    \* the gauges of the server: the last value stored, 0 = none
    counter,  \* the PollCount counter of the server
    tries     \* history: for each worker the metrics it has taken; of each, how often the
              \* server has handled it and how many of its requests are still on their way

serverVars == <<gauge, counter, tries>>
dvars == <<vars, serverVars>>

DTypeOK ==
    /\ TypeOK
    /\ gauge \in [Names \ {"PollCount"} -> Nat] /\ counter \in Nat
    /\ tries \in [Workers -> Seq([metric : Job, handled : Nat, late : Nat])]

DInit ==
    /\ Init
    /\ gauge = [n \in Names \ {"PollCount"} |-> 0] /\ counter = 0
    /\ tries = [w \in Workers |-> <<>>]

\* updateHandlerJSON: a gauge is set, a counter is increased by the delta.
Receive(m) ==
    IF m.name = "PollCount"
      THEN counter' = counter + m.val /\ UNCHANGED gauge
      ELSE gauge' = [gauge EXCEPT ![m.name] = m.val] /\ UNCHANGED counter

\* A metric m of which the server has handled h requests and l are on their way.
Tally(m, h, l) == [metric |-> m, handled |-> h, late |-> l]

\* The attempts whose request the server has handled when they end: a lost reply is one
\* of them, and the agent will send the metric again.
Reaches(o) == o \in {"ok", "replyLost"}

\* One attempt with its effect on the server.  An attempt that ends in a transport error
\* or in a proxy's 504 may leave a request behind that the server handles later.
Request(w, o) ==
    /\ Attempt(w, o)
    /\ \/ /\ Reaches(o) /\ Receive(job[w])
          /\ tries' = [tries EXCEPT ![w][Len(tries[w])] = Tally(@.metric, @.handled + 1, @.late)]
       \/ /\ o = "notHandled" /\ UNCHANGED <<gauge, counter>>
          /\ tries' = [tries EXCEPT ![w][Len(tries[w])] = Tally(@.metric, @.handled, @.late + 1)]
       \/ ~Reaches(o) /\ UNCHANGED serverVars

\* Mutant: the server handles a request that is not on its way any more.
LateReceive_Unasked(w, k) ==
    /\ Receive(tries[w][k].metric)
    /\ tries' = [tries EXCEPT ![w][k] = Tally(@.metric, @.handled + 1, @.late - 1)]
    /\ UNCHANGED vars

\* The server handles a request whose attempt has ended for the agent long ago: its
\* handler does not look at the context of the request, and the agent may have gone on
\* to other metrics, or have stopped.  Nothing says that it ever does.
LateReceive(w, k) ==
    /\ tries[w][k].late > 0
    /\ Receive(tries[w][k].metric)
    /\ tries' = [tries EXCEPT ![w][k] = Tally(@.metric, @.handled + 1, @.late - 1)]
    /\ UNCHANGED vars

\* The worker takes a metric from the channel.
Takes(w) == job[w] = NoJob /\ job'[w] # NoJob

\* Every other step of the agent; with a metric taken its counts start.
Local ==
    /\ LocalStep /\ UNCHANGED <<gauge, counter>>
    /\ tries' = [w \in Workers |->
                   IF Takes(w)
                     THEN Append(tries[w], Tally(job'[w], 0, 0))
                     ELSE tries[w]]

DNext ==
    \/ Local
    \/ \E w \in Workers, o \in Outcomes : Request(w, o)
    \/ \E w \in Workers : \E k \in DOMAIN tries[w] : LateReceive(w, k)

DSpec == DInit /\ [][DNext]_dvars

----------------------------------------------------------------------------
\* The metrics of a worker that it is done with: delivered, or given up.
Over(w) == {k \in DOMAIN tries[w] : k < Len(tries[w]) \/ job[w] = NoJob}

\* With one worker a gauge of the server goes back to an older reading in one way only:
\* the server handles, late, a request of a metric that the worker is already done with.
\* The channel keeps the order of the reports, a metric is not overtaken while it is
\* retried, and a late request of the metric at hand brings back nothing older.
NeverStale ==
    [][\A n \in DOMAIN gauge : gauge'[n] < gauge[n] =>
         \E w \in Workers : \E k \in Over(w) : tries'[w][k].late < tries[w][k].late]_dvars

\* The attempts a worker has made for its k-th metric that have ended.
Ended(w, k) ==
    IF k \in Over(w) THEN MaxRetries + 1
    ELSE IF wpc[w] = "attempt" THEN attempt[w] - 1 ELSE attempt[w]

\* A lost reply or a late request makes the server handle a metric again, but the
\* retries bound how often: at most once per attempt, 1 + MaxRetries times in all, also
\* when the requests arrive long after the worker has gone on.
DuplicatesBounded ==
    \A w \in Workers : \A k \in DOMAIN tries[w] : tries[w][k].handled <= Ended(w, k)
=============================================================================
