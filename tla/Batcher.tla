------------------------------ MODULE Batcher ------------------------------
(***************************************************************************)
(* The batcher of the agent, cmd/agent/batcher.go: producers Add metrics   *)
(* to a bounded channel and never wait; one goroutine, Run, collects them  *)
(* in a buffer and posts the buffer when it is full, on every tick, and    *)
(* when the channel is closed, with the retries of DoIf.  A post that      *)
(* fails keeps the buffer.                                                 *)
(*                                                                         *)
(* Metrics are numbered in the order in which they are added.              *)
(***************************************************************************)
EXTENDS Integers, Sequences

CONSTANTS
    Cap,          \* capacity of the channel in (1024)
    MaxSize,      \* maxSize of NewBatcher; 0 means that size never makes Run post
    MaxRetries,   \* len(httpDelays) (3)
    MaxAdds       \* bound: calls of Add

ASSUME BatcherAssumption ==
    Cap \in Nat \ {0} /\ MaxSize \in Nat /\ MaxRetries \in Nat /\ MaxAdds \in Nat

VARIABLES
    in,        \* the channel b.in
    closed,    \* close(b.in) has run
    buf,       \* buf of Run
    pc,        \* of Run: "select", "post", "delay", "exited"
    attempt,   \* the number of the current attempt to post
    final,     \* the channel was found closed: this flush is the last
    added,     \* calls of Add so far
    accepted,  \* history: the metrics Add put in the channel
    gone,      \* history: the metrics that have left the buffer
    discarded, \* history: those of them that were never posted
    handled,   \* history: metric -> how often the server handled it (0, 1, or 2: more)
    unsure,    \* history: the metrics of posts handled and reported as errors
    failures   \* history: flushes that failed since the buffer was last emptied,
               \* counted up to MaxAdds

chanVars == <<in, closed, added, accepted>>
runVars == <<buf, pc, attempt, final>>
history == <<gone, discarded, handled, unsure, failures>>
vars == <<chanVars, runVars, history>>

Metric == [id : 1 .. MaxAdds, encodes : BOOLEAN]

Ids(s) == {s[i].id : i \in DOMAIN s}

TypeOK ==
    /\ in \in Seq(Metric) /\ Len(in) <= Cap /\ closed \in BOOLEAN
    /\ buf \in Seq(Metric)
    /\ pc \in {"select", "post", "delay", "exited"}
    /\ attempt \in 0 .. MaxRetries + 1 /\ final \in BOOLEAN
    /\ added \in 0 .. MaxAdds
    /\ accepted \in Seq(Metric) /\ gone \in Seq(Metric)
    /\ discarded \subseteq 1 .. MaxAdds /\ unsure \subseteq 1 .. MaxAdds
    /\ handled \in [1 .. MaxAdds -> 0 .. 2] /\ failures \in 0 .. MaxAdds
    /\ (pc = "exited" \/ final) => closed
    /\ pc \in {"post", "delay"} <=> attempt > 0

Init ==
    /\ in = << >> /\ closed = FALSE /\ added = 0 /\ accepted = << >>
    /\ buf = << >> /\ pc = "select" /\ attempt = 0 /\ final = FALSE
    /\ gone = << >> /\ discarded = {} /\ unsure = {}
    /\ handled = [i \in 1 .. MaxAdds |-> 0] /\ failures = 0

----------------------------------------------------------------------------
(* The producers.                                                          *)

\* Mutant: a full channel drops its oldest metric.
Add_DropsOldest ==
    /\ ~closed /\ added < MaxAdds
    /\ added' = added + 1
    /\ \E e \in BOOLEAN :
         LET m == [id |-> added + 1, encodes |-> e]
         IN  /\ in' = Append(IF Len(in) < Cap THEN in ELSE Tail(in), m)
             /\ accepted' = Append(accepted, m)
    /\ UNCHANGED <<closed, runVars, history>>

\* Mutant: a send that does not look at the room left.
Add_NoLimit ==
    /\ ~closed /\ added < MaxAdds
    /\ added' = added + 1
    /\ \E e \in BOOLEAN :
         LET m == [id |-> added + 1, encodes |-> e]
         IN  in' = Append(in, m) /\ accepted' = Append(accepted, m)
    /\ UNCHANGED <<closed, runVars, history>>

\* select with a default: a metric that finds the channel full is dropped.
Add ==
    /\ ~closed /\ added < MaxAdds
    /\ added' = added + 1
    /\ \E e \in BOOLEAN :
         LET m == [id |-> added + 1, encodes |-> e]
         IN  IF Len(in) < Cap
               THEN in' = Append(in, m) /\ accepted' = Append(accepted, m)
               ELSE UNCHANGED <<in, accepted>>
    /\ UNCHANGED <<closed, runVars, history>>

\* Whoever owns the batcher closes the channel, after the last Add.
Close ==
    /\ ~closed /\ closed' = TRUE
    /\ UNCHANGED <<in, added, accepted, runVars, history>>

----------------------------------------------------------------------------
(* Run.                                                                    *)

\* Run goes on after a flush, or returns.
AfterFlush(last) == IF last THEN "exited" ELSE "select"

\* flush() with the buffer b, the last one if the channel is closed: nothing to do for
\* an empty one, one metric that JSON cannot express discards them all, else the post
\* begins.
StartFlush(b, last) ==
    /\ final' = last
    /\ \/ /\ b = << >> /\ pc' = AfterFlush(last) /\ buf' = b
          /\ UNCHANGED <<attempt, gone, discarded, failures>>
       \/ /\ \E i \in DOMAIN b : ~b[i].encodes
          /\ pc' = AfterFlush(last) /\ buf' = << >>
          /\ gone' = gone \o b /\ discarded' = discarded \cup Ids(b) /\ failures' = 0
          /\ UNCHANGED attempt
       \/ /\ b # << >> /\ \A i \in DOMAIN b : b[i].encodes
          /\ pc' = "post" /\ attempt' = 1 /\ buf' = b
          /\ UNCHANGED <<gone, discarded, failures>>
    /\ UNCHANGED <<handled, unsure>>

\* Mutant: the buffer is flushed only once it is over its size.
Receive_FlushesLate ==
    /\ pc = "select" /\ in # << >>
    /\ in' = Tail(in)
    /\ LET b == Append(buf, Head(in))
       IN  IF MaxSize > 0 /\ Len(b) > MaxSize
             THEN StartFlush(b, FALSE)
             ELSE buf' = b /\ UNCHANGED <<pc, attempt, final, history>>
    /\ UNCHANGED <<closed, added, accepted>>

\* A metric is received; a buffer that has reached its size is flushed.
Receive ==
    /\ pc = "select" /\ in # << >>
    /\ in' = Tail(in)
    /\ LET b == Append(buf, Head(in))
       IN  IF MaxSize > 0 /\ Len(b) >= MaxSize
             THEN StartFlush(b, FALSE)
             ELSE buf' = b /\ UNCHANGED <<pc, attempt, final, history>>
    /\ UNCHANGED <<closed, added, accepted>>

\* Mutant: the ticker was stopped.
Tick_Never == FALSE /\ UNCHANGED vars

\* The ticker fires; select takes it even if a metric waits.
Tick ==
    /\ pc = "select" /\ buf # << >>
    /\ StartFlush(buf, FALSE)
    /\ UNCHANGED chanVars

\* Mutant: Run looks at the state of the channel before it has emptied it.
FindClosed_Early ==
    /\ pc = "select" /\ closed
    /\ StartFlush(buf, TRUE)
    /\ UNCHANGED chanVars

\* The channel is closed and empty: a last flush.
FindClosed ==
    /\ pc = "select" /\ closed /\ in = << >>
    /\ StartFlush(buf, TRUE)
    /\ UNCHANGED chanVars

\* What an attempt may come to: 200; the batch handled and an error all the same (the
\* reply lost, a 504; a server that handles it only after the error is counted here too,
\* as if it had been earlier); not handled (not reached, refused with 4xx or 5xx).
Outcomes == {"ok", "replyLost", "notHandled"}

Reaches(o) == o \in {"ok", "replyLost"}

\* Mutant: the buffer is emptied whatever the post came to.
Post_AlwaysEmpties(o) ==
    /\ pc = "post"
    /\ handled' = IF Reaches(o)
                    THEN [i \in DOMAIN handled |->
                            IF i \in Ids(buf) /\ handled[i] < 2 THEN handled[i] + 1 ELSE handled[i]]
                    ELSE handled
    /\ unsure' = IF o = "replyLost" THEN unsure \cup Ids(buf) ELSE unsure
    /\ IF o # "ok" /\ attempt <= MaxRetries
         THEN pc' = "delay" /\ UNCHANGED <<buf, attempt, gone, failures>>
         ELSE /\ pc' = AfterFlush(final) /\ attempt' = 0
              /\ buf' = << >> /\ gone' = gone \o buf /\ failures' = 0
    /\ UNCHANGED <<chanVars, final, discarded>>

\* One attempt of postJSONWithRetry; every error is retried, and after the last the
\* buffer is kept.
Post(o) ==
    /\ pc = "post"
    /\ handled' = IF Reaches(o)
                    THEN [i \in DOMAIN handled |->
                            IF i \in Ids(buf) /\ handled[i] < 2 THEN handled[i] + 1 ELSE handled[i]]
                    ELSE handled
    /\ unsure' = IF o = "replyLost" THEN unsure \cup Ids(buf) ELSE unsure
    /\ \/ /\ o = "ok"
          /\ pc' = AfterFlush(final) /\ attempt' = 0
          /\ buf' = << >> /\ gone' = gone \o buf /\ failures' = 0
       \/ /\ o # "ok" /\ attempt <= MaxRetries
          /\ pc' = "delay" /\ UNCHANGED <<buf, attempt, gone, failures>>
       \/ /\ o # "ok" /\ attempt > MaxRetries
          /\ pc' = AfterFlush(final) /\ attempt' = 0
          /\ failures' = IF failures < MaxAdds THEN failures + 1 ELSE failures
          /\ UNCHANGED <<buf, gone>>
    /\ UNCHANGED <<chanVars, final, discarded>>

\* The delay is over.
Retry ==
    /\ pc = "delay"
    /\ pc' = "post" /\ attempt' = attempt + 1
    /\ UNCHANGED <<chanVars, buf, final, history>>

Run == Receive \/ Tick \/ FindClosed \/ Retry \/ \E o \in Outcomes : Post(o)

Next == Add \/ Close \/ Run

Spec == Init /\ [][Next]_vars

\* Run is never stopped by the scheduler, the ticker fires again and again, and the
\* server is up often enough: a post tried again and again is answered some time.
FairSpec ==
    /\ Spec /\ WF_vars(Run)
    /\ SF_vars(Tick) /\ SF_vars(Post("ok")) /\ SF_vars(Receive)

----------------------------------------------------------------------------
\* No metric that Add accepted is lost, doubled or overtaken: they leave the buffer in
\* the order they came in, whatever fails in between.
InOrder == accepted = gone \o buf \o in

\* A metric that left the buffer without being discarded has been handled by the
\* server; and a metric is handled more than once only if a post of it was handled and
\* came back as an error.
HandledOnce ==
    /\ \A i \in Ids(gone) \ discarded : handled[i] > 0
    /\ \A i \in 1 .. MaxAdds : handled[i] = 2 => i \in unsure

\* The buffer outgrows its size by one metric for each flush that fails while the
\* server is down, and by no more: there is no other limit, and none without a size.
GrowthBounded ==
    MaxSize > 0 => Len(buf) <= MaxSize + failures - (IF pc = "select" THEN 1 ELSE 0)

\* When Run returns the channel is empty, and what is left in the buffer is lost only
\* because the last flush failed.
ExitFlushes == pc = "exited" => in = << >> /\ (buf = << >> \/ failures > 0)

\* Every metric that was accepted leaves the buffer, unless Run returns first.
EveryMetricLeaves ==
    \A i \in 1 .. MaxAdds : i \in Ids(in) ~> (i \in Ids(gone) \/ pc = "exited")
=============================================================================
