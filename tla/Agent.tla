------------------------------- MODULE Agent -------------------------------
(***************************************************************************)
(* The metrics agent, cmd/agent: three producer goroutines (the runtime    *)
(* poll, the report, the system collector), a bounded channel of jobs, a   *)
(* pool of workers that POST one metric at a time with retries, and the    *)
(* main goroutine that shuts them down on a signal.                        *)
(*                                                                         *)
(* A metric on its way is a job [name, val].  The value of a gauge is      *)
(* abstracted to the number of the poll (or of the system tick) that read  *)
(* it; the value of the PollCount counter is PollCount itself.             *)
(***************************************************************************)
EXTENDS Integers, Sequences, FiniteSets

CONSTANTS
    Gauges,       \* names of the runtime gauges collectMetrics stores
    MemGauges,    \* TotalMemory, FreeMemory
    CoreGauges,   \* CPUutilization1, CPUutilization2, ...
    RateLimit,    \* flagRateLimit: how many workers are asked for
    QueueCap,     \* capacity of the jobs channel (2048)
    MaxRetries,   \* len(httpDelays) (3)
    NoJob,        \* what a goroutine holds when it holds no job
    MaxPolls, MaxReports, MaxSysTicks   \* bounds: ticks of each timer

ASSUME AgentAssumption ==
    /\ RateLimit \in Int
    /\ QueueCap \in Nat \ {0}
    /\ MaxRetries \in Nat
    /\ MaxPolls \in Nat /\ MaxReports \in Nat /\ MaxSysTicks \in Nat
    /\ Gauges # {} /\ IsFiniteSet(MemGauges) /\ IsFiniteSet(CoreGauges)

Names == Gauges \cup MemGauges \cup CoreGauges \cup {"RandomValue", "PollCount"}
Job == [name : Names, val : Nat]

ASSUME NoJobAssumption == NoJob \notin Job

\* startWorkers: n < 1 means one worker.
Workers == 1 .. (IF RateLimit < 1 THEN 1 ELSE RateLimit)

\* The goroutines that write to the channel; the poll is the third one
\* main waits for, and writes only to agent.Metrics.
Senders == {"report", "sys"}

VARIABLES
    metrics,      \* agent.Metrics: the poll that wrote each gauge, 0 = no key yet
    randomValue,  \* agent.RandomValue: the poll that drew it
    pollCount,    \* agent.PollCount
    pollPC,       \* "select", "gauges", "random", "count", "exited"
    unwritten,    \* the gauges collectMetrics has still to write
    repPC,        \* "select", "range", "random", "exited"
    toVisit,      \* the keys the range over agent.Metrics has still to produce
    reports,      \* report ticks taken (bounded)
    sysPC,        \* "select", "memory", "exited"
    sysTodo,      \* the gauges collectSysLoop has still to post
    sysTicks,     \* system ticks taken (bounded)
    hand,         \* the job each sender has built and not yet sent
    jobs,         \* the jobs channel
    closed,       \* close(jobs) has run
    wpc,          \* workers: "select", "attempt", "delay", "exited"
    job,          \* workers: the metric being sent
    attempt,      \* workers: the number of the current attempt
    ctxDone,      \* a signal has cancelled ctx
    mainPC,       \* "running", "workers" (in wg.Wait), "done"
    crash,        \* "no", "map" (concurrent map access), "panic" (closed channel)
    produced, delivered, failed  \* history: jobs sent on the channel, POSTs that
                                 \* ended well, jobs the workers gave up

pollVars   == <<metrics, randomValue, pollCount, pollPC, unwritten>>
repVars    == <<repPC, toVisit, reports>>
sysVars    == <<sysPC, sysTodo, sysTicks>>
chanVars   == <<jobs, closed>>
workerVars == <<wpc, job, attempt, delivered, failed>>
mainVars   == <<ctxDone, mainPC>>
vars == <<pollVars, repVars, sysVars, hand, chanVars, workerVars, mainVars,
          crash, produced>>

\* What one attempt of sendMetricJSON can meet: a 2xx answer; a 500 or 501 (not an
\* error for the agent); a 4xx; the request not handled by the server (it is lost,
\* cannot be encrypted, or a proxy answers 502, 503 or 504); the request handled
\* and the reply lost (or a proxy's 504).
Outcomes == {"ok", "internal", "client", "notHandled", "replyLost"}

\* fn of DoIf returns nil.
Succeeds(o) == o \in {"ok", "internal"}

\* retryIf: true of every error, the client errors too.
RetryIf(o) == ~Succeeds(o)

TypeOK ==
    /\ metrics \in [Gauges -> Nat] /\ randomValue \in Nat /\ pollCount \in Nat
    /\ pollPC \in {"select", "gauges", "random", "count", "exited"}
    /\ unwritten \subseteq Gauges
    /\ repPC \in {"select", "range", "random", "exited"}
    /\ toVisit \subseteq Gauges /\ reports \in Nat
    /\ sysPC \in {"select", "memory", "exited"}
    /\ sysTodo \subseteq MemGauges \cup CoreGauges /\ sysTicks \in Nat
    /\ hand \in [Senders -> Job \cup {NoJob}]
    /\ jobs \in Seq(Job) /\ Len(jobs) <= QueueCap /\ closed \in BOOLEAN
    /\ wpc \in [Workers -> {"select", "attempt", "delay", "exited"}]
    /\ job \in [Workers -> Job \cup {NoJob}]
    /\ attempt \in [Workers -> 0 .. MaxRetries + 1]
    /\ ctxDone \in BOOLEAN /\ mainPC \in {"running", "workers", "done"}
    /\ crash \in {"no", "map", "panic"}
    /\ produced \in Nat /\ delivered \in Nat /\ failed \in Nat

\* NewAgent, the channel, the context, the producers and the workers started.
Init ==
    /\ metrics = [g \in Gauges |-> 0] /\ randomValue = 0 /\ pollCount = 0
    /\ pollPC = "select" /\ unwritten = {}
    /\ repPC = "select" /\ toVisit = {} /\ reports = 0
    /\ sysPC = "select" /\ sysTodo = {} /\ sysTicks = 0
    /\ hand = [s \in Senders |-> NoJob]
    /\ jobs = <<>> /\ closed = FALSE
    /\ wpc = [w \in Workers |-> "select"]
    /\ job = [w \in Workers |-> NoJob]
    /\ attempt = [w \in Workers |-> 0]
    /\ ctxDone = FALSE /\ mainPC = "running" /\ crash = "no"
    /\ produced = 0 /\ delivered = 0 /\ failed = 0

\* The process runs: neither returned from main nor crashed.
Alive == crash = "no" /\ mainPC # "done"

----------------------------------------------------------------------------
(* (a) The poll: collectMetrics on every tick. *)

PollTick ==
    /\ pollPC = "select" /\ pollCount < MaxPolls
    /\ pollPC' = "gauges" /\ unwritten' = Gauges
    /\ UNCHANGED <<metrics, randomValue, pollCount>>

\* One map write.  The code writes the gauges in a fixed order; here any order.
WriteGauge(g) ==
    /\ pollPC = "gauges" /\ g \in unwritten
    /\ metrics' = [metrics EXCEPT ![g] = pollCount + 1]
    /\ unwritten' = unwritten \ {g}
    /\ pollPC' = IF unwritten' = {} THEN "random" ELSE "gauges"
    /\ UNCHANGED <<randomValue, pollCount>>

WriteRandom ==
    /\ pollPC = "random"
    /\ randomValue' = pollCount + 1 /\ pollPC' = "count"
    /\ UNCHANGED <<metrics, pollCount, unwritten>>

CountPoll ==
    /\ pollPC = "count"
    /\ pollCount' = pollCount + 1 /\ pollPC' = "select"
    /\ UNCHANGED <<metrics, randomValue, unwritten>>

PollExit ==
    /\ pollPC = "select" /\ ctxDone
    /\ pollPC' = "exited"
    /\ UNCHANGED <<metrics, randomValue, pollCount, unwritten>>

PollStep ==
    /\ Alive
    /\ PollTick \/ (\E g \in Gauges : WriteGauge(g)) \/ WriteRandom \/ CountPoll \/ PollExit
    /\ UNCHANGED <<repVars, sysVars, hand, chanVars, workerVars, mainVars, crash, produced>>

----------------------------------------------------------------------------
(* (b) The report: every gauge of the map, RandomValue, PollCount.  A value is *)
(* read into a job first; the send on the channel is a step of its own, since  *)
(* it blocks while the channel is full.                                        *)

Hold(s, n, v) ==
    /\ hand[s] = NoJob
    /\ hand' = [hand EXCEPT ![s] = [name |-> n, val |-> v]]

\* A range over a map produces every key present when it starts, and may or may
\* not produce a key inserted later.
ReportTick ==
    /\ repPC = "select" /\ hand["report"] = NoJob /\ reports < MaxReports
    /\ toVisit' \in {S \in SUBSET Gauges : {g \in Gauges : metrics[g] # 0} \subseteq S}
    /\ repPC' = "range" /\ reports' = reports + 1
    /\ UNCHANGED hand

ReportGauge(g) ==
    /\ repPC = "range" /\ g \in toVisit /\ metrics[g] # 0
    /\ Hold("report", g, metrics[g])
    /\ toVisit' = toVisit \ {g}
    /\ UNCHANGED <<repPC, reports>>

ReportRandom ==
    /\ repPC = "range" /\ \A g \in toVisit : metrics[g] = 0
    /\ Hold("report", "RandomValue", randomValue)
    /\ repPC' = "random" /\ toVisit' = {}
    /\ UNCHANGED reports

ReportCount ==
    /\ repPC = "random"
    /\ Hold("report", "PollCount", pollCount)
    /\ repPC' = "select"
    /\ UNCHANGED <<toVisit, reports>>

ReportExit ==
    /\ repPC = "select" /\ hand["report"] = NoJob /\ ctxDone
    /\ repPC' = "exited"
    /\ UNCHANGED <<toVisit, reports, hand>>

ReportStep ==
    /\ Alive
    /\ ReportTick \/ (\E g \in Gauges : ReportGauge(g)) \/ ReportRandom \/ ReportCount
       \/ ReportExit
    /\ UNCHANGED <<pollVars, sysVars, chanVars, workerVars, mainVars, crash, produced>>

\* agent.Metrics has no lock: a range that advances while the poll writes a key
\* is a data race, which the Go runtime may turn into a fatal error.
MapRace ==
    /\ Alive /\ pollPC = "gauges" /\ repPC = "range" /\ hand["report"] = NoJob
    /\ crash' = "map"
    /\ UNCHANGED <<pollVars, repVars, sysVars, hand, chanVars, workerVars, mainVars, produced>>

----------------------------------------------------------------------------
(* (c) The system collector: memory, then one gauge per core; a failed reading *)
(* posts nothing.                                                              *)

SysTick ==
    /\ sysPC = "select" /\ sysTodo = {} /\ hand["sys"] = NoJob /\ sysTicks < MaxSysTicks
    /\ sysPC' = "memory" /\ sysTicks' = sysTicks + 1
    /\ sysTodo' \in {{}, MemGauges}
    /\ UNCHANGED hand

SysPost(n) ==
    /\ n \in sysTodo
    /\ Hold("sys", n, sysTicks)
    /\ sysTodo' = sysTodo \ {n}
    /\ UNCHANGED <<sysPC, sysTicks>>

SysCores ==
    /\ sysPC = "memory" /\ sysTodo = {} /\ hand["sys"] = NoJob
    /\ sysPC' = "select" /\ sysTodo' \in {{}, CoreGauges}
    /\ UNCHANGED <<sysTicks, hand>>

\* Mutant: a collector loop with no ctx.Done case.
SysExit_Never ==
    FALSE /\ UNCHANGED <<sysVars, hand>>

SysExit ==
    /\ sysPC = "select" /\ sysTodo = {} /\ hand["sys"] = NoJob /\ ctxDone
    /\ sysPC' = "exited"
    /\ UNCHANGED <<sysTodo, sysTicks, hand>>

SysStep ==
    /\ Alive
    /\ SysTick \/ (\E n \in MemGauges \cup CoreGauges : SysPost(n)) \/ SysCores \/ SysExit
    /\ UNCHANGED <<pollVars, repVars, chanVars, workerVars, mainVars, crash, produced>>

----------------------------------------------------------------------------
(* The channel and the workers. *)

\* Mutant: a send that does not wait for room.
Send_Unbounded(s) ==
    /\ Alive /\ hand[s] # NoJob
    /\ jobs' = Append(jobs, hand[s])
    /\ hand' = [hand EXCEPT ![s] = NoJob]
    /\ produced' = produced + 1
    /\ UNCHANGED <<crash, pollVars, repVars, sysVars, closed, workerVars, mainVars>>

\* jobs <- m: blocks while the channel is full, panics once it is closed.
Send(s) ==
    /\ Alive /\ hand[s] # NoJob
    /\ closed \/ Len(jobs) < QueueCap
    /\ IF closed
         THEN crash' = "panic" /\ UNCHANGED <<hand, jobs, produced>>
         ELSE /\ jobs' = Append(jobs, hand[s])
              /\ hand' = [hand EXCEPT ![s] = NoJob]
              /\ produced' = produced + 1
              /\ UNCHANGED crash
    /\ UNCHANGED <<pollVars, repVars, sysVars, closed, workerVars, mainVars>>

\* The rest of the state when a worker w takes a step.
OthersUnchanged ==
    UNCHANGED <<pollVars, repVars, sysVars, hand, closed, mainVars, crash, produced>>

\* Mutant: the job is read and left in the channel for another worker.
Take_Peek(w) ==
    /\ Alive /\ wpc[w] = "select" /\ jobs # <<>>
    /\ job' = [job EXCEPT ![w] = Head(jobs)]
    /\ wpc' = [wpc EXCEPT ![w] = "attempt"]
    /\ attempt' = [attempt EXCEPT ![w] = 1]
    /\ UNCHANGED <<jobs, delivered, failed>> /\ OthersUnchanged

\* select, case m, ok := <-jobs: Go chooses it at random when ctx is done too.
Take(w) ==
    /\ Alive /\ wpc[w] = "select" /\ jobs # <<>>
    /\ job' = [job EXCEPT ![w] = Head(jobs)]
    /\ jobs' = Tail(jobs)
    /\ wpc' = [wpc EXCEPT ![w] = "attempt"]
    /\ attempt' = [attempt EXCEPT ![w] = 1]
    /\ UNCHANGED <<delivered, failed>> /\ OthersUnchanged

\* select, case <-ctx.Done(), or the channel closed and drained.
WorkerExit(w) ==
    /\ Alive /\ wpc[w] = "select"
    /\ ctxDone \/ (closed /\ jobs = <<>>)
    /\ wpc' = [wpc EXCEPT ![w] = "exited"]
    /\ UNCHANGED <<jobs, job, attempt, delivered, failed>> /\ OthersUnchanged

\* The worker is done with its job and back at the top of its loop.
Release(w) ==
    /\ wpc' = [wpc EXCEPT ![w] = "select"]
    /\ job' = [job EXCEPT ![w] = NoJob]
    /\ attempt' = [attempt EXCEPT ![w] = 0]

\* The metric cannot be encoded: sendMetricJSON fails before the first attempt.
EncodeError(w) ==
    /\ Alive /\ wpc[w] = "attempt" /\ attempt[w] = 1
    /\ Release(w) /\ failed' = failed + 1
    /\ UNCHANGED <<jobs, delivered>> /\ OthersUnchanged

\* One call of fn in DoIf, and what DoIf does with its error: the first attempt
\* and one more per delay, while retryIf says so; the last error is logged and the
\* metric dropped.
Attempt(w, o) ==
    /\ Alive /\ wpc[w] = "attempt"
    /\ IF RetryIf(o) /\ attempt[w] <= MaxRetries
         THEN /\ wpc' = [wpc EXCEPT ![w] = "delay"]
              /\ UNCHANGED <<job, attempt, delivered, failed>>
         ELSE /\ Release(w)
              /\ delivered' = IF Succeeds(o) THEN delivered + 1 ELSE delivered
              /\ failed' = IF Succeeds(o) THEN failed ELSE failed + 1
    /\ UNCHANGED jobs /\ OthersUnchanged

\* Mutant: the retry does not count.
Retry_Uncounted(w) ==
    /\ Alive /\ wpc[w] = "delay"
    /\ wpc' = [wpc EXCEPT ![w] = "attempt"]
    /\ UNCHANGED <<jobs, job, attempt, delivered, failed>> /\ OthersUnchanged

\* Mutant: the failed job goes back to the end of the channel.
Retry_Requeue(w) ==
    /\ Alive /\ wpc[w] = "delay"
    /\ jobs' = Append(jobs, job[w]) /\ Release(w)
    /\ UNCHANGED <<delivered, failed>> /\ OthersUnchanged

\* The timer of the delay fires; the context of DoIf is never cancelled here.
Retry(w) ==
    /\ Alive /\ wpc[w] = "delay"
    /\ wpc' = [wpc EXCEPT ![w] = "attempt"]
    /\ attempt' = [attempt EXCEPT ![w] = @ + 1]
    /\ UNCHANGED <<jobs, job, delivered, failed>> /\ OthersUnchanged

----------------------------------------------------------------------------
(* main: the signal, prodWG.Wait, close(jobs), wg.Wait. *)

ProducersExited == pollPC = "exited" /\ repPC = "exited" /\ sysPC = "exited"
WorkersExited == \A w \in Workers : wpc[w] = "exited"

Signal ==
    /\ Alive /\ ~ctxDone
    /\ ctxDone' = TRUE
    /\ UNCHANGED <<pollVars, repVars, sysVars, hand, chanVars, workerVars, mainPC, crash, produced>>

\* Mutant: the channel is closed without waiting for the producers.
CloseJobs_Early ==
    /\ Alive /\ mainPC = "running" /\ ctxDone
    /\ closed' = TRUE /\ mainPC' = "workers"
    /\ UNCHANGED <<pollVars, repVars, sysVars, hand, jobs, workerVars, ctxDone, crash, produced>>

CloseJobs ==
    /\ Alive /\ mainPC = "running" /\ ctxDone /\ ProducersExited
    /\ closed' = TRUE /\ mainPC' = "workers"
    /\ UNCHANGED <<pollVars, repVars, sysVars, hand, jobs, workerVars, ctxDone, crash, produced>>

MainReturn ==
    /\ Alive /\ mainPC = "workers" /\ WorkersExited
    /\ mainPC' = "done"
    /\ UNCHANGED <<pollVars, repVars, sysVars, hand, chanVars, workerVars, ctxDone, crash, produced>>

----------------------------------------------------------------------------
\* Every step but a request to the server.
LocalStep ==
    \/ PollStep \/ ReportStep \/ MapRace \/ SysStep
    \/ \E s \in Senders : Send(s)
    \/ \E w \in Workers : Take(w) \/ WorkerExit(w) \/ EncodeError(w) \/ Retry(w)
    \/ Signal \/ CloseJobs \/ MainReturn

Next == LocalStep \/ \E w \in Workers, o \in Outcomes : Attempt(w, o)

Spec == Init /\ [][Next]_vars

\* Every goroutine that can run does; every attempt ends (the network answers
\* or fails, an assumption: the resty client has no timeout of its own); a
\* select that keeps finding ctx done takes that branch in the end, since Go
\* chooses at random among the ready ones.
Fairness ==
    /\ WF_vars(PollStep) /\ WF_vars(ReportStep) /\ WF_vars(SysStep)
    /\ SF_vars(Alive /\ PollExit /\ PollStep)
    /\ SF_vars(Alive /\ ReportExit /\ ReportStep)
    /\ SF_vars(Alive /\ SysExit /\ SysStep)
    /\ \A s \in Senders : SF_vars(Send(s))
    /\ \A w \in Workers :
         /\ WF_vars(Take(w) \/ EncodeError(w) \/ Retry(w) \/ \E o \in Outcomes : Attempt(w, o))
         /\ SF_vars(WorkerExit(w))
    /\ WF_vars(CloseJobs) /\ WF_vars(MainReturn)

FairSpec == Spec /\ Fairness

----------------------------------------------------------------------------
(* Properties. *)

\* The shutdown order of main: the channel is closed only when no producer can
\* write to it any more, so no send ever panics; and main returns only when every
\* worker has left with no metric in its hands.
SafeShutdown ==
    /\ closed => ProducersExited /\ \A s \in Senders : hand[s] = NoJob
    /\ crash # "panic"
    /\ mainPC = "done" => closed /\ \A w \in Workers : job[w] = NoJob

Busy == {w \in Workers : job[w] # NoJob}

\* Channel and workers neither lose nor duplicate a metric, whatever the signal,
\* the retries and the select of each worker do: every job ever sent is in the
\* channel, in the hands of exactly one worker, delivered or given up.
JobsAccounted == produced = Len(jobs) + Cardinality(Busy) + delivered + failed

\* A metric a worker has taken does not keep it for ever: the retries of DoIf end,
\* with the metric delivered or given up, also after the signal.
EveryJobEnds ==
    \A w \in Workers : job[w] # NoJob ~> (job[w] = NoJob \/ crash # "no")

\* After the signal the agent stops, unless the channel fills up: a producer that
\* blocks on a full channel after the workers have left never comes back.
StopsUnlessFull == ctxDone ~> (mainPC = "done" \/ crash # "no" \/ Len(jobs) = QueueCap)
=============================================================================
