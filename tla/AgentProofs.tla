----------------------------- MODULE AgentProofs -----------------------------
(***************************************************************************)
(* Theorems about Agent, for any number of workers, any capacity of the    *)
(* channel, any number of retries and any sets of gauges; and about        *)
(* Delivery: its agent behaves as Agent says, the server handles a metric  *)
(* no more often than there are attempts, and with one worker its gauges   *)
(* go back to an older reading only by a request that comes late.          *)
(***************************************************************************)
EXTENDS Delivery, FiniteSetTheorems, TLAPS

\* The pool of startWorkers is finite, so that its busy workers can be counted.
LEMMA WorkersFinite == IsFiniteSet(Workers)
  <1>1. (IF RateLimit < 1 THEN 1 ELSE RateLimit) \in Int
    BY AgentAssumption
  <1> QED BY <1>1, FS_Interval DEF Workers

\* A reading that a sender builds is a job.
LEMMA HoldType ==
  ASSUME TypeOK, NEW s \in Senders, NEW n \in Names, NEW v \in Nat, Hold(s, n, v)
  PROVE  hand' \in [Senders -> Job \cup {NoJob}]
  BY DEF TypeOK, Hold, Job

----------------------------------------------------------------------------
(* Type correctness. *)

\* The poll keeps the types.
LEMMA PollType ==
  ASSUME TypeOK, PollStep
  PROVE  TypeOK'
  <1> USE DEF TypeOK, PollStep, repVars, sysVars, chanVars, workerVars, mainVars
  <1>1. CASE PollTick BY <1>1 DEF PollTick
  <1>2. ASSUME NEW g \in Gauges, WriteGauge(g) PROVE TypeOK'
    BY <1>2 DEF WriteGauge
  <1>3. CASE WriteRandom BY <1>3 DEF WriteRandom
  <1>4. CASE CountPoll BY <1>4 DEF CountPoll
  <1>5. CASE PollExit BY <1>5 DEF PollExit
  <1> QED BY <1>1, <1>2, <1>3, <1>4, <1>5

\* The report keeps the types.
LEMMA ReportType ==
  ASSUME TypeOK, ReportStep
  PROVE  TypeOK'
  <1> USE DEF TypeOK, ReportStep, pollVars, sysVars, chanVars, workerVars, mainVars
  <1>1. CASE ReportTick BY <1>1 DEF ReportTick
  <1>2. ASSUME NEW g \in Gauges, ReportGauge(g) PROVE TypeOK'
    <2>1. hand' \in [Senders -> Job \cup {NoJob}]
      BY <1>2, HoldType DEF ReportGauge, Names, Senders
    <2> QED BY <1>2, <2>1 DEF ReportGauge
  <1>3. CASE ReportRandom
    <2>1. hand' \in [Senders -> Job \cup {NoJob}]
      BY <1>3, HoldType DEF ReportRandom, Names, Senders
    <2> QED BY <1>3, <2>1 DEF ReportRandom
  <1>4. CASE ReportCount
    <2>1. hand' \in [Senders -> Job \cup {NoJob}]
      BY <1>4, HoldType DEF ReportCount, Names, Senders
    <2> QED BY <1>4, <2>1 DEF ReportCount
  <1>5. CASE ReportExit BY <1>5 DEF ReportExit
  <1> QED BY <1>1, <1>2, <1>3, <1>4, <1>5

\* The system collector keeps the types.
LEMMA SysType ==
  ASSUME TypeOK, SysStep
  PROVE  TypeOK'
  <1> USE DEF TypeOK, SysStep, pollVars, repVars, chanVars, workerVars, mainVars
  <1>1. CASE SysTick BY <1>1 DEF SysTick
  <1>2. ASSUME NEW n \in MemGauges \cup CoreGauges, SysPost(n) PROVE TypeOK'
    <2>1. hand' \in [Senders -> Job \cup {NoJob}]
      BY <1>2, HoldType DEF SysPost, Names, Senders
    <2> QED BY <1>2, <2>1 DEF SysPost
  <1>3. CASE SysCores BY <1>3 DEF SysCores
  <1>4. CASE SysExit BY <1>4 DEF SysExit
  <1> QED BY <1>1, <1>2, <1>3, <1>4

\* A send keeps the types, the bound of the channel included.
LEMMA SendType ==
  ASSUME TypeOK, NEW s \in Senders, Send(s)
  PROVE  TypeOK'
  <1> USE DEF Send, pollVars, repVars, sysVars, workerVars, mainVars
  <1>1. CASE closed BY <1>1 DEF TypeOK
  <1>2. CASE ~closed
    <2>1. hand[s] \in Job BY DEF TypeOK
    <2>2. jobs' = Append(jobs, hand[s]) /\ Len(jobs) < QueueCap
      BY <1>2
    <2>3. jobs' \in Seq(Job) /\ Len(jobs') <= QueueCap
      BY <2>1, <2>2, AgentAssumption DEF TypeOK
    <2>4. hand' = [hand EXCEPT ![s] = NoJob] /\ produced' = produced + 1 /\ UNCHANGED crash
      BY <1>2
    <2>5. UNCHANGED <<pollVars, repVars, sysVars, closed, workerVars, mainVars>>
      OBVIOUS
    <2> QED BY <2>3, <2>4, <2>5 DEF TypeOK
  <1> QED BY <1>1, <1>2

\* A worker that takes a job keeps the types.
LEMMA TakeType ==
  ASSUME TypeOK, NEW w \in Workers, Take(w)
  PROVE  TypeOK'
  <1> USE AgentAssumption DEF OthersUnchanged, pollVars, repVars, sysVars, mainVars
  <1>1. Head(jobs) \in Job /\ Tail(jobs) \in Seq(Job) /\ Len(Tail(jobs)) <= QueueCap
    BY DEF Take, TypeOK
  <1>2. jobs' = Tail(jobs) /\ job' = [job EXCEPT ![w] = Head(jobs)]
    BY DEF Take
  <1>3. jobs' \in Seq(Job) /\ Len(jobs') <= QueueCap /\ job' \in [Workers -> Job \cup {NoJob}]
    BY <1>1, <1>2 DEF TypeOK
  <1> QED BY <1>3 DEF Take, TypeOK

\* A worker that leaves keeps the types.
LEMMA WorkerExitType ==
  ASSUME TypeOK, NEW w \in Workers, WorkerExit(w)
  PROVE  TypeOK'
  BY DEF WorkerExit, TypeOK, OthersUnchanged, pollVars, repVars, sysVars, mainVars

\* A job that cannot be encoded keeps the types.
LEMMA EncodeErrorType ==
  ASSUME TypeOK, NEW w \in Workers, EncodeError(w)
  PROVE  TypeOK'
  BY AgentAssumption
     DEF EncodeError, Release, TypeOK, OthersUnchanged, pollVars, repVars, sysVars, mainVars

\* A retry keeps the types, and the number of attempts its bound, if one is left.
LEMMA RetryType ==
  ASSUME TypeOK, NEW w \in Workers, Retry(w), attempt[w] <= MaxRetries
  PROVE  TypeOK'
  BY AgentAssumption
     DEF Retry, TypeOK, OthersUnchanged, pollVars, repVars, sysVars, mainVars

\* An attempt keeps the types, whatever its outcome.
LEMMA AttemptType ==
  ASSUME TypeOK, NEW w \in Workers, NEW o \in Outcomes, Attempt(w, o)
  PROVE  TypeOK'
  <1> USE DEF OthersUnchanged, pollVars, repVars, sysVars, mainVars
  <1>1. CASE RetryIf(o) /\ attempt[w] <= MaxRetries
    BY <1>1 DEF Attempt, TypeOK
  <1>2. CASE ~(RetryIf(o) /\ attempt[w] <= MaxRetries)
    <2>1. Release(w)
      BY <1>2 DEF Attempt
    <2>2. delivered' \in Nat /\ failed' \in Nat
      BY <1>2 DEF Attempt, TypeOK
    <2>3. wpc' \in [Workers -> {"select", "attempt", "delay", "exited"}]
          /\ job' \in [Workers -> Job \cup {NoJob}]
          /\ attempt' \in [Workers -> 0 .. MaxRetries + 1]
      BY <2>1, AgentAssumption DEF Release, TypeOK
    <2>4. UNCHANGED jobs /\ OthersUnchanged
      BY DEF Attempt
    <2> QED BY <2>2, <2>3, <2>4 DEF TypeOK
  <1> QED BY <1>1, <1>2

----------------------------------------------------------------------------
(* The inductive invariant. *)

\* What a worker holds, and that it waits for a retry only when one is left.
WorkerInv ==
    \A w \in Workers :
        /\ job[w] # NoJob <=> wpc[w] \in {"attempt", "delay"}
        /\ wpc[w] = "delay" => attempt[w] <= MaxRetries

\* A producer that has exited holds nothing, and the channel is closed after all of
\* them have; main moves on only with the channel closed, and ends after the workers.
ShutdownInv ==
    /\ closed => ProducersExited
    /\ repPC = "exited" => hand["report"] = NoJob
    /\ sysPC = "exited" => hand["sys"] = NoJob /\ sysTodo = {}
    /\ crash # "panic"
    /\ mainPC # "running" => closed
    /\ mainPC = "done" => WorkersExited

Inv == TypeOK /\ WorkerInv /\ ShutdownInv

\* What main starts satisfies the invariant.
LEMMA InitInv == Init => Inv
  <1> SUFFICES ASSUME Init PROVE Inv
    OBVIOUS
  <1>1. TypeOK
    <2>1. jobs \in Seq(Job) /\ Len(jobs) <= QueueCap
      BY AgentAssumption DEF Init
    <2>2. attempt \in [Workers -> 0 .. MaxRetries + 1]
      BY AgentAssumption DEF Init
    <2> QED BY <2>1, <2>2 DEF Init, TypeOK
  <1>2. WorkerInv
    BY DEF Init, WorkerInv
  <1>3. ShutdownInv
    BY DEF Init, ShutdownInv, Senders
  <1> QED BY <1>1, <1>2, <1>3 DEF Inv

\* The steps of the producers.
LEMMA ProducerInv ==
  ASSUME Inv, PollStep \/ ReportStep \/ SysStep
  PROVE  Inv'
  <1> USE DEF Inv
  <1>1. CASE PollStep
    <2> USE <1>1 DEF PollStep, repVars, sysVars, chanVars, workerVars, mainVars
    <2>1. TypeOK' BY PollType
    <2>2. WorkerInv' BY DEF WorkerInv
    <2>3. pollPC # "exited"
      BY DEF PollTick, WriteGauge, WriteRandom, CountPoll, PollExit
    <2>4. ShutdownInv'
      BY <2>3 DEF ShutdownInv, ProducersExited, WorkersExited
    <2> QED BY <2>1, <2>2, <2>4
  <1>2. CASE ReportStep
    <2> USE <1>2 DEF ReportStep, pollVars, sysVars, chanVars, workerVars, mainVars
    <2>1. TypeOK' BY ReportType
    <2>2. WorkerInv' BY DEF WorkerInv
    <2>3. repPC # "exited" /\ (repPC' = "exited" => hand' = hand /\ hand["report"] = NoJob)
      BY DEF ReportTick, ReportGauge, ReportRandom, ReportCount, ReportExit
    <2>4. hand'["sys"] = hand["sys"]
      BY DEF ReportTick, ReportGauge, ReportRandom, ReportCount, ReportExit, Hold, TypeOK, Senders
    <2>5. ShutdownInv'
      BY <2>3, <2>4 DEF ShutdownInv, ProducersExited, WorkersExited
    <2> QED BY <2>1, <2>2, <2>5
  <1>3. CASE SysStep
    <2> USE <1>3 DEF SysStep, pollVars, repVars, chanVars, workerVars, mainVars
    <2>1. TypeOK' BY SysType
    <2>2. WorkerInv' BY DEF WorkerInv
    <2>3. sysPC # "exited" /\ (sysPC' = "exited" =>
                 hand' = hand /\ hand["sys"] = NoJob /\ sysTodo' = {})
      BY DEF SysTick, SysPost, SysCores, SysExit, ShutdownInv
    <2>4. hand'["report"] = hand["report"]
      BY DEF SysTick, SysPost, SysCores, SysExit, Hold, TypeOK, Senders
    <2>5. ShutdownInv'
      BY <2>3, <2>4 DEF ShutdownInv, ProducersExited, WorkersExited
    <2> QED BY <2>1, <2>2, <2>5
  <1> QED BY <1>1, <1>2, <1>3

\* A send, and the steps of one worker.
LEMMA SendInv ==
  ASSUME Inv, NEW s \in Senders, Send(s)
  PROVE  Inv'
  <1> USE DEF Inv
  <1>1. TypeOK' BY SendType
  <1>2. ~closed
    BY DEF Send, ShutdownInv, ProducersExited, Senders
  <1>3. hand' = [hand EXCEPT ![s] = NoJob] /\ UNCHANGED crash
    BY <1>2 DEF Send
  <1>4. UNCHANGED <<pollVars, repVars, sysVars, closed, workerVars, mainVars>>
    BY DEF Send
  <1>5. WorkerInv'
    BY <1>4 DEF WorkerInv, workerVars
  <1>6. \A t \in Senders : hand[t] = NoJob => hand'[t] = NoJob
    BY <1>3 DEF TypeOK
  <1>7. ShutdownInv'
    BY <1>3, <1>4, <1>6
    DEF ShutdownInv, ProducersExited, WorkersExited, Senders, pollVars, repVars, sysVars,
        workerVars, mainVars
  <1> QED BY <1>1, <1>5, <1>7

\* What the shutdown relies on when a worker that is alive takes a step: main has not
\* returned, and only the exit of a worker makes it exited.
LEMMA WorkerShutdown ==
  ASSUME Inv, Alive, OthersUnchanged
  PROVE  ShutdownInv'
  BY DEF Inv, Alive, OthersUnchanged, ShutdownInv, ProducersExited, pollVars, repVars, sysVars, mainVars

\* Every step of a worker keeps the invariant.
LEMMA WorkerStepInv ==
  ASSUME Inv, NEW w \in Workers,
         Take(w) \/ WorkerExit(w) \/ EncodeError(w) \/ Retry(w)
           \/ \E o \in Outcomes : Attempt(w, o)
  PROVE  Inv'
  <1>1. CASE Take(w)
    <2>1. Head(jobs) # NoJob
      BY <1>1, NoJobAssumption DEF Take, Inv, TypeOK
    <2>2. WorkerInv'
      BY <1>1, <2>1 DEF Take, Inv, WorkerInv, TypeOK
    <2> QED BY <1>1, <2>2, TakeType, WorkerShutdown DEF Take, Inv
  <1>2. CASE WorkerExit(w)
    <2>1. WorkerInv'
      BY <1>2 DEF WorkerExit, Inv, WorkerInv, TypeOK
    <2> QED BY <1>2, <2>1, WorkerExitType, WorkerShutdown DEF WorkerExit, Inv
  <1>3. CASE EncodeError(w)
    <2>1. WorkerInv'
      BY <1>3 DEF EncodeError, Release, Inv, WorkerInv, TypeOK
    <2> QED BY <1>3, <2>1, EncodeErrorType, WorkerShutdown DEF EncodeError, Inv
  <1>4. CASE Retry(w)
    <2>1. attempt[w] <= MaxRetries
      BY <1>4 DEF Retry, Inv, WorkerInv
    <2>2. WorkerInv'
      BY <1>4 DEF Retry, Inv, WorkerInv, TypeOK
    <2> QED BY <1>4, <2>1, <2>2, RetryType, WorkerShutdown DEF Retry, Inv
  <1>5. ASSUME NEW o \in Outcomes, Attempt(w, o) PROVE Inv'
    <2>1. CASE RetryIf(o) /\ attempt[w] <= MaxRetries
      BY <1>5, <2>1, AttemptType, WorkerShutdown DEF Attempt, Inv, WorkerInv, TypeOK
    <2>2. CASE ~(RetryIf(o) /\ attempt[w] <= MaxRetries)
      <3>1. Release(w)
        BY <1>5, <2>2 DEF Attempt
      <3>2. WorkerInv'
        BY <3>1 DEF Release, Inv, WorkerInv, TypeOK
      <3> QED BY <1>5, <3>2, AttemptType, WorkerShutdown DEF Attempt, Inv
    <2> QED BY <2>1, <2>2
  <1> QED BY <1>1, <1>2, <1>3, <1>4, <1>5

\* The steps of main, the race and the stuttering step.
LEMMA MainInv ==
  ASSUME Inv, MapRace \/ Signal \/ CloseJobs \/ MainReturn \/ UNCHANGED vars
  PROVE  Inv'
  <1> USE DEF pollVars, repVars, sysVars, chanVars, workerVars, mainVars
  <1>1. CASE MapRace
    BY <1>1 DEF MapRace, Inv, TypeOK, WorkerInv, ShutdownInv, ProducersExited, WorkersExited, Alive
  <1>2. CASE Signal
    BY <1>2 DEF Signal, Inv, TypeOK, WorkerInv, ShutdownInv, ProducersExited, WorkersExited
  <1>3. CASE CloseJobs
    BY <1>3 DEF CloseJobs, Inv, TypeOK, WorkerInv, ShutdownInv, ProducersExited, WorkersExited
  <1>4. CASE MainReturn
    BY <1>4 DEF MainReturn, Inv, TypeOK, WorkerInv, ShutdownInv, ProducersExited, WorkersExited
  <1>5. CASE UNCHANGED vars
    BY <1>5 DEF vars, Inv, TypeOK, WorkerInv, ShutdownInv, ProducersExited, WorkersExited
  <1> QED BY <1>1, <1>2, <1>3, <1>4, <1>5

\* Every step keeps the invariant.
LEMMA NextInv == Inv /\ [Next]_vars => Inv'
  BY ProducerInv, SendInv, WorkerStepInv, MainInv DEF Next, LocalStep

\* The invariant holds throughout.
LEMMA Invariance == Spec => []Inv
  BY InitInv, NextInv, PTL DEF Spec

\* Every variable keeps its type, and in particular the channel its bound.
THEOREM TypeCorrect == Spec => []TypeOK
  <1>1. Inv => TypeOK BY DEF Inv
  <1> QED BY <1>1, Invariance, PTL

\* The channel is closed only after every producer has left, no send panics, and main
\* returns only when no worker holds a metric.
THEOREM ShutdownIsSafe == Spec => []SafeShutdown
  <1>1. Inv => SafeShutdown
    BY DEF Inv, WorkerInv, ShutdownInv, SafeShutdown, ProducersExited, WorkersExited, Senders
  <1> QED BY <1>1, Invariance, PTL

----------------------------------------------------------------------------
(* No metric is lost or duplicated. *)

\* What is counted: the quantities are numbers, and so is their sum.
LEMMA Counts ==
  ASSUME TypeOK
  PROVE  /\ IsFiniteSet(Busy) /\ Cardinality(Busy) \in Nat
         /\ Len(jobs) \in Nat /\ produced \in Nat /\ delivered \in Nat /\ failed \in Nat
  <1>1. Busy \in SUBSET Workers
    BY DEF Busy
  <1>2. IsFiniteSet(Busy)
    BY <1>1, WorkersFinite, FS_Subset
  <1> QED BY <1>2, FS_CardinalityType DEF TypeOK

\* A step that leaves channel, workers and history alone leaves the sum alone.
LEMMA SameCount ==
  ASSUME JobsAccounted, UNCHANGED <<jobs, job, delivered, failed, produced>>
  PROVE  JobsAccounted'
  BY DEF JobsAccounted, Busy

\* A job that is sent is one more in the channel.
LEMMA SendCount ==
  ASSUME Inv, JobsAccounted, NEW s \in Senders, Send(s)
  PROVE  JobsAccounted'
  <1>1. ~closed
    BY DEF Send, Inv, ShutdownInv, ProducersExited, Senders
  <1>2. jobs' = Append(jobs, hand[s]) /\ produced' = produced + 1
    BY <1>1 DEF Send
  <1>3. UNCHANGED <<job, delivered, failed>>
    BY DEF Send, workerVars
  <1>4. hand[s] \in Job /\ jobs \in Seq(Job)
    BY DEF Send, Inv, TypeOK
  <1>5. Len(jobs') = Len(jobs) + 1
    BY <1>2, <1>4
  <1>6. Cardinality(Busy') = Cardinality(Busy)
    BY <1>3 DEF Busy
  <1>7. TypeOK
    BY DEF Inv
  <1> QED BY <1>2, <1>3, <1>5, <1>6, <1>7, Counts DEF JobsAccounted

\* A job that is taken leaves the channel for the hands of a free worker.
LEMMA TakeCount ==
  ASSUME Inv, JobsAccounted, NEW w \in Workers, Take(w)
  PROVE  JobsAccounted'
  <1>1. w \notin Busy
    BY DEF Take, Busy, Inv, WorkerInv
  <1>2. Head(jobs) # NoJob
    BY NoJobAssumption DEF Take, Inv, TypeOK
  <1>3. Busy' = Busy \cup {w}
    BY <1>2 DEF Take, Busy, Inv, TypeOK
  <1>4. TypeOK
    BY DEF Inv
  <1>5. Cardinality(Busy') = Cardinality(Busy) + 1
    BY <1>1, <1>3, <1>4, Counts, FS_AddElement
  <1>6. Len(jobs') = Len(jobs) - 1
    BY DEF Take, Inv, TypeOK
  <1>7. UNCHANGED <<delivered, failed, produced>>
    BY DEF Take, OthersUnchanged
  <1> QED BY <1>4, <1>5, <1>6, <1>7, Counts DEF JobsAccounted

\* A busy worker that releases its job is one less.
LEMMA ReleaseCount ==
  ASSUME Inv, NEW w \in Workers, wpc[w] = "attempt", Release(w)
  PROVE  Cardinality(Busy') = Cardinality(Busy) - 1
  <1>1. w \in Busy
    BY DEF Busy, Inv, WorkerInv
  <1>2. Busy' = Busy \ {w}
    BY DEF Release, Busy, Inv, TypeOK
  <1>3. TypeOK
    BY DEF Inv
  <1> QED BY <1>1, <1>2, <1>3, Counts, FS_RemoveElement

\* A metric that cannot be encoded is given up.
LEMMA EncodeErrorCount ==
  ASSUME Inv, JobsAccounted, NEW w \in Workers, EncodeError(w)
  PROVE  JobsAccounted'
  <1>1. Cardinality(Busy') = Cardinality(Busy) - 1
    BY ReleaseCount DEF EncodeError
  <1>2. UNCHANGED <<jobs, delivered, produced>> /\ failed' = failed + 1
    BY DEF EncodeError, OthersUnchanged
  <1>3. TypeOK
    BY DEF Inv
  <1> QED BY <1>1, <1>2, <1>3, Counts DEF JobsAccounted

\* An attempt ends in a delay, or counts its metric once as delivered or given up.
LEMMA AttemptCount ==
  ASSUME Inv, JobsAccounted, NEW w \in Workers, NEW o \in Outcomes, Attempt(w, o)
  PROVE  JobsAccounted'
  <1>1. UNCHANGED <<jobs, produced>>
    BY DEF Attempt, OthersUnchanged
  <1>2. CASE RetryIf(o) /\ attempt[w] <= MaxRetries
    BY <1>1, <1>2, SameCount DEF Attempt
  <1>3. CASE ~(RetryIf(o) /\ attempt[w] <= MaxRetries)
    <2>1. Cardinality(Busy') = Cardinality(Busy) - 1
      BY <1>3, ReleaseCount DEF Attempt
    <2>2. TypeOK
      BY DEF Inv
    <2>3. CASE Succeeds(o)
      <3>1. delivered' = delivered + 1 /\ failed' = failed
        BY <1>3, <2>3 DEF Attempt
      <3> QED BY <1>1, <2>1, <2>2, <3>1, Counts DEF JobsAccounted
    <2>4. CASE ~Succeeds(o)
      <3>1. delivered' = delivered /\ failed' = failed + 1
        BY <1>3, <2>4 DEF Attempt
      <3> QED BY <1>1, <2>1, <2>2, <3>1, Counts DEF JobsAccounted
    <2> QED BY <2>3, <2>4
  <1> QED BY <1>2, <1>3

\* Every step keeps the account.
LEMMA NextCount == Inv /\ JobsAccounted /\ [Next]_vars => JobsAccounted'
  <1> SUFFICES ASSUME Inv, JobsAccounted, [Next]_vars PROVE JobsAccounted'
    OBVIOUS
  <1>1. CASE PollStep \/ ReportStep \/ SysStep
    BY <1>1, SameCount DEF PollStep, ReportStep, SysStep, chanVars, workerVars
  <1>2. CASE MapRace \/ Signal \/ CloseJobs \/ MainReturn \/ UNCHANGED vars
    BY <1>2, SameCount DEF MapRace, Signal, CloseJobs, MainReturn, vars, chanVars, workerVars
  <1>3. ASSUME NEW w \in Workers, WorkerExit(w) \/ Retry(w) PROVE JobsAccounted'
    BY <1>3, SameCount DEF WorkerExit, Retry, OthersUnchanged
  <1> QED BY <1>1, <1>2, <1>3, SendCount, TakeCount, EncodeErrorCount, AttemptCount
          DEF Next, LocalStep

\* However the signal, the retries and the random choice of each select fall, every job
\* sent on the channel is in the channel, with one worker, delivered or given up.
THEOREM NoJobLost == Spec => []JobsAccounted
  <1>1. Init => JobsAccounted
    <2> SUFFICES ASSUME Init PROVE JobsAccounted
      OBVIOUS
    <2>1. Busy = {}
      BY DEF Init, Busy
    <2>2. jobs = <<>> /\ produced = 0 /\ delivered = 0 /\ failed = 0
      BY DEF Init
    <2> QED BY <2>1, <2>2, FS_EmptySet DEF JobsAccounted
  <1> QED BY <1>1, NextCount, Invariance, PTL DEF Spec


----------------------------------------------------------------------------
(* The agent in the composition. *)

LEMMA DNextIsNext == [DNext]_dvars => [Next]_vars
  BY DEF DNext, Local, Next, Request, LateReceive, dvars

\* The composition implements Agent: a server that answers adds no behaviour to it.
THEOREM ImplementsAgent == DSpec => Spec
  <1>1. DInit => Init
    BY DEF DInit
  <1> QED BY <1>1, DNextIsNext, PTL DEF DSpec, Spec

LEMMA AgentInvariance == DSpec => []Inv
  BY ImplementsAgent, Invariance, PTL

\* A request reaches the server with a metric.
LEMMA RequestHasJob ==
  ASSUME Inv, NEW w \in Workers, NEW o \in Outcomes, Request(w, o)
  PROVE  job[w] \in Job
  BY DEF Request, Attempt, Inv, WorkerInv, TypeOK

\* What a worker holds is the last of the metrics it has taken.
AtHand ==
    \A w \in Workers : job[w] # NoJob =>
        Len(tries[w]) \in DOMAIN tries[w] /\ tries[w][Len(tries[w])].metric = job[w]

Try == [metric : Job, handled : Nat, late : Nat]

\* t differs from tries in the counts of one metric, which are now r's.
Counted(t, w, k, r) ==
    /\ t \in [Workers -> Seq(Try)]
    /\ \A v \in Workers : Len(t[v]) = Len(tries[v]) /\ DOMAIN t[v] = DOMAIN tries[v]
    /\ \A v \in Workers : \A i \in DOMAIN tries[v] :
         t[v][i] = IF v = w /\ i = k THEN r ELSE tries[v][i]

LEMMA PutTry ==
  ASSUME tries \in [Workers -> Seq(Try)], NEW w \in Workers, NEW k \in DOMAIN tries[w],
         NEW r \in Try, NEW t, t = [tries EXCEPT ![w] = [tries[w] EXCEPT ![k] = r]]
  PROVE  Counted(t, w, k, r)
  <1>1. tries[w] \in Seq(Try)
    OBVIOUS
  <1>2. /\ [tries[w] EXCEPT ![k] = r] \in Seq(Try)
        /\ Len([tries[w] EXCEPT ![k] = r]) = Len(tries[w])
        /\ DOMAIN [tries[w] EXCEPT ![k] = r] = DOMAIN tries[w]
    BY <1>1
  <1>3. \A v \in Workers : t[v] = IF v = w THEN [tries[w] EXCEPT ![k] = r] ELSE tries[v]
    OBVIOUS
  <1>4. t \in [Workers -> Seq(Try)]
    BY <1>2
  <1>5. \A v \in Workers : Len(t[v]) = Len(tries[v]) /\ DOMAIN t[v] = DOMAIN tries[v]
    BY <1>2, <1>3
  <1>6. \A v \in Workers : \A i \in DOMAIN tries[v] :
          t[v][i] = IF v = w /\ i = k THEN r ELSE tries[v][i]
    BY <1>3
  <1> QED BY <1>4, <1>5, <1>6 DEF Counted

\* The three ways in which a request changes the counts.
LEMMA CountTry ==
  ASSUME tries \in [Workers -> Seq(Try)], NEW w \in Workers, NEW k \in DOMAIN tries[w],
         NEW h \in Nat, NEW l \in Nat, NEW t,
         t = [tries EXCEPT ![w][k] = Tally(@.metric, h, l)]
  PROVE  Counted(t, w, k, Tally(tries[w][k].metric, h, l))
  <1>1. tries[w][k] \in Try
    OBVIOUS
  <1>2. Tally(tries[w][k].metric, h, l) \in Try
    BY <1>1 DEF Try, Tally
  <1>3. t = [tries EXCEPT ![w] = [tries[w] EXCEPT ![k] = Tally(tries[w][k].metric, h, l)]]
    BY Zenon
  <1> QED BY <1>2, <1>3, PutTry

\* A request of the metric at hand: handled, or on its way.
LEMMA RequestCounts ==
  ASSUME tries \in [Workers -> Seq(Try)], NEW w \in Workers, NEW o \in Outcomes, Request(w, o),
         Len(tries[w]) \in DOMAIN tries[w], ~UNCHANGED tries
  PROVE  \E h, l \in Nat :
           /\ \/ h = tries[w][Len(tries[w])].handled + 1 /\ l = tries[w][Len(tries[w])].late
              \/ h = tries[w][Len(tries[w])].handled /\ l = tries[w][Len(tries[w])].late + 1
           /\ Counted(tries', w, Len(tries[w]), Tally(tries[w][Len(tries[w])].metric, h, l))
  <1> DEFINE k == Len(tries[w])
  <1>1. tries[w][k] \in Try
    OBVIOUS
  <1>2. tries[w][k].handled \in Nat /\ tries[w][k].late \in Nat
    BY <1>1 DEF Try
  <1>3. CASE tries' = [tries EXCEPT ![w][k] = Tally(@.metric, @.handled + 1, @.late)]
    <2>1. tries' = [tries EXCEPT ![w][k] = Tally(@.metric, tries[w][k].handled + 1, tries[w][k].late)]
      BY <1>3, Zenon
    <2>2. tries[w][k].handled + 1 \in Nat
      BY <1>2
    <2>3. Counted(tries', w, k, Tally(tries[w][k].metric, tries[w][k].handled + 1, tries[w][k].late))
      BY <1>2, <2>1, <2>2, CountTry
    <2> QED BY <1>2, <2>2, <2>3
  <1>4. CASE tries' = [tries EXCEPT ![w][k] = Tally(@.metric, @.handled, @.late + 1)]
    <2>1. tries' = [tries EXCEPT ![w][k] = Tally(@.metric, tries[w][k].handled, tries[w][k].late + 1)]
      BY <1>4, Zenon
    <2>2. tries[w][k].late + 1 \in Nat
      BY <1>2
    <2>3. Counted(tries', w, k, Tally(tries[w][k].metric, tries[w][k].handled, tries[w][k].late + 1))
      BY <1>2, <2>1, <2>2, CountTry
    <2> QED BY <1>2, <2>2, <2>3
  <1> QED BY <1>3, <1>4 DEF Request, serverVars

\* A late request moves from one count to the other.
LEMMA LateCounts ==
  ASSUME tries \in [Workers -> Seq(Try)], NEW w \in Workers, NEW k \in DOMAIN tries[w],
         LateReceive(w, k)
  PROVE  \E h, l \in Nat :
           /\ h = tries[w][k].handled + 1 /\ tries[w][k].late = l + 1
           /\ Counted(tries', w, k, Tally(tries[w][k].metric, h, l))
  <1>1. tries[w][k] \in Try
    OBVIOUS
  <1>2. tries[w][k].handled \in Nat /\ tries[w][k].late \in Nat /\ tries[w][k].late > 0
    BY <1>1 DEF Try, LateReceive
  <1>3. tries' = [tries EXCEPT ![w][k] = Tally(@.metric, tries[w][k].handled + 1, tries[w][k].late - 1)]
    BY Zenon DEF LateReceive
  <1>4. tries[w][k].handled + 1 \in Nat /\ tries[w][k].late - 1 \in Nat
        /\ tries[w][k].late = (tries[w][k].late - 1) + 1
    BY <1>2
  <1>5. Counted(tries', w, k, Tally(tries[w][k].metric, tries[w][k].handled + 1, tries[w][k].late - 1))
    BY <1>3, <1>4, CountTry
  <1> QED BY <1>4, <1>5

\* There is a worker.
LEMMA FirstWorker == 1 \in Workers
  BY AgentAssumption DEF Workers

\* What a step that sends no request does to a worker: nothing, or it takes a metric,
\* leaves, gives up a metric that cannot be encoded, or retries.
LEMMA LocalWorker ==
  ASSUME Inv, LocalStep, NEW v \in Workers
  PROVE  \/ wpc'[v] = wpc[v] /\ attempt'[v] = attempt[v] /\ job'[v] = job[v]
         \/ job[v] = NoJob /\ wpc'[v] = "attempt" /\ attempt'[v] = 1
         \/ job[v] = NoJob /\ job'[v] = NoJob
         \/ job[v] # NoJob /\ job'[v] = NoJob
         \/ /\ wpc[v] = "delay" /\ wpc'[v] = "attempt"
            /\ attempt'[v] = attempt[v] + 1 /\ job'[v] = job[v]
  <1>1. CASE UNCHANGED workerVars
    BY <1>1 DEF workerVars
  <1>2. ASSUME NEW w \in Workers, Take(w) \/ WorkerExit(w) \/ EncodeError(w) \/ Retry(w)
        PROVE  \/ wpc'[v] = wpc[v] /\ attempt'[v] = attempt[v] /\ job'[v] = job[v]
               \/ job[v] = NoJob /\ wpc'[v] = "attempt" /\ attempt'[v] = 1
               \/ job[v] = NoJob /\ job'[v] = NoJob
               \/ job[v] # NoJob /\ job'[v] = NoJob
               \/ /\ wpc[v] = "delay" /\ wpc'[v] = "attempt"
                  /\ attempt'[v] = attempt[v] + 1 /\ job'[v] = job[v]
    <2> USE DEF Inv, TypeOK, WorkerInv
    <2>1. CASE Take(w)
      BY <2>1 DEF Take
    <2>2. CASE WorkerExit(w)
      BY <2>2 DEF WorkerExit
    <2>3. CASE EncodeError(w)
      BY <2>3 DEF EncodeError, Release
    <2>4. CASE Retry(w)
      BY <2>4 DEF Retry
    <2> QED BY <1>2, <2>1, <2>2, <2>3, <2>4
  <1>3. CASE PollStep \/ ReportStep \/ MapRace \/ SysStep \/ (\E s \in Senders : Send(s))
               \/ Signal \/ CloseJobs \/ MainReturn
    BY <1>1, <1>3 DEF PollStep, ReportStep, MapRace, SysStep, Send, Signal, CloseJobs, MainReturn
  <1> QED BY <1>2, <1>3 DEF LocalStep

\* What an attempt does to a worker: its own waits for the retry, or is done.
LEMMA RequestWorker ==
  ASSUME Inv, NEW w \in Workers, NEW o \in Outcomes, Request(w, o)
  PROVE  /\ wpc[w] = "attempt" /\ job[w] \in Job
         /\ \/ wpc'[w] = "delay" /\ attempt'[w] = attempt[w] /\ job'[w] = job[w]
            \/ job'[w] = NoJob
         /\ \A v \in Workers \ {w} :
              wpc'[v] = wpc[v] /\ attempt'[v] = attempt[v] /\ job'[v] = job[v]
  BY RequestHasJob DEF Request, Attempt, Release, Inv, TypeOK

\* With a metric taken the sequence of its worker grows; nothing else changes.
LEMMA LocalTries ==
  ASSUME Inv, Inv', tries \in [Workers -> Seq(Try)], Local, NEW v \in Workers
  PROVE  /\ tries' \in [Workers -> Seq(Try)]
         /\ IF Takes(v)
              THEN /\ Len(tries'[v]) = Len(tries[v]) + 1
                   /\ DOMAIN tries'[v] = DOMAIN tries[v] \cup {Len(tries[v]) + 1}
                   /\ \A k \in DOMAIN tries[v] : tries'[v][k] = tries[v][k] /\ k < Len(tries'[v])
                   /\ tries'[v][Len(tries[v]) + 1] = Tally(job'[v], 0, 0)
              ELSE tries'[v] = tries[v]
  <1>1. \A u \in Workers : Takes(u) => Tally(job'[u], 0, 0) \in Try
    BY DEF Takes, Inv, TypeOK, Tally, Try
  <1>2. tries' = [u \in Workers |-> IF Takes(u) THEN Append(tries[u], Tally(job'[u], 0, 0))
                                    ELSE tries[u]]
    BY DEF Local
  <1>3. tries' \in [Workers -> Seq(Try)]
    BY <1>1, <1>2
  <1>4. CASE Takes(v)
    <2>1. tries'[v] = Append(tries[v], Tally(job'[v], 0, 0)) /\ tries[v] \in Seq(Try)
      BY <1>2, <1>4
    <2> QED BY <1>1, <1>3, <1>4, <2>1
  <1>5. CASE ~Takes(v)
    BY <1>2, <1>3, <1>5
  <1> QED BY <1>4, <1>5

\* The inductive invariant of the composition.
DInv == DTypeOK /\ AtHand

LEMMA DInvariance == DSpec => []DInv
  <1>1. DInit => DInv
    BY InitInv DEF DInit, Init, DTypeOK, Inv, DInv, AtHand
  <1>2. Inv /\ Inv' /\ DInv /\ [DNext]_dvars => DInv'
    <2> SUFFICES ASSUME Inv, Inv', DInv, [DNext]_dvars PROVE DInv'
      OBVIOUS
    <2>1. TypeOK' /\ tries \in [Workers -> Seq(Try)]
      BY DEF Inv, DInv, DTypeOK, Try
    <2>2. CASE UNCHANGED dvars
      BY <2>1, <2>2 DEF DInv, DTypeOK, AtHand, dvars, serverVars, vars, workerVars
    <2>3. CASE Local
      <3>1. tries' \in [Workers -> Seq(Try)]
        BY <2>1, <2>3, FirstWorker, LocalTries
      <3>2. DTypeOK'
        BY <2>1, <2>3, <3>1 DEF Local, DInv, DTypeOK, Try
      <3>3. ASSUME NEW v \in Workers, job'[v] # NoJob
            PROVE  Len(tries'[v]) \in DOMAIN tries'[v] /\ tries'[v][Len(tries'[v])].metric = job'[v]
        <4>1. CASE Takes(v)
          <5>1. /\ Len(tries'[v]) = Len(tries[v]) + 1
                /\ Len(tries[v]) + 1 \in DOMAIN tries'[v]
                /\ tries'[v][Len(tries[v]) + 1] = Tally(job'[v], 0, 0)
            BY <2>1, <2>3, <4>1, LocalTries
          <5>2. Tally(job'[v], 0, 0).metric = job'[v]
            BY DEF Tally
          <5> QED BY <5>1, <5>2
        <4>2. CASE ~Takes(v)
          <5>1. job[v] # NoJob /\ job'[v] = job[v]
            BY <2>3, <3>3, <4>2, LocalWorker DEF Takes, Local
          <5>2. tries'[v] = tries[v]
            BY <2>1, <2>3, <4>2, LocalTries
          <5> QED BY <5>1, <5>2 DEF DInv, AtHand
        <4> QED BY <4>1, <4>2
      <3> QED BY <3>2, <3>3 DEF DInv, AtHand
    <2>4. ASSUME NEW m \in Job, Receive(m)
          PROVE  gauge' \in [Names \ {"PollCount"} -> Nat] /\ counter' \in Nat
      <3>1. m.name \in Names /\ m.val \in Nat
        BY <2>4 DEF Job
      <3> QED BY <2>4, <3>1 DEF Receive, DInv, DTypeOK
    \* The counts of one metric change, and no worker takes one.
    <2>5. ASSUME NEW w \in Workers, NEW k \in DOMAIN tries[w], NEW h \in Nat, NEW l \in Nat,
                 Counted(tries', w, k, Tally(tries[w][k].metric, h, l)),
                 gauge' \in [Names \ {"PollCount"} -> Nat], counter' \in Nat,
                 \A v \in Workers : job'[v] \in {job[v], NoJob}
          PROVE  DInv'
      <3>1. DTypeOK'
        BY <2>1, <2>5 DEF Counted, DTypeOK, Try
      <3>2. \A v \in Workers : \A i \in DOMAIN tries[v] : tries'[v][i].metric = tries[v][i].metric
        BY <2>5 DEF Counted, Tally
      <3>3. AtHand'
        BY <2>5, <3>2 DEF Counted, DInv, AtHand
      <3> QED BY <3>1, <3>3 DEF DInv
    <2>6. ASSUME NEW w \in Workers, NEW o \in Outcomes, Request(w, o) PROVE DInv'
      <3>1. job[w] \in Job /\ \A v \in Workers : job'[v] \in {job[v], NoJob}
        BY <2>6, RequestWorker
      <3>2. Len(tries[w]) \in DOMAIN tries[w]
        BY <3>1, NoJobAssumption DEF DInv, AtHand
      <3>3. gauge' \in [Names \ {"PollCount"} -> Nat] /\ counter' \in Nat
        BY <2>4, <2>6, <3>1 DEF Request, serverVars, DInv, DTypeOK
      <3>4. CASE UNCHANGED tries
        BY <2>1, <3>1, <3>3, <3>4 DEF DInv, DTypeOK, AtHand
      <3>5. CASE ~UNCHANGED tries
        BY <2>1, <2>5, <2>6, <3>1, <3>2, <3>3, <3>5, RequestCounts
      <3> QED BY <3>4, <3>5
    <2>7. ASSUME NEW w \in Workers, NEW k \in DOMAIN tries[w], LateReceive(w, k) PROVE DInv'
      <3>1. tries[w][k].metric \in Job
        <4>1. tries[w][k] \in Try
          BY <2>1
        <4> QED BY <4>1 DEF Try
      <3>2. gauge' \in [Names \ {"PollCount"} -> Nat] /\ counter' \in Nat
        BY <2>4, <2>7, <3>1 DEF LateReceive
      <3>3. \A v \in Workers : job'[v] \in {job[v], NoJob}
        BY <2>7 DEF LateReceive, vars, workerVars
      <3> QED BY <2>1, <2>5, <2>7, <3>2, <3>3, LateCounts
    <2> QED BY <2>2, <2>3, <2>6, <2>7 DEF DNext
  <1> QED BY <1>1, <1>2, AgentInvariance, PTL DEF DSpec

\* The storage of the server and the history keep their types too (main.go:202, memstorage.go:48).
THEOREM DTypeCorrect == DSpec => []DTypeOK
  <1>1. DInv => DTypeOK
    BY DEF DInv
  <1> QED BY <1>1, DInvariance, PTL

\* What the server has handled of a metric and what may still come to it: no more than
\* the attempts that have ended.
TriesBounded ==
    \A w \in Workers : \A k \in DOMAIN tries[w] :
        tries[w][k].handled + tries[w][k].late <= Ended(w, k)

\* The counts are numbers, and so is the bound, which is largest for a metric given up.
LEMMA EndedType ==
  ASSUME Inv, DInv, NEW w \in Workers, NEW k \in DOMAIN tries[w]
  PROVE  /\ tries[w][k].handled \in Nat /\ tries[w][k].late \in Nat
         /\ Ended(w, k) \in Int /\ Ended(w, k) <= MaxRetries + 1 /\ MaxRetries \in Nat
  <1>1. tries[w][k] \in Try
    <2>1. tries \in [Workers -> Seq(Try)]
      BY DEF DInv, DTypeOK, Try
    <2> QED BY <2>1
  <1>2. attempt[w] \in 0 .. MaxRetries + 1 /\ MaxRetries \in Nat
    BY AgentAssumption DEF Inv, TypeOK
  <1> QED BY <1>1, <1>2 DEF Try, Ended

\* However many replies are lost or requests late, the server handles a metric once per
\* attempt at most (Agent.sendMetricJSON, main.go:94, DoIf, retry.go:11).
THEOREM DuplicatesAreBounded == DSpec => []DuplicatesBounded
  <1>1. DInit => TriesBounded
    BY DEF DInit, TriesBounded
  <1>2. Inv /\ Inv' /\ DInv /\ DInv' /\ TriesBounded /\ [DNext]_dvars => TriesBounded'
    <2> SUFFICES ASSUME Inv, Inv', DInv, DInv', TriesBounded, [DNext]_dvars,
                        NEW v \in Workers, NEW k \in DOMAIN tries'[v]
                 PROVE  tries'[v][k].handled + tries'[v][k].late <= Ended(v, k)'
      BY DEF TriesBounded
    <2>1. /\ tries \in [Workers -> Seq(Try)]
          /\ k \in DOMAIN tries[v] =>
               /\ tries[v][k].handled \in Nat /\ tries[v][k].late \in Nat
               /\ Ended(v, k) \in Int /\ Ended(v, k) <= MaxRetries + 1
               /\ tries[v][k].handled + tries[v][k].late <= Ended(v, k)
          /\ attempt[v] \in Nat /\ attempt[v] <= MaxRetries + 1 /\ MaxRetries \in Nat
          /\ job[v] # NoJob <=> wpc[v] \in {"attempt", "delay"}
          /\ job'[v] # NoJob <=> wpc'[v] \in {"attempt", "delay"}
      <3>1. tries \in [Workers -> Seq(Try)]
        BY DEF DInv, DTypeOK, Try
      <3>2. attempt[v] \in Nat /\ attempt[v] <= MaxRetries + 1 /\ MaxRetries \in Nat
        BY AgentAssumption DEF Inv, TypeOK
      <3>3. /\ job[v] # NoJob <=> wpc[v] \in {"attempt", "delay"}
            /\ job'[v] # NoJob <=> wpc'[v] \in {"attempt", "delay"}
        BY DEF Inv, WorkerInv
      <3>4. ASSUME k \in DOMAIN tries[v]
            PROVE  /\ tries[v][k].handled \in Nat /\ tries[v][k].late \in Nat
                   /\ Ended(v, k) \in Int /\ Ended(v, k) <= MaxRetries + 1
                   /\ tries[v][k].handled + tries[v][k].late <= Ended(v, k)
        BY <3>4, EndedType DEF TriesBounded
      <3> QED BY <3>1, <3>2, <3>3, <3>4
    \* Nothing happens to the worker and to its metrics.
    <2>2. CASE wpc'[v] = wpc[v] /\ attempt'[v] = attempt[v] /\ job'[v] = job[v]
               /\ tries'[v] = tries[v]
      BY <2>1, <2>2 DEF Ended, Over
    \* A metric that the worker is done with.
    <2>3. CASE job'[v] = NoJob /\ tries'[v] = tries[v]
      <3>1. Ended(v, k)' = MaxRetries + 1
        BY <2>3 DEF Ended, Over
      <3> QED BY <2>1, <2>3, <3>1
    <2>4. CASE Local
      <3>1. CASE Takes(v)
        <4>1. /\ Len(tries'[v]) = Len(tries[v]) + 1
              /\ DOMAIN tries'[v] = DOMAIN tries[v] \cup {Len(tries[v]) + 1}
              /\ \A i \in DOMAIN tries[v] : tries'[v][i] = tries[v][i] /\ i < Len(tries'[v])
              /\ tries'[v][Len(tries[v]) + 1] = Tally(job'[v], 0, 0)
          BY <2>1, <2>4, <3>1, LocalTries
        <4>2. CASE k \in DOMAIN tries[v]
          <5>1. Ended(v, k)' = MaxRetries + 1
            BY <4>1, <4>2 DEF Ended, Over
          <5> QED BY <2>1, <4>1, <4>2, <5>1
        <4>3. CASE k = Len(tries[v]) + 1
          <5>1. job[v] = NoJob /\ job'[v] # NoJob
            BY <3>1 DEF Takes
          <5>2. wpc'[v] = "attempt" /\ attempt'[v] = 1
            BY <2>1, <2>4, <5>1, LocalWorker DEF Local
          <5>3. k \notin Over(v)'
            BY <4>1, <4>3, <5>1 DEF Over
          <5>4. Ended(v, k)' = 0
            BY <5>2, <5>3 DEF Ended
          <5> QED BY <4>1, <4>3, <5>4 DEF Tally
        <4> QED BY <4>1, <4>2, <4>3
      <3>2. CASE ~Takes(v)
        <4>1. tries'[v] = tries[v]
          BY <2>1, <2>4, <3>2, LocalTries
        <4>2. CASE job'[v] = NoJob
          BY <2>3, <4>1, <4>2
        <4>3. CASE job'[v] # NoJob /\ job[v] # NoJob
          <5>1. \/ wpc'[v] = wpc[v] /\ attempt'[v] = attempt[v] /\ job'[v] = job[v]
                \/ /\ wpc[v] = "delay" /\ wpc'[v] = "attempt"
                   /\ attempt'[v] = attempt[v] + 1 /\ job'[v] = job[v]
            BY <2>4, <4>3, LocalWorker DEF Local
          <5>2. CASE wpc[v] = "delay" /\ wpc'[v] = "attempt"
                     /\ attempt'[v] = attempt[v] + 1 /\ job'[v] = job[v]
            BY <2>1, <4>1, <5>2 DEF Ended, Over
          <5> QED BY <2>2, <4>1, <5>1, <5>2
        <4> QED BY <3>2, <4>2, <4>3 DEF Takes
      <3> QED BY <3>1, <3>2
    <2>5. ASSUME NEW w \in Workers, NEW o \in Outcomes, Request(w, o)
          PROVE  tries'[v][k].handled + tries'[v][k].late <= Ended(v, k)'
      <3>1. /\ wpc[w] = "attempt" /\ job[w] \in Job
            /\ \/ wpc'[w] = "delay" /\ attempt'[w] = attempt[w] /\ job'[w] = job[w]
               \/ job'[w] = NoJob
            /\ w # v => wpc'[v] = wpc[v] /\ attempt'[v] = attempt[v] /\ job'[v] = job[v]
        BY <2>5, RequestWorker
      <3>2. Len(tries[w]) \in DOMAIN tries[w]
        BY <3>1, NoJobAssumption DEF DInv, AtHand
      <3>3. CASE UNCHANGED tries
        <4>1. CASE w = v /\ wpc'[w] = "delay" /\ attempt'[w] = attempt[w] /\ job'[w] = job[w]
          BY <2>1, <3>1, <3>3, <4>1 DEF Ended, Over
        <4> QED BY <2>2, <2>3, <3>1, <3>3, <4>1
      <3>4. CASE ~UNCHANGED tries
        <4> DEFINE n == Len(tries[w])
        <4>1. PICK h \in Nat, l \in Nat :
                /\ \/ h = tries[w][n].handled + 1 /\ l = tries[w][n].late
                   \/ h = tries[w][n].handled /\ l = tries[w][n].late + 1
                /\ Counted(tries', w, n, Tally(tries[w][n].metric, h, l))
          BY <2>1, <2>5, <3>2, <3>4, RequestCounts
        <4>2. /\ k \in DOMAIN tries[v] /\ Len(tries'[v]) = Len(tries[v])
              /\ DOMAIN tries'[v] = DOMAIN tries[v]
              /\ ~(v = w /\ k = n) => tries'[v][k] = tries[v][k]
              /\ v = w /\ k = n => tries'[v][k].handled = h /\ tries'[v][k].late = l
          BY <4>1 DEF Counted, Tally
        <4>3. CASE v = w /\ k = n
          <5>1. Ended(v, k) = attempt[v] - 1
            BY <3>1, <4>3, NoJobAssumption DEF Ended, Over
          <5>2. Ended(v, k)' = attempt[v] \/ Ended(v, k)' = MaxRetries + 1
            BY <3>1, <4>2, <4>3, NoJobAssumption DEF Ended, Over
          <5>3. h + l = tries[v][k].handled + tries[v][k].late + 1
            <6>1. \/ h = tries[v][k].handled + 1 /\ l = tries[v][k].late
                  \/ h = tries[v][k].handled /\ l = tries[v][k].late + 1
              BY <4>1, <4>3, Zenon
            <6>2. tries[v][k].handled \in Nat /\ tries[v][k].late \in Nat
              BY <2>1, <4>2
            <6> QED BY <6>1, <6>2
          <5>4. tries[v][k].handled + tries[v][k].late <= attempt[v] - 1
                /\ tries[v][k].handled \in Nat /\ tries[v][k].late \in Nat
            BY <2>1, <4>2, <5>1
          <5>5. h + l <= Ended(v, k)'
            BY <2>1, <5>2, <5>3, <5>4, SMTT(30)
          <5> QED BY <4>2, <4>3, <5>5, Zenon
        <4>4. CASE v = w /\ k # n
          <5>1. Ended(v, k)' = MaxRetries + 1
            BY <2>1, <4>2, <4>4 DEF Ended, Over
          <5> QED BY <2>1, <4>2, <4>4, <5>1
        <4>5. CASE v # w
          <5>1. Ended(v, k)' = Ended(v, k)
            BY <3>1, <4>2, <4>5 DEF Ended, Over
          <5> QED BY <2>1, <4>2, <4>5, <5>1
        <4> QED BY <4>3, <4>4, <4>5
      <3> QED BY <3>3, <3>4
    <2>6. ASSUME NEW w \in Workers, NEW n \in DOMAIN tries[w], LateReceive(w, n)
          PROVE  tries'[v][k].handled + tries'[v][k].late <= Ended(v, k)'
      <3>1. PICK h \in Nat, l \in Nat :
              /\ h = tries[w][n].handled + 1 /\ tries[w][n].late = l + 1
              /\ Counted(tries', w, n, Tally(tries[w][n].metric, h, l))
        BY <2>1, <2>6, LateCounts
      <3>2. /\ k \in DOMAIN tries[v] /\ Len(tries'[v]) = Len(tries[v])
            /\ DOMAIN tries'[v] = DOMAIN tries[v]
            /\ ~(v = w /\ k = n) => tries'[v][k] = tries[v][k]
            /\ v = w /\ k = n => tries'[v][k].handled = h /\ tries'[v][k].late = l
        BY <3>1 DEF Counted, Tally
      <3>3. UNCHANGED <<wpc, attempt, job>>
        BY <2>6 DEF LateReceive, vars, workerVars
      <3>4. Ended(v, k)' = Ended(v, k)
        BY <3>2, <3>3 DEF Ended, Over
      <3>5. tries'[v][k].handled + tries'[v][k].late = tries[v][k].handled + tries[v][k].late
        <4>1. CASE v = w /\ k = n
          <5>1. h = tries[v][k].handled + 1 /\ tries[v][k].late = l + 1
            BY <3>1, <4>1, Zenon
          <5>2. tries[v][k].handled \in Nat /\ tries[v][k].late \in Nat
            BY <2>1, <3>2
          <5>3. h + l = tries[v][k].handled + tries[v][k].late
            BY <5>1, <5>2
          <5> QED BY <3>2, <4>1, <5>3, Zenon
        <4>2. CASE ~(v = w /\ k = n)
          BY <3>2, <4>2, Zenon
        <4> QED BY <4>1, <4>2
      <3> QED BY <2>1, <3>2, <3>4, <3>5
    <2>7. CASE UNCHANGED dvars
      BY <2>2, <2>7 DEF dvars, vars, workerVars, serverVars
    <2> QED BY <2>4, <2>5, <2>6, <2>7 DEF DNext
  <1>3. Inv /\ DInv /\ TriesBounded => DuplicatesBounded
    <2> SUFFICES ASSUME Inv, DInv, TriesBounded, NEW w \in Workers, NEW k \in DOMAIN tries[w]
                 PROVE  tries[w][k].handled <= Ended(w, k)
      BY DEF DuplicatesBounded
    <2> QED BY EndedType DEF TriesBounded
  <1> QED BY <1>1, <1>2, <1>3, AgentInvariance, DInvariance, PTL DEF DSpec

----------------------------------------------------------------------------
(* One worker: the readings of a gauge arrive in the order they were made. *)

OneWorker == RateLimit <= 1

\* The three producers report under different names.
DistinctNames ==
    /\ Gauges \cap (MemGauges \cup CoreGauges) = {}
    /\ "RandomValue" \notin Gauges \cup MemGauges \cup CoreGauges

GaugeNames == Names \ {"PollCount"}

\* The last reading of a gauge.
Latest(n) ==
    IF n \in Gauges THEN metrics[n] ELSE IF n = "RandomValue" THEN randomValue ELSE sysTicks

Carries(m, n) == m # NoJob /\ m.name = n

\* No reading is numbered beyond the poll under way, so a later poll does not lower one.
ReadingsInv ==
    /\ \A g \in Gauges : metrics[g] <= pollCount + 1
    /\ randomValue <= pollCount + 1

\* A sender holds readings of its own gauges only: two senders never hold one name.
OriginInv ==
    /\ hand["report"] # NoJob => hand["report"].name \in Gauges \cup {"RandomValue", "PollCount"}
    /\ hand["sys"] # NoJob => hand["sys"].name \in MemGauges \cup CoreGauges

\* What the server has stored of a gauge, and what the late requests may still bring.
Stored(n) ==
    {gauge[n]} \cup {tries[1][k].metric.val : k \in {i \in DOMAIN tries[1] :
                        tries[1][i].late > 0 /\ tries[1][i].metric.name = n}}

NoNewer(S, x) == \A v \in S : v <= x

\* The values at the server or on their way to it without the worker, the one with the
\* worker, those in the channel from head to end, the one in the hand of the sender, the
\* last reading: each no newer than the next.
InSequence(n) ==
    /\ NoNewer(Stored(n), Latest(n))
    /\ Carries(job[1], n) => NoNewer(Stored(n), job[1].val) /\ job[1].val <= Latest(n)
    /\ \A i \in DOMAIN jobs : Carries(jobs[i], n) =>
         /\ NoNewer(Stored(n), jobs[i].val) /\ jobs[i].val <= Latest(n)
         /\ Carries(job[1], n) => job[1].val <= jobs[i].val
         /\ \A j \in DOMAIN jobs : i < j /\ Carries(jobs[j], n) => jobs[i].val <= jobs[j].val
    /\ \A s \in Senders : Carries(hand[s], n) =>
         /\ NoNewer(Stored(n), hand[s].val) /\ hand[s].val <= Latest(n)
         /\ Carries(job[1], n) => job[1].val <= hand[s].val
         /\ \A i \in DOMAIN jobs : Carries(jobs[i], n) => jobs[i].val <= hand[s].val

SameStored == \A n \in GaugeNames : Stored(n)' = Stored(n)

SInv == ReadingsInv /\ OriginInv /\ \A n \in GaugeNames : InSequence(n)

LEMMA OnlyWorker == OneWorker => Workers = {1}
  BY AgentAssumption DEF OneWorker, Workers

\* All the values compared are numbers.
LEMMA Numbers ==
  ASSUME Inv, DTypeOK, OneWorker, NEW n \in GaugeNames
  PROVE  /\ Stored(n) \subseteq Nat /\ gauge[n] \in Stored(n) /\ Latest(n) \in Nat
         /\ job[1] \in Job \cup {NoJob} /\ (job[1] # NoJob => job[1].val \in Nat)
         /\ \A i \in DOMAIN jobs : jobs[i] \in Job /\ jobs[i].val \in Nat
         /\ \A s \in Senders : hand[s] \in Job \cup {NoJob} /\ (hand[s] # NoJob => hand[s].val \in Nat)
  <1>1. gauge[n] \in Nat /\ Latest(n) \in Nat
    BY DEF DTypeOK, TypeOK, GaugeNames, Latest
  <1>2. job[1] \in Job \cup {NoJob}
    BY OnlyWorker DEF DTypeOK, TypeOK
  <1>3. \A i \in DOMAIN jobs : jobs[i] \in Job
    BY DEF DTypeOK, TypeOK
  <1>4. \A s \in Senders : hand[s] \in Job \cup {NoJob}
    BY DEF DTypeOK, TypeOK
  <1>5. ASSUME NEW k \in DOMAIN tries[1] PROVE tries[1][k].metric.val \in Nat
    <2>1. tries \in [Workers -> Seq(Try)]
      BY DEF DTypeOK, Try
    <2>2. tries[1][k] \in Try
      BY <2>1, FirstWorker
    <2>3. tries[1][k].metric \in Job
      BY <2>2 DEF Try
    <2> QED BY <2>3 DEF Job
  <1> QED BY <1>1, <1>2, <1>3, <1>4, <1>5 DEF Job, Stored

----------------------------------------------------------------------------
(* The steps, for one gauge. *)

\* A newer reading.
LEMMA NewReading ==
  ASSUME Inv, DTypeOK, OneWorker, NEW n \in GaugeNames, InSequence(n),
         Latest(n)' \in Nat, Latest(n) <= Latest(n)', Stored(n)' = Stored(n), UNCHANGED <<job, jobs, hand>>
  PROVE  InSequence(n)'
  <1>1. ASSUME NEW x \in Nat, x <= Latest(n) PROVE x <= Latest(n)'
    BY <1>1, Numbers
  <1>2. NoNewer(Stored(n), Latest(n)')
    BY <1>1, Numbers DEF InSequence, NoNewer
  <1>3. Carries(job[1], n) => job[1].val <= Latest(n)'
    BY <1>1, Numbers DEF InSequence, Carries
  <1>4. \A i \in DOMAIN jobs : Carries(jobs[i], n) => jobs[i].val <= Latest(n)'
    BY <1>1, Numbers DEF InSequence
  <1>5. \A s \in Senders : Carries(hand[s], n) => hand[s].val <= Latest(n)'
    BY <1>1, Numbers DEF InSequence, Carries
  <1> QED BY <1>2, <1>3, <1>4, <1>5 DEF InSequence

\* The sender takes the last reading.
LEMMA HoldReading ==
  ASSUME Inv, DTypeOK, OneWorker, NEW n \in GaugeNames, InSequence(n),
         NEW s \in Senders, NEW m \in Names, NEW v \in Nat, Hold(s, m, v), m = n => v = Latest(n),
         Latest(n)' = Latest(n), Stored(n)' = Stored(n), UNCHANGED <<job, jobs>>
  PROVE  InSequence(n)'
  <1>1. hand' = [hand EXCEPT ![s] = [name |-> m, val |-> v]]
    BY DEF Hold
  <1>2. \A t \in Senders : hand'[t] = IF t = s THEN [name |-> m, val |-> v] ELSE hand[t]
    BY <1>1 DEF DTypeOK, TypeOK
  <1>3. \A t \in Senders : Carries(hand'[t], n) => hand'[t].val = Latest(n) \/ hand'[t] = hand[t]
    BY <1>2 DEF Carries
  <1> QED BY <1>3, Numbers DEF InSequence, Carries

\* A send: what the sender held becomes the end of the channel.
LEMMA SendReading ==
  ASSUME Inv, DTypeOK, OneWorker, DistinctNames, OriginInv,
         NEW n \in GaugeNames, InSequence(n), NEW s \in Senders,
         hand[s] # NoJob, jobs' = Append(jobs, hand[s]), hand' = [hand EXCEPT ![s] = NoJob],
         Latest(n)' = Latest(n), Stored(n)' = Stored(n), UNCHANGED job
  PROVE  InSequence(n)'
  <1>1. hand[s] \in Job /\ jobs \in Seq(Job)
    BY DEF DTypeOK, TypeOK
  <1>2. /\ DOMAIN jobs' = DOMAIN jobs \cup {Len(jobs) + 1}
        /\ \A i \in DOMAIN jobs : jobs'[i] = jobs[i] /\ i < Len(jobs) + 1
        /\ jobs'[Len(jobs) + 1] = hand[s]
        /\ \A i \in DOMAIN jobs' : i \in Nat /\ i <= Len(jobs) + 1
    BY <1>1
  <1>3. \A t \in Senders : hand'[t] = IF t = s THEN NoJob ELSE hand[t]
    BY DEF DTypeOK, TypeOK
  \* The other sender holds another name.
  <1>4. \A t \in Senders : Carries(hand'[t], n) => hand'[t] = hand[t] /\ ~Carries(hand[s], n)
    BY <1>3 DEF Carries, OriginInv, DistinctNames, GaugeNames, Senders
  <1>5. \A i \in DOMAIN jobs' : \/ i \in DOMAIN jobs /\ jobs'[i] = jobs[i]
                                \/ i = Len(jobs) + 1 /\ jobs'[i] = hand[s]
    BY <1>2
  <1>6. \A i \in DOMAIN jobs' : Carries(jobs'[i], n) =>
          /\ NoNewer(Stored(n), jobs'[i].val) /\ jobs'[i].val <= Latest(n)
          /\ Carries(job[1], n) => job[1].val <= jobs'[i].val
    BY <1>5 DEF InSequence
  <1>7. ASSUME NEW i \in DOMAIN jobs', NEW j \in DOMAIN jobs', i < j,
               Carries(jobs'[i], n), Carries(jobs'[j], n)
        PROVE  jobs'[i].val <= jobs'[j].val
    <2>1. i \in DOMAIN jobs /\ jobs'[i] = jobs[i]
      BY <1>2, <1>5, <1>7
    <2>2. CASE j \in DOMAIN jobs /\ jobs'[j] = jobs[j]
      BY <1>7, <2>1, <2>2 DEF InSequence
    <2>3. CASE jobs'[j] = hand[s]
      BY <1>7, <2>1, <2>3 DEF InSequence
    <2> QED BY <1>5, <2>2, <2>3
  <1>8. \A t \in Senders : Carries(hand'[t], n) =>
          /\ NoNewer(Stored(n), hand'[t].val) /\ hand'[t].val <= Latest(n)
          /\ Carries(job[1], n) => job[1].val <= hand'[t].val
          /\ \A i \in DOMAIN jobs' : Carries(jobs'[i], n) => jobs'[i].val <= hand'[t].val
    BY <1>4, <1>5 DEF InSequence
  <1> QED BY <1>6, <1>7, <1>8 DEF InSequence

\* The free worker takes the head of the channel.
LEMMA TakeReading ==
  ASSUME Inv, DTypeOK, OneWorker, NEW n \in GaugeNames, InSequence(n), Take(1),
         Latest(n)' = Latest(n), Stored(n)' = Stored(n), UNCHANGED hand
  PROVE  InSequence(n)'
  <1>1. jobs \in Seq(Job) /\ jobs # <<>> /\ jobs' = Tail(jobs)
    BY DEF Take, DTypeOK, TypeOK
  <1>2. /\ Head(jobs) = jobs[1] /\ 1 \in DOMAIN jobs
        /\ \A i \in DOMAIN jobs' :
             i \in Nat /\ i + 1 \in DOMAIN jobs /\ jobs'[i] = jobs[i + 1] /\ 1 < i + 1
    BY <1>1
  <1>3. job'[1] = jobs[1]
    BY <1>2, OnlyWorker DEF Take, DTypeOK, TypeOK
  <1>4. Carries(job'[1], n) => NoNewer(Stored(n), job'[1].val) /\ job'[1].val <= Latest(n)
    BY <1>2, <1>3 DEF InSequence
  <1>5. \A i \in DOMAIN jobs' : Carries(jobs'[i], n) =>
          /\ NoNewer(Stored(n), jobs'[i].val) /\ jobs'[i].val <= Latest(n)
          /\ Carries(job'[1], n) => job'[1].val <= jobs'[i].val
    BY <1>2, <1>3 DEF InSequence
  <1>6. ASSUME NEW i \in DOMAIN jobs', NEW j \in DOMAIN jobs', i < j,
               Carries(jobs'[i], n), Carries(jobs'[j], n)
        PROVE  jobs'[i].val <= jobs'[j].val
    <2>1. i + 1 < j + 1
      BY <1>2, <1>6
    <2> QED BY <1>2, <1>6, <2>1 DEF InSequence
  <1>7. \A t \in Senders : Carries(hand'[t], n) =>
          /\ NoNewer(Stored(n), hand'[t].val) /\ hand'[t].val <= Latest(n)
          /\ Carries(job'[1], n) => job'[1].val <= hand'[t].val
          /\ \A i \in DOMAIN jobs' : Carries(jobs'[i], n) => jobs'[i].val <= hand'[t].val
    BY <1>2, <1>3 DEF InSequence
  <1> QED BY <1>4, <1>5, <1>6, <1>7 DEF InSequence

\* The worker keeps its metric, or has none any more; the server may have stored it, or
\* a request of it may be on its way.
LEMMA KeepReading ==
  ASSUME Inv, DTypeOK, OneWorker, NEW n \in GaugeNames, InSequence(n),
         job'[1] = job[1] \/ job'[1] = NoJob,
         \A v \in Stored(n)' : v \in Stored(n) \/ (Carries(job[1], n) /\ v = job[1].val),
         Latest(n)' = Latest(n), UNCHANGED <<jobs, hand>>
  PROVE  InSequence(n)'
  <1>1. ASSUME NEW x \in Nat, NoNewer(Stored(n), x), Carries(job[1], n) => job[1].val <= x
        PROVE  NoNewer(Stored(n)', x)
    BY <1>1 DEF NoNewer
  <1>2. Carries(job'[1], n) => job'[1] = job[1] /\ Carries(job[1], n)
    BY DEF Carries
  <1>3. Carries(job[1], n) => job[1].val \in Nat
    BY Numbers DEF Carries
  <1>4. NoNewer(Stored(n)', Latest(n))
    BY <1>1, Numbers DEF InSequence
  <1>5. Carries(job[1], n) => NoNewer(Stored(n)', job[1].val)
    BY <1>1, <1>3 DEF InSequence
  <1>6. \A i \in DOMAIN jobs : Carries(jobs[i], n) => NoNewer(Stored(n)', jobs[i].val)
    BY <1>1, Numbers DEF InSequence
  <1>7. \A s \in Senders : Carries(hand[s], n) => NoNewer(Stored(n)', hand[s].val)
    BY <1>1, Numbers DEF InSequence, Carries
  <1> QED BY <1>2, <1>4, <1>5, <1>6, <1>7 DEF InSequence

----------------------------------------------------------------------------
(* The steps, for all gauges. *)

LEMMA StaysBelow ==
  \A p, q, r, t \in Nat :
    /\ q = p \/ q = p + 1
    /\ r <= p + 1
    /\ t = r \/ t = p + 1
    => t <= q + 1
  OBVIOUS

\* The poll writes newer readings only.
LEMMA PollSequence ==
  ASSUME Inv, DTypeOK, DTypeOK', OneWorker, SInv, PollStep, SameStored
  PROVE  SInv'
  <1> USE DEF PollStep, repVars, sysVars, chanVars, workerVars, mainVars
  <1>1. /\ metrics \in [Gauges -> Nat] /\ randomValue \in Nat /\ pollCount \in Nat
        /\ metrics' \in [Gauges -> Nat] /\ randomValue' \in Nat /\ pollCount' \in Nat
    BY DEF DTypeOK, TypeOK
  <1>2. \A g \in Gauges : metrics[g] <= pollCount + 1
    BY DEF SInv, ReadingsInv
  <1>3. /\ \A g \in Gauges : metrics'[g] = metrics[g] \/ metrics'[g] = pollCount + 1
        /\ randomValue' = randomValue \/ randomValue' = pollCount + 1
        /\ pollCount' = pollCount \/ pollCount' = pollCount + 1
    BY <1>1 DEF PollTick, WriteGauge, WriteRandom, CountPoll, PollExit
  <1>4. ReadingsInv'
    <2>1. ASSUME NEW g \in Gauges PROVE metrics'[g] <= pollCount' + 1
      <3>1. metrics[g] \in Nat
        BY <1>1
      <3> QED BY <1>1, <1>2, <1>3, <3>1
    <2>2. randomValue' <= pollCount' + 1
      <3>1. randomValue <= pollCount + 1
        BY DEF SInv, ReadingsInv
      <3> QED BY <1>1, <1>3, <3>1, StaysBelow
    <2> QED BY <2>1, <2>2 DEF ReadingsInv
  <1>5. OriginInv'
    BY DEF SInv, OriginInv
  <1>6. ASSUME NEW n \in GaugeNames PROVE InSequence(n)'
    <2>1. Latest(n) <= Latest(n)' /\ Latest(n)' \in Nat
      <3>1. CASE n \in Gauges
        BY <1>1, <1>2, <1>3, <3>1 DEF Latest
      <3>2. CASE n \notin Gauges /\ n = "RandomValue"
        BY <1>1, <1>3, <3>2 DEF Latest, SInv, ReadingsInv
      <3>3. CASE n \notin Gauges /\ n # "RandomValue"
        BY <3>3 DEF Latest, DTypeOK, TypeOK
      <3> QED BY <3>1, <3>2, <3>3
    <2> QED BY <2>1, NewReading DEF SInv, SameStored
  <1> QED BY <1>4, <1>5, <1>6 DEF SInv

\* The report takes the last reading of each gauge.
LEMMA ReportSequence ==
  ASSUME Inv, DTypeOK, OneWorker, DistinctNames, SInv, ReportStep, SameStored
  PROVE  SInv'
  <1> USE DEF ReportStep, pollVars, sysVars, chanVars, workerVars, mainVars
  <1>1. ReadingsInv'
    BY DEF SInv, ReadingsInv
  <1>2. \A n \in GaugeNames : Latest(n)' = Latest(n)
    BY DEF Latest
  <1>3. CASE UNCHANGED hand
    <2>1. OriginInv'
      BY <1>3 DEF SInv, OriginInv
    <2>2. ASSUME NEW n \in GaugeNames PROVE InSequence(n)'
      <3>1. Latest(n) \in Nat
        BY Numbers
      <3> QED BY <1>2, <1>3, <3>1, NewReading DEF SInv, SameStored
    <2> QED BY <1>1, <2>1, <2>2 DEF SInv
  <1>4. ASSUME NEW m \in Gauges \cup {"RandomValue", "PollCount"}, NEW v \in Nat,
               Hold("report", m, v), m \in GaugeNames => v = Latest(m)
        PROVE  SInv'
    <2>1. OriginInv'
      BY <1>4 DEF Hold, SInv, OriginInv, DTypeOK, TypeOK, Senders
    <2>2. "report" \in Senders /\ m \in Names
      BY DEF Senders, Names
    <2>3. \A n \in GaugeNames : InSequence(n)'
      BY <1>2, <1>4, <2>2, HoldReading DEF SInv, SameStored
    <2> QED BY <1>1, <2>1, <2>3 DEF SInv
  <1>5. ASSUME NEW g \in Gauges, ReportGauge(g) PROVE SInv'
    <2>1. Hold("report", g, metrics[g]) /\ metrics[g] \in Nat
      BY <1>5 DEF ReportGauge, DTypeOK, TypeOK
    <2> QED BY <1>4, <2>1 DEF Latest
  <1>6. CASE ReportRandom
    <2>1. Hold("report", "RandomValue", randomValue) /\ randomValue \in Nat
      BY <1>6 DEF ReportRandom, DTypeOK, TypeOK
    <2> QED BY <1>4, <2>1 DEF Latest, DistinctNames
  <1>7. CASE ReportCount
    <2>1. Hold("report", "PollCount", pollCount) /\ pollCount \in Nat
      BY <1>7 DEF ReportCount, DTypeOK, TypeOK
    <2> QED BY <1>4, <2>1 DEF GaugeNames
  <1> QED BY <1>3, <1>5, <1>6, <1>7 DEF ReportTick, ReportExit

\* The system collector numbers its readings by its ticks.
LEMMA SysSequence ==
  ASSUME Inv, DTypeOK, OneWorker, DistinctNames, SInv, SysStep, SameStored
  PROVE  SInv'
  <1> USE DEF SysStep, pollVars, repVars, chanVars, workerVars, mainVars
  <1>1. ReadingsInv'
    BY DEF SInv, ReadingsInv
  <1>2. CASE UNCHANGED hand /\ (sysTicks' = sysTicks \/ sysTicks' = sysTicks + 1)
    <2>1. OriginInv'
      BY <1>2 DEF SInv, OriginInv
    <2>2. ASSUME NEW n \in GaugeNames PROVE InSequence(n)'
      <3>1. Latest(n) \in Nat /\ sysTicks \in Nat
        BY Numbers DEF DTypeOK, TypeOK
      <3>2. Latest(n) <= Latest(n)' /\ Latest(n)' \in Nat
        BY <1>2, <3>1 DEF Latest
      <3> QED BY <1>2, <3>2, NewReading DEF SInv, SameStored
    <2> QED BY <1>1, <2>1, <2>2 DEF SInv
  <1>3. ASSUME NEW m \in MemGauges \cup CoreGauges, SysPost(m) PROVE SInv'
    <2>1. Hold("sys", m, sysTicks) /\ sysTicks \in Nat /\ UNCHANGED sysTicks
      BY <1>3 DEF SysPost, DTypeOK, TypeOK
    <2>2. OriginInv'
      BY <2>1 DEF Hold, SInv, OriginInv, DTypeOK, TypeOK, Senders
    <2>3. "sys" \in Senders /\ m \in Names /\ Latest(m) = sysTicks
      BY DEF Senders, Names, Latest, DistinctNames
    <2>4. \A n \in GaugeNames : Latest(n)' = Latest(n)
      BY <2>1 DEF Latest
    <2>5. \A n \in GaugeNames : InSequence(n)'
      BY <2>1, <2>3, <2>4, HoldReading DEF SInv, SameStored
    <2> QED BY <1>1, <2>2, <2>5 DEF SInv
  <1> QED BY <1>2, <1>3 DEF SysTick, SysCores, SysExit

\* The channel passes the readings on in their order.
LEMMA SendSequence ==
  ASSUME Inv, DTypeOK, OneWorker, DistinctNames, SInv, NEW s \in Senders, Send(s),
         SameStored
  PROVE  SInv'
  <1>1. ~closed
    BY DEF Send, Inv, ShutdownInv, ProducersExited, Senders
  <1>2. /\ hand[s] # NoJob /\ jobs' = Append(jobs, hand[s])
        /\ hand' = [hand EXCEPT ![s] = NoJob]
    BY <1>1 DEF Send
  <1>3. UNCHANGED <<metrics, randomValue, pollCount, sysTicks, job>>
    BY DEF Send, pollVars, sysVars, workerVars
  <1>4. ReadingsInv' /\ \A n \in GaugeNames : Latest(n)' = Latest(n)
    BY <1>3 DEF SInv, ReadingsInv, Latest
  <1>5. OriginInv'
    BY <1>2 DEF SInv, OriginInv, DTypeOK, TypeOK, Senders
  <1>6. \A n \in GaugeNames : InSequence(n)'
    BY <1>2, <1>3, <1>4, SendReading DEF SInv, SameStored
  <1> QED BY <1>4, <1>5, <1>6 DEF SInv

\* The steps of the worker that change what it holds, with or without a request.
LEMMA WorkerSequence ==
  ASSUME Inv, DTypeOK, OneWorker, SInv, OthersUnchanged,
         \/ Take(1) /\ SameStored
         \/ /\ job'[1] = job[1] \/ job'[1] = NoJob
            /\ UNCHANGED jobs
            /\ \A n \in GaugeNames : \A v \in Stored(n)' :
                 v \in Stored(n) \/ (Carries(job[1], n) /\ v = job[1].val)
  PROVE  SInv'
  <1>1. UNCHANGED <<metrics, randomValue, pollCount, sysTicks, hand>>
    BY DEF OthersUnchanged, pollVars, sysVars
  <1>2. ReadingsInv' /\ OriginInv' /\ \A n \in GaugeNames : Latest(n)' = Latest(n)
    BY <1>1 DEF SInv, ReadingsInv, OriginInv, Latest
  <1>3. \A n \in GaugeNames : InSequence(n)'
    BY <1>1, <1>2, TakeReading, KeepReading DEF SInv, SameStored
  <1> QED BY <1>2, <1>3 DEF SInv

\* A metric taken has no late request yet.
LEMMA LocalStored ==
  ASSUME Inv, Inv', DTypeOK, Local
  PROVE  SameStored
  <1>1. tries \in [Workers -> Seq(Try)] /\ gauge' = gauge
    BY DEF DTypeOK, Try, Local
  <1>2. CASE Takes(1)
    <2>1. /\ DOMAIN tries'[1] = DOMAIN tries[1] \cup {Len(tries[1]) + 1}
          /\ \A k \in DOMAIN tries[1] : tries'[1][k] = tries[1][k]
          /\ tries'[1][Len(tries[1]) + 1] = Tally(job'[1], 0, 0)
      BY <1>1, <1>2, FirstWorker, LocalTries
    <2>2. tries'[1][Len(tries[1]) + 1].late = 0
      BY <2>1 DEF Tally
    <2>3. \A n \in GaugeNames : \A k \in DOMAIN tries'[1] :
            tries'[1][k].late > 0 => k \in DOMAIN tries[1]
      BY <2>1, <2>2
    <2> QED BY <1>1, <2>1, <2>3 DEF SameStored, Stored
  <1>3. CASE ~Takes(1)
    <2>1. tries'[1] = tries[1]
      BY <1>1, <1>3, FirstWorker, LocalTries
    <2> QED BY <1>1, <2>1 DEF SameStored, Stored
  <1> QED BY <1>2, <1>3

\* What is received of a gauge is its last value.
LEMMA ReceivedGauge ==
  ASSUME DTypeOK, NEW m \in Job, Receive(m), NEW n \in GaugeNames
  PROVE  gauge'[n] = gauge[n] \/ (m.name = n /\ gauge'[n] = m.val)
  BY DEF Receive, DTypeOK, GaugeNames, Job

\* A request brings the reading that the worker holds, now or later.
LEMMA RequestStored ==
  ASSUME Inv, DInv, OneWorker, NEW o \in Outcomes, Request(1, o), NEW n \in GaugeNames
  PROVE  /\ gauge'[n] = gauge[n] \/ (Carries(job[1], n) /\ gauge'[n] = job[1].val)
         /\ \A v \in Stored(n)' : v \in Stored(n) \/ (Carries(job[1], n) /\ v = job[1].val)
  <1>1. job[1] \in Job
    BY FirstWorker, RequestHasJob
  <1>2. tries \in [Workers -> Seq(Try)] /\ DTypeOK
    BY DEF DInv, DTypeOK, Try
  <1>3. Len(tries[1]) \in DOMAIN tries[1] /\ tries[1][Len(tries[1])].metric = job[1]
    BY <1>1, FirstWorker, NoJobAssumption DEF DInv, AtHand
  <1>4. gauge'[n] = gauge[n] \/ (Carries(job[1], n) /\ gauge'[n] = job[1].val)
    BY <1>1, <1>2, NoJobAssumption, ReceivedGauge DEF Request, serverVars, Carries
  <1>5. ASSUME NEW k \in DOMAIN tries'[1], tries'[1][k].late > 0, tries'[1][k].metric.name = n
        PROVE  tries'[1][k].metric.val \in Stored(n)
               \/ (Carries(job[1], n) /\ tries'[1][k].metric.val = job[1].val)
    <2>1. CASE UNCHANGED tries
      BY <1>5, <2>1 DEF Stored
    <2>2. CASE ~UNCHANGED tries
      <3>1. PICK h \in Nat, l \in Nat :
              Counted(tries', 1, Len(tries[1]), Tally(tries[1][Len(tries[1])].metric, h, l))
        BY <1>2, <1>3, <2>2, FirstWorker, RequestCounts
      <3>2. k \in DOMAIN tries[1]
            /\ (k # Len(tries[1]) => tries'[1][k] = tries[1][k])
            /\ (k = Len(tries[1]) => tries'[1][k].metric = job[1])
        BY <1>3, <3>1, FirstWorker DEF Counted, Tally
      <3>3. CASE k = Len(tries[1])
        BY <1>1, <1>5, <3>2, <3>3, NoJobAssumption DEF Carries
      <3>4. CASE k # Len(tries[1])
        BY <1>5, <3>2, <3>4 DEF Stored
      <3> QED BY <3>3, <3>4
    <2> QED BY <2>1, <2>2
  <1>6. gauge[n] \in Stored(n)
    BY DEF Stored
  <1> QED BY <1>4, <1>5, <1>6 DEF Stored

LEMMA RequestSequence ==
  ASSUME Inv, DInv, OneWorker, SInv, NEW o \in Outcomes, Request(1, o)
  PROVE  SInv'
  <1>1. OthersUnchanged /\ UNCHANGED jobs /\ DTypeOK
    BY DEF Request, Attempt, DInv
  <1>2. job'[1] = job[1] \/ job'[1] = NoJob
    BY FirstWorker, RequestWorker, SMTT(30)
  <1> QED BY <1>1, <1>2, RequestStored, WorkerSequence

\* A late request brings nothing that was not on its way.
LEMMA LateStored ==
  ASSUME Inv, DInv, OneWorker, NEW k \in DOMAIN tries[1], LateReceive(1, k), NEW n \in GaugeNames
  PROVE  /\ gauge'[n] = gauge[n] \/ (/\ tries[1][k].metric.name = n
                                     /\ gauge'[n] = tries[1][k].metric.val)
         /\ Stored(n)' \subseteq Stored(n)
  <1>1. tries \in [Workers -> Seq(Try)] /\ DTypeOK
    BY DEF DInv, DTypeOK, Try
  <1>2. tries[1][k].metric \in Job /\ tries[1][k].late > 0
    <2>1. tries[1][k] \in Try
      BY <1>1, FirstWorker
    <2> QED BY <2>1 DEF Try, LateReceive
  <1>3. gauge'[n] = gauge[n] \/ (tries[1][k].metric.name = n /\ gauge'[n] = tries[1][k].metric.val)
    BY <1>1, <1>2, ReceivedGauge DEF LateReceive
  <1>4. PICK h \in Nat, l \in Nat :
          /\ tries[1][k].late = l + 1
          /\ Counted(tries', 1, k, Tally(tries[1][k].metric, h, l))
    BY <1>1, FirstWorker, LateCounts
  <1>5. ASSUME NEW i \in DOMAIN tries'[1], tries'[1][i].late > 0, tries'[1][i].metric.name = n
        PROVE  tries'[1][i].metric.val \in Stored(n)
    <2>1. i \in DOMAIN tries[1] /\ tries'[1][i].metric = tries[1][i].metric
      BY <1>4, FirstWorker DEF Counted, Tally
    <2>2. tries[1][i].late > 0
      BY <1>2, <1>4, <1>5, <2>1, FirstWorker DEF Counted
    <2> QED BY <1>5, <2>1, <2>2 DEF Stored
  <1>6. gauge'[n] \in Stored(n)
    BY <1>2, <1>3 DEF Stored
  <1> QED BY <1>3, <1>5, <1>6 DEF Stored

LEMMA LateSequence ==
  ASSUME Inv, DInv, OneWorker, SInv, NEW k \in DOMAIN tries[1], LateReceive(1, k)
  PROVE  SInv'
  <1>1. DTypeOK /\ OthersUnchanged /\ UNCHANGED jobs /\ UNCHANGED job
    BY DEF LateReceive, DInv, OthersUnchanged, vars, chanVars, workerVars
  <1>2. \A n \in GaugeNames : \A v \in Stored(n)' : v \in Stored(n)
    BY LateStored
  <1> QED BY <1>1, <1>2, WorkerSequence

\* Every step keeps the sequence.
LEMMA NextSequence ==
  ASSUME Inv, Inv', DInv, DTypeOK', OneWorker, DistinctNames, SInv, [DNext]_dvars
  PROVE  SInv'
  <1> DTypeOK
    BY DEF DInv
  <1>1. CASE PollStep /\ SameStored
    BY <1>1, PollSequence
  <1>2. CASE ReportStep /\ SameStored
    BY <1>2, ReportSequence
  <1>3. CASE SysStep /\ SameStored
    BY <1>3, SysSequence
  <1>4. ASSUME NEW s \in Senders, Send(s), SameStored PROVE SInv'
    BY <1>4, SendSequence
  <1>5. ASSUME NEW w \in Workers, Take(w) \/ WorkerExit(w) \/ EncodeError(w) \/ Retry(w),
               SameStored
        PROVE  SInv'
    <2>1. w = 1 /\ SameStored /\ OthersUnchanged
      BY <1>5, OnlyWorker DEF Take, WorkerExit, EncodeError, Retry
    <2>2. CASE Take(1)
      BY <2>1, <2>2, WorkerSequence
    <2>3. CASE WorkerExit(1) \/ EncodeError(1) \/ Retry(1)
      <3>1. (job'[1] = job[1] \/ job'[1] = NoJob) /\ UNCHANGED jobs
        BY <2>3, OnlyWorker DEF WorkerExit, EncodeError, Retry, Release, DTypeOK, TypeOK
      <3>2. \A n \in GaugeNames : \A v \in Stored(n)' : v \in Stored(n)
        BY <2>1 DEF SameStored
      <3> QED BY <2>1, <3>1, <3>2, WorkerSequence
    <2> QED BY <1>5, <2>1, <2>2, <2>3
  <1>6. ASSUME NEW w \in Workers, NEW o \in Outcomes, Request(w, o) PROVE SInv'
    BY <1>6, OnlyWorker, RequestSequence
  <1>7. ASSUME NEW w \in Workers, NEW k \in DOMAIN tries[w], LateReceive(w, k) PROVE SInv'
    <2>1. w = 1
      BY OnlyWorker
    <2> QED BY <1>7, <2>1, LateSequence
  <1>8. CASE UNCHANGED <<metrics, randomValue, pollCount, sysTicks, hand, jobs, job>> /\ SameStored
    BY <1>8 DEF SInv, ReadingsInv, OriginInv, InSequence, Latest, Carries, SameStored
  <1>9. CASE (MapRace \/ Signal \/ CloseJobs \/ MainReturn) /\ SameStored
    BY <1>8, <1>9 DEF MapRace, Signal, CloseJobs, MainReturn, pollVars, sysVars, chanVars,
         workerVars
  <1>10. CASE Local
    BY <1>1, <1>2, <1>3, <1>4, <1>5, <1>9, <1>10, LocalStored DEF Local, LocalStep
  <1>11. CASE UNCHANGED dvars
    <2>1. SameStored
      BY <1>11 DEF dvars, serverVars, SameStored, Stored
    <2> QED BY <1>8, <1>11, <2>1 DEF dvars, vars, pollVars, sysVars, chanVars, workerVars
  <1> QED BY <1>6, <1>7, <1>10, <1>11 DEF DNext

LEMMA InitSequence == ASSUME DInit, OneWorker PROVE SInv
  <1>1. ReadingsInv /\ OriginInv
    BY DEF DInit, Init, ReadingsInv, OriginInv, Senders
  <1>2. ASSUME NEW n \in GaugeNames PROVE InSequence(n)
    <2>1. gauge[n] = 0 /\ Latest(n) = 0 /\ job[1] = NoJob /\ jobs = <<>>
      BY <1>2, OnlyWorker DEF DInit, Init, GaugeNames, Latest
    <2>2. \A s \in Senders : hand[s] = NoJob
      BY DEF DInit, Init
    <2>3. tries[1] = <<>>
      BY FirstWorker DEF DInit
    <2>4. NoNewer(Stored(n), 0)
      BY <2>1, <2>3 DEF Stored, NoNewer
    <2> QED BY <2>1, <2>2, <2>4 DEF InSequence, Carries
  <1> QED BY <1>1, <1>2 DEF SInv

\* With one worker, the default, what the server stores of a gauge goes back only by a
\* late request of a metric that the worker is done with: not by the order of the reports
\* in the channel, not by the retries, and not by a late request of the metric at hand.
THEOREM GaugesNeverGoBack ==
  ASSUME OneWorker, DistinctNames
  PROVE  DSpec => NeverStale
  <1>1. DInit => SInv
    BY InitSequence
  <1>2. Inv /\ Inv' /\ DInv /\ DTypeOK' /\ SInv /\ [DNext]_dvars => SInv'
    BY NextSequence
  <1>3. Inv /\ DInv /\ SInv /\ [DNext]_dvars
          => [\A n \in DOMAIN gauge : gauge'[n] < gauge[n] =>
                \E w \in Workers : \E k \in Over(w) : tries'[w][k].late < tries[w][k].late]_dvars
    <2> SUFFICES ASSUME Inv, DInv, SInv, DNext, NEW n \in DOMAIN gauge, gauge'[n] < gauge[n]
                 PROVE  \E w \in Workers : \E k \in Over(w) :
                          tries'[w][k].late < tries[w][k].late
      OBVIOUS
    <2> DTypeOK
      BY DEF DInv
    <2>1. n \in GaugeNames
      BY DEF DTypeOK, GaugeNames
    <2>2. gauge[n] \in Nat /\ gauge[n] \in Stored(n)
      BY <2>1, Numbers
    <2>3. Carries(job[1], n) => job[1].val \in Nat /\ gauge[n] <= job[1].val
      BY <2>1, <2>2, Numbers DEF SInv, InSequence, NoNewer, Carries
    <2>4. ~UNCHANGED gauge
      BY <2>2
    <2>5. ASSUME NEW o \in Outcomes, Request(1, o) PROVE FALSE
      <3>1. gauge'[n] = gauge[n] \/ (Carries(job[1], n) /\ gauge'[n] = job[1].val)
        BY <2>1, <2>5, RequestStored
      <3> QED BY <2>2, <2>3, <3>1
    <2>6. ASSUME NEW k \in DOMAIN tries[1], LateReceive(1, k)
          PROVE  k \in Over(1) /\ tries'[1][k].late < tries[1][k].late
      <3>1. gauge'[n] = gauge[n] \/ (/\ tries[1][k].metric.name = n
                                     /\ gauge'[n] = tries[1][k].metric.val)
        BY <2>1, <2>6, LateStored
      <3>2. tries[1][k].metric.name = n /\ tries[1][k].metric.val < gauge[n]
        BY <2>2, <3>1
      <3>3. tries \in [Workers -> Seq(Try)]
        BY DEF DTypeOK, Try
      <3>4. job[1] # NoJob => k # Len(tries[1])
        BY <2>2, <2>3, <3>2, FirstWorker DEF DInv, AtHand, Carries
      <3>5. tries[1] \in Seq(Try)
        BY <3>3, FirstWorker
      <3>6. k \in Over(1)
        BY <3>4, <3>5 DEF Over
      <3>7. PICK h \in Nat, l \in Nat :
              /\ tries[1][k].late = l + 1
              /\ Counted(tries', 1, k, Tally(tries[1][k].metric, h, l))
        BY <2>6, <3>3, FirstWorker, LateCounts
      <3>8. tries'[1][k].late = l
        BY <3>7, FirstWorker DEF Counted, Tally
      <3> QED BY <3>6, <3>7, <3>8
    <2>7. \E k \in DOMAIN tries[1] : LateReceive(1, k)
      BY <2>4, <2>5, OnlyWorker DEF DNext, Local
    <2> QED BY <2>6, <2>7, FirstWorker
  <1>4. DInv => DTypeOK
    BY DEF DInv
  <1> QED BY <1>1, <1>2, <1>3, <1>4, AgentInvariance, DInvariance, PTL DEF DSpec, NeverStale
=============================================================================
