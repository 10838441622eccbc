# Specifications of go-metrics-service

TLA+ modules, TLC runs and TLAPS proofs for the metrics agent (`cmd/agent`) and the
metrics server (`cmd/server`, `internal/...`). `PROJECT.json` maps every definition to the
lines it models and lists runs, mutants, findings, hazards and theorems.

## The system

An **agent** reads the Go runtime's gauges and the machine's memory and CPU, and POSTs one
metric per request to a **server**, which keeps gauges (last value) and counters (sum of
deltas) in memory, saved to a file, or in PostgreSQL.

| Component | State | Operations | Talks to | What is hard |
|---|---|---|---|---|
| Agent: producers, channel, workers (`cmd/agent/main.go`, `worker_pool.go`, `collector_sys.go`) | `agent.Metrics`, `RandomValue`, `PollCount`; channel `jobs` of 2048; context; two wait groups | poll tick, report tick, system tick; send; take, POST with retries; signal, `close(jobs)`, wait | server, by POST /update | three producers and n workers; a map without a lock; blocking sends; random `select`; retries; shutdown order |
| Retry (`internal/retry`) | none (attempt number) | `DoIf`: first attempt, one per delay, cancellable between them | agent, batcher, PostgreSQL storage | cancelled between attempts; what is retried; replayed effects |
| Memory storage (`internal/repository/memstorage.go`) | two maps, one RWMutex; a file | update gauge, counter, batch; get, get all; save, load, periodic save | handlers, `run` | atomicity of a batch, lost increments, torn snapshots, starvation; crash inside a save |
| PostgreSQL storage (`postgresstorage.go`, `internal/pgerrors`) | two tables | the same interface, with retries | handlers | lost replies, errors that are only logged, snapshot in two queries |
| Handlers (`cmd/server/main.go`, `internal/handler`) | one goroutine per request | update one (path or JSON), update a batch, read values | storage, audit | validation, order, an update applied in part, answers that do not say so |
| Middleware (`internal/middleware`, `gzip_middleware.go`, `internal/cryptohelpers`) | gzip pool, keys | decrypt, decompress, check the hash, compress the answer | agent's encoding, configuration | order of the layers, damaged requests, pooled writers |
| Audit (`internal/audit`) | file | notify the sinks one after the other | handlers | failing and slow sinks, inside the handler |
| Server life cycle (`cmd/server/main.go` `run`) | phase, storage file | start, restore, periodic save, signal, `Shutdown` with 5 s, final save | storage, handlers | crash at any step, two savers of one file, deadline against handlers |
| Batcher (`cmd/agent/batcher.go`, unused by `main`) | channel, buffer | add, flush by size, by tick and at the end | server | full channel, failing posts, growing buffer |
| Pool (`internal/pool`) | `sync.Pool` | get, put with reset | generated `Reset` | what the reset leaves behind, for the next client |
| Configuration (`flags.go` of both programs) | package variables | defaults < file < environment < flags | `main` | partial failure of a layer, zero values |
| Reset generator (`cmd/reset`) | `reset.gen.go` | choose structs, write a `Reset` for each | pool | it reads its own last output; it looks at the name of a `Reset`, not at its signature |
| Linter (`cmd/linter`) | none | report calls | - | not modelled |
| Migrations, logger, build info, pprof, swagger | - | calls of libraries, generated code | - | not modelled |

What makes each correct, in short: the agent neither loses nor duplicates a metric between
its goroutines, duplicates on the wire are bounded, and it stops; the storage is atomic;
a file holds what was last saved and a clean exit saves everything; handlers answer 200
only for what was applied; the middleware undoes the agent's encoding, whatever keys the two
programs were configured with, and answers nobody with another's answer; configuration layers
override each other in the documented order; the batcher keeps what it took, in order; a pooled
object is clean.

## The modules

| Module | Models | Correspondence |
|---|---|---|
| `Agent` | `main`, `startWorkers`, `collectSysLoop`, `sendMetricJSON` with `retry.DoIf` | one `...PC` variable per producer, `wpc` per worker, `jobs`/`closed` the channel, `hand` the value a producer is about to send. A gauge's value is the number of the poll that read it |
| `Delivery` | `Agent` and the effect of each POST on the server's storage | extends `Agent`; `Request` is `Attempt` with its effect on `gauge`, `counter`; `LateReceive` is a request that the server handles after its attempt has failed for the agent; `tries` is history: the metrics each worker has taken, how often each was handled, and how many of its requests are still on their way |
| `Batcher` | `Batcher.Add`, `Run`, `postJSONWithRetry` | `in`/`closed` the channel, `buf` the buffer, `pc` where `Run` is; `accepted`, `gone`, `handled` are history |
| `StorageData` | what a storage holds, and one item's effect | word-sized counters (`Wrap`), skipped items |
| `Storage` | abstract: what the `Storage` and `BatchUpdater` interfaces promise | call, one atomic effect, return |
| `MemStorage` | `MemStorage` step by step under Go's RWMutex | a batch item by item, `+=` as a read and a write, `GetAllMetrics` map by map; implements `Storage` |
| `FallibleStorage` | abstract: what is left of that promise over a database that fails | an update whole, perhaps not at all or once more with each retry, a batch at most once; a read shows a table of one instant, or nothing |
| `PostgresStorage` | `PostgresStorage` with `retry.DoIf` and `pgerrors.IsRetriable`, over a database | `pc` follows the methods: `exec`/`delay` a single statement, `begin`/`stmt`/`commit` a batch, `select`, `gauges`/`counters` the reads, which `QueryCut` ends when the client goes while rows are read; `db` the committed rows, `owner` the row locks, `local` what a transaction has written |
| `Handlers` | the HTTP handlers over `PostgresStorage`, with `audit.Notify`; implements `FallibleStorage` | `stage` from request to answer, `status` the class of the status code, `trail` what each sink has taken |
| `ServerLifecycle` | `run`, `SaveToFile`, `LoadFromFile`, `PeriodicStore`, the handlers' effect | the file outlives the process; `os.WriteFile` is truncate, then write; `unread` says that the file to restore was there and could not be read; `Unsaveable` are the updates whose value JSON cannot hold (NaN) |
| `Config` | `parseFlags` of both programs, with packages `flag`, `env` and Viper as they use them | operators from environment, files and arguments to the configuration, or to `Exit`; texts are opaque, tables say what they parse to; `Duration` is the `int64` product of seconds and `time.Second` |
| `Exchange` | both programs started by `Config` (a ticker may panic), the agent's encoding, the damage on the way, the chain of middleware with its gzip pool, the answer | `req` the requests with what they carry, `pool`/`target` the writers and where each writes to, `received` whose bytes reached a connection |
| `ResetPool` | `cmd/reset` run over a package that is edited, then `Pool` with the generated `Reset` | `gen` is `reset.gen.go`: what it does with each field; `Signature` the `Reset` a type has, `HasReset` what the generator sees of it; `place`, `doing`, `dirty` the objects, their clients, and what is left in them |
| `MCAgent`, `MCDelivery`, `MCMemStorage`, `MCHandlers`, `MCServerLifecycle`, `MCExchange`, `MCResetPool` | instances for TLC, and statements taken from comments and docs that the code does not keep | |
| `AgentProofs`, `BatcherProofs`, `MemStorageProofs`, `HandlersProofs`, `ServerLifecycleProofs`, `ExchangeProofs`, `ResetPoolProofs` | theorems about the module each is named after; `AgentProofs` also about `Delivery` | |
| `StorageDataProofs` | lemmas about `StorageData` and sums, for `MemStorageProofs` and `HandlersProofs` | |

**Abstractions.** In `Agent`: the order in which `collectMetrics` writes the gauges and in
which a range visits a map is any order; a report's visit of a key inserted during the
range may or may not happen (Go allows both); HTTP answers are the five classes `Outcomes`
that the agent or the server's storage can tell apart; the names of a metric and the model
value of a gauge stand for strings and floats. The write of `agent.Metrics` while the report
ranges over it is a data race: `MapRace` ends the process, and the interleavings without it
are there too.

In `Delivery` a request of an attempt that failed may be handled at any later time, or never:
the handlers that update one metric do not look at the request's context, and the agent goes on.
The server's storage is atomic, as `MemStorage` shows of the code.

In `Batcher` a metric is its number and whether JSON can hold it; a post ends with 200, an
error before, or an error after the server has handled it; a server that handles it later than
that is counted as one that did so before the error, since only how often matters there. A batch size of 0,
which the code takes as none, is allowed. `main` does not use the batcher, so
who closes the channel is external. In `ServerLifecycle`: metrics are the set of the updates applied, handlers are
arrive, apply, answer; applying waits for a save in progress, since `SaveToFile` holds the
read lock to its end. A crash is one of the process: the file is never synced, so a loss of
power may undo a save that had ended, which is not modelled. In `PostgresStorage` the database is external: READ COMMITTED, row locks
to the end of a transaction, a deadlock that aborts one of its transactions, an error for a
BIGINT out of range, and at any statement an error, before or after it took effect;
`database/sql`'s own reconnects are part of a statement. In `Handlers` a handler serves one
request, the URL and JSON forms of a request are one kind (they differ in the status they
refuse with), and an unreadable body is the empty batch.

In `Exchange` encryption and signatures are ideal (a text that was changed is detected), a
text that was changed still parses and one that was garbled does not, and what storing does is left
to `Handlers`. An answer is the connection its bytes reach; its headers, and with them
`WriteHeader` and `wroteHeaders` of the wrapped writer, are left out. In `Config`, `env.Parse` goes on
past a field whose text does not parse, as the library does; `--` ends the flags, and `-h`, an unknown
flag, ends the program; durations given with a unit are in whole seconds, and fit a
`time.Duration`, which `ParseDuration` sees to; the product with `time.Second` wraps around.

In `ResetPool` a field is a base under up to two pointers, with a `Reset` of its own that takes and
returns nothing, returns something, has parameters, or is absent, and what a generated `Reset` does with it
is one of seven effects. Fields may be blank; `badZero` are the types whose zero the generator
cannot write (`unsafe.Pointer`, an array of a named type). What a value behind an interface or an
alias is, the model does not know: such a field may keep its content (the assertion for
`Reset()` misses structs held by value, and types with none), and so may
a struct that leads to one. A `Reset` written by hand, or of another package, is trusted to leave nothing,
a slice that is cut to length 0 counts as reset, and a `Reset` that does not return (a nil
interface behind a pointer, cyclic data) never puts its object back. Goroutines of the router, TLS, timers' durations and
logging are left out everywhere.

## What the runs check

| Run | Instance | Shows |
|---|---|---|
| `agent` | 2 workers, channel of 2, 1 retry, 1 poll, 1 report, a signal at any step | `TypeOK`; `SafeShutdown` (close after the producers, no send panics, main ends with idle workers); `JobsAccounted`; `EveryJobEnds`; `StopsUnlessFull` (only a full channel can keep the agent from stopping, jobs in a channel that is not full do not) |
| `agent_hang` (violated) | 1 worker, channel of 1 | a producer blocks on the full channel after the workers have left: the agent never stops |
| `agent_leftovers` (violated) | 1 worker, channel of 2 | workers leave on the signal with metrics in the channel |
| `delivery` | 1 worker, channel of 2, 1 retry, no poll, 1 report, 2 ticks of the system collector, late requests, a signal at any step | `NeverStale` (a server's gauge goes back only when a late request is handled whose metric the one worker is done with), `DuplicatesBounded` (a metric is handled at most once per attempt, late requests included) |
| `delivery_count` (violated) | 1 worker, 2 reports | the running total is sent as a delta each time: the server's counter overtakes the polls |
| `batcher` | channel of 2, batches of 2, 1 retry, 4 calls of `Add` | `InOrder` (nothing accepted is lost, doubled or overtaken), `HandledOnce`, `GrowthBounded`, `ExitFlushes`, `EveryMetricLeaves` |
| `memstorage` | 2 clients calling any method for ever, words of two bits | `MapsExclusive`, `SnapshotOfOneInstant`, `ImplementsStorage` (refinement), `EveryCallReturns` |
| `handlers` | 2 handlers, each with any of 9 requests (two batches that lock two rows in opposite orders, updates, reads, refused ones), 1 retry, both sinks | `CountersAddUp` (no lost increment, no batch in part), `StatusTellsEffect` (a batch answered 200 or audited is stored once), `RowsReleased`, `ImplementsFallibleStorage` (refinement), `EveryRequestAnswered` |
| `lifecycle` | 2 updates, one of which cannot be encoded, 3 processes, any flags at each start | `CleanExitSaves`, `OnlyUnsavedLost` (what was saved is there after a restart, unless a save was cut short or the file could not be read), `FileIsLastSave`, `ShutdownEnds` |
| `lifecycle_exit_race` (violated) | 1 process | the periodic saver truncates the file after the final save, and the process ends |
| `exchange` | every agent and server configuration of two lists (layers given, empty, absent, wrong, too large), then 2 requests, 2 writers | `LayersOverride` (every parameter of both programs), `IntervalsPositive`; `AgentUnderstood`, `NeverMisread`, `AnswersNotMixed` |
| `reset_pool` | a parent with a field of any type and `Reset` and a blank field, a child that may lead back to it, 3 edits, then 2 clients and 2 objects | `TwoRunsSettle`, `PoolIsClean` |

**Bounds.** `MaxPolls`, `MaxReports`, `MaxSysTicks`, `MaxAdds` and `MaxEdits` cap the ticks and
calls, `MaxStarts` the processes; every other variable is bounded by the code itself. A
report is up to three jobs (gauge, `RandomValue`, `PollCount`), enough to fill a channel of 2
with a worker busy, and to leave one job in a channel that is not full: the states that
decide blocking, exit and accounting. In `delivery`
two ticks of the collector are the least in which an old value of a gauge can follow a new one,
with the report's jobs between them in the same channel, and no poll is needed for that; `delivery_count` takes two reports,
the least in which a total is sent twice. Four calls of `Add` fill a batch of 2 whose post fails and a channel of 2
behind it. Two clients are enough for a writer against a reader or a writer; the
batch of `MCMemStorage` changes both maps, has an item without a value and one of another
type, and words of two bits wrap after two increments. Two handlers are the least that can
deadlock, lose an increment or wait for a leaked lock; with both sending the second batch the
counter leaves the word of three bits (`Half = 4`), which aborts one of them. Three processes let
a save of the first be lost, or kept, by the second and seen by the third. Two requests and two
writers let a writer go from one connection to the next while the first is still being closed.
In `exchange` a `time.Duration` has 12 bits
and a second is 4 units, so that 300 seconds fit and 600 do not. Three edits mark a file, write a `Reset` by hand and take it away, with runs of the generator
between any two. The proofs remove the bounds from every safety property that holds.

**Fairness.** Goroutines that can run do. In `Agent`, `SF` on the exits stands for Go's
random choice among the ready cases of a `select`, and on `Send` for the FIFO queue of a
channel's blocked senders; that an attempt ends is an assumption, since the agent's resty
client sets no timeout. In `Batcher`, `SF` on `Tick` and `Receive` is the same random choice,
and `SF` on a post that succeeds says that the server is up again and again; without that the
buffer grows for ever. In `MemStorage`, `SF` on `Announce` stands for the starvation mode of
`sync.Mutex`. In `ServerLifecycle` nothing is assumed of handlers, clients and ticks: only
`run` and file operations go on. In `Handlers` a database that works is assumed, and
errors only where they are certain (`Doomed`): a statement that waits for a row is not
assumed to fail, so a lock that is never released, or a deadlock nobody breaks, would show.
`Exchange` and `ResetPool` state no liveness: what they do is finite. Deadlock is not checked
where the system ends (the agent, the batcher, the last process, the last request); in
`MemStorage` and `ResetPool` it is.

## What is proved

Every theorem below is about the specification of its module and holds for all values of the
constants that meet the named assumptions; where it names a property of a run, the run is its small instance.
The properties alone are seldom inductive; each module has an inductive invariant.

**`AgentProofs`**, for every number of workers, capacity, number of retries and bound, and all
sets of gauges (`AgentAssumption`, `NoJobAssumption`: the capacity is at least 1,
`NoJob` is no job): `TypeCorrect`, `ShutdownIsSafe` (`SafeShutdown`), `NoJobLost`
(`JobsAccounted`, with the cardinality of the busy workers).
`Inv` is `TypeOK`, `WorkerInv` (a worker holds a job exactly while it
attempts or waits) and `ShutdownInv` (an exited producer has nothing in its hands and nothing
to post, main's phases follow `closed` and the workers' exit). That no producer sends on the
closed channel needs that an exited producer holds nothing; that main ends with idle workers
needs the link of `job` to `wpc`. `JobsAccounted` is inductive relative to `Inv`.

About `Delivery` there: `ImplementsAgent` (the composition is an `Agent`, so all of the above
holds of it), `DTypeCorrect`, `DuplicatesAreBounded` (`DuplicatesBounded`, inductive
relative to `Inv`: only a worker with a job retries, and its count starts at zero) and
`GaugesNeverGoBack`: with one worker and three disjoint sets of names, `NeverStale`: the only step that
takes a gauge back is the late handling of a request whose metric the worker is done with. The invariant `SInv` lines up all readings of a gauge between the
agent and the server, the value at the server, the one with the worker, those in the channel
from head to end, the one in the sender's hand, the last reading: each no newer than the next.
A retry does not disturb the line, since the only worker takes nothing meanwhile; after a late
request of an older metric the server's value is older still. `DuplicatesBounded` needs that the
requests handled and those on their way together are no more than the attempts that have ended.

**`BatcherProofs`**, for any capacity, batch size (none included), number of retries and of calls
(`BatcherAssumption`): `TypeCorrect`, `NothingLostOrOvertaken` (`InOrder`), `LostReplyDoubles`
(`HandledOnce`), `GrowthIsBounded` (for a batch size of at least 1; there is no bound without one), `ExitIsFlushed`. `HandledOnce` needs that buffer and channel hold
different metrics, in the order of the calls (`Ordered`), and that nothing still in the channel
has been handled (`HandledSoFar`); `ExitFlushes` needs that the last flush begins with an
empty, closed channel (`FinalIsEmpty`).

**`MemStorageProofs`**, for any number of clients, any requests, any names and values and counters
of any width (`ClientAssumption`, `RequestAssumption`: every request is one of the
interface's calls, `DataAssumption`): `TypeCorrect` (a counter stays in its word whatever is
added to it), `NoMapRace` (`MapsExclusive`), `SnapshotIsConsistent` (`SnapshotOfOneInstant`).
`Inv` is `TypeOK`, `LockInv` (the lock's state says exactly who is inside: `writer` is the
one client past `Announce`, `readers` those past `RLock`, and there are none once the writer
has drained them), `CallInv` (who is inside is in a call of that kind, at an item of its batch)
and `CopyInv` (what `GetAllMetrics` has copied so far is still what the maps hold). The
snapshot needs all of them: its first half stays true because no writer gets past
`drain` while a reader is there.

`MemStorageImplementsStorage` is the refinement `ImplementsStorage`. `BatchInv` adds to `Inv` that
the maps in the middle of a batch are those before it with the effect of the items so far, and
that all items are in when the lock is released: there the abstract storage takes its one step.
A reader takes it when the second map is copied, where `CopyInv` makes both copies those of the
maps as they are. Every other step is a stutter.

**`HandlersProofs`**, for any finite number of handlers, any requests of the interface, any number of
retries and any sinks (`HandlerAssumption`, `RequestAssumption`, `SinkAssumption`,
`DataAssumption`): `TypeCorrect` (no counter leaves its word, no update is repeated more often than there
are retries), `RowsAreReleased`, `AnswersAreTrue` (`StatusTellsEffect`). `HInv` says of each
handler where it can be for its kind of request (`Placed`), how often it has taken effect by
then (`Counted`: an attempt at most once, a batch not before its commit) and what it has told
(`Honest`: nothing before the storage has returned). The steps inside the storage share one
lemma, `MovesHInv`: a step that keeps to `Lawful` keeps the invariant.

`NoIncrementLost` (`CountersAddUp`) and `PostgresImplementsFallibleStorage`
(`ImplementsFallibleStorage`) rest on `TxInv`, which says of each transaction that the rows it has written are
locked (`Locked`); that what it sees is the committed rows with the effect of its items so far,
which no other handler disturbs because the rows are its own, and that each counter is what was
committed plus the deltas (`Built`); and that nothing is left before it begins and after it ends
(`Fresh`). So a commit installs the effect of the whole batch on the tables of that instant, which
is the abstract effect, and adds the sum of its deltas. `CountersAddUp` needs besides that the
sum over all handlers changes by the one that took effect (`EffectAdds`).

**`StorageDataProofs`** has what those proofs need to know of folds. The induction theorems of the library take a
predicate as a parameter; `LeastNatural` replaces them: from `WFMin`, every non-empty set of
naturals has a least element, and what fails somewhere fails at a least place.
From it: a fold is the last of a chain of partial results (`FoldExists`, `FoldUnique`), a sum
takes out any element (`SumTakeOut`) and depends on the values only (`SumCongruent`), a
batch is its items one after the other (`ApplyAllItems`), and its effect on one row depends on that row
alone (`ApplyAllRow`).

**`ServerLifecycleProofs`**, for any updates, any of them unsaveable, and any number of starts:
`TypeCorrect`, `CleanExitIsSaved`, `SavedIsNotLost` (`OnlyUnsavedLost`), `FileIsWhole`
(`FileIsLastSave`), all from `LInv`. Two savers may write at once: what makes it harmless is that both hold the
memory as it is (`SaversHoldMemory`, from the read lock) so that either leaves the same
content; `SavedIsNotLost` needs that the memory of a process that has read its file holds all that was
saved (`~unread`); a clean exit needs `FinalSaveComplete`, since the property speaks only once the process is gone.

**`ExchangeProofs`**, for any number of requests and writers, any keys, key files and inputs of
the two programs (`ExchangeAssumption`; `InputAssumption`: variables, values in a file and arguments are texts;
`TableAssumption`: what the tables of `Config` say of the empty text, of numbers and of booleans; `WordAssumption`:
numbers are machine words, and the defaults fit a `time.Duration`): `TypeCorrect`,
`WritersAreNotMixed` (`AnswersNotMixed`), `KeysDecide` (`AgentUnderstood`), `ChangesAreNoticed`
(`NeverMisread`). The lemma `ChainOutcome` turns the
chain into one condition, `Accepted`, that `Judged` ties to every answer; `Owned` says that a
writer in use is out of the pool, is used once, and writes to its own connection until its stream is closed.

`LayersDecide` (`LayersOverride`, every parameter of both programs) and `TickersStart`
(`IntervalsPositive`) hold of command lines of any length. `DurationPositive` is the arithmetic:
a positive number of seconds below `Half` units is a positive duration. `ParseArgs` recurses along the command line; `ParseExists` shows, by descent from its
end (`Downward`), that the function it is defined by exists, and `FlagsAccepted` that every flag
it returns is one of the program's with a value that flag takes. An empty text in a file is where
the two programs differ: the server ignores it and falls back to the default (`Filled`), the agent takes it.

**`ResetPoolProofs`**, for any structs, fields, types of them, objects and clients
(`ResetPoolAssumption`): `TypeCorrect`, `GeneratorSettles` (`TwoRunsSettle`), `PooledIsReset`
(`PoolIsClean`). `Settled` says what one and two runs fix: after the first the set of methods,
after the second the code, which depends on that set; `IsReset` says that what is in the pool, or
about to be put back, has only the fields left that the code of `Root` leaves. Which those are
is a greatest fixed point: `Whole` are the structs whose `Reset` leaves nothing and leads
to no other, `Left` the fields that lead out of them. `PoolIsClean` names them by the types alone:
the set a field leads to (`LeadsTo`) is reset whole when nothing in it is `Hidden`
(`NothingHidden`), so a field that was left is hidden itself or leads to one that is. What does
not compile after two runs is a marked struct with a `Reset` of its own, or a field that is `Unwritable`.

**Only model-checked.** Liveness (`EveryJobEnds`, `StopsUnlessFull`, `EveryMetricLeaves`,
`EveryCallReturns`, `ShutdownEnds`, `EveryRequestAnswered`), which rests on fairness and
`ENABLED`. Every invariant, the two action properties (`NeverStale`, `IntervalsPositive`) and the
two refinements that the passing runs check are theorems.

## Where code and documents disagree

The four violated runs are listed as findings with the quoted lines. Seen while modelling,
without a run of their own:

- Agent. `main.go:107` says that 4xx is not retried; `retryIf` (`:118`) is true of every error.
  A gauge can go back to an older value: with more than one worker, and with one when a request that
  failed for the agent is handled late. `time.Duration(n)*time.Second` (`:189`) overflows for a
  large interval from any layer, and `NewTicker` panics; so does the server's
  (`cmd/server/main.go:309`). By the comment at `flags.go:82` Viper has filled in an address that is
  empty in the configuration; an empty text in the file is taken as it stands. The comment at
  `flags.go:67` goes on «с дефолтами Viper» when the file cannot be read; in fact the defaults
  and the environment are lost, and the agent starts with an empty address.
- Server. `STORE_INTERVAL=0` saves nothing, where `README.md:90` says it saves every update
  (`main.go:308`). `README.md:98` starts the server with `-r true`: a boolean flag takes no
  separate value, so `true` is a leftover
  argument, at which the server exits (`flags.go:177`). `Shutdown` that times out skips the final
  save (`main.go:382`). A crash between truncating and writing the file loses the previous save
  too (`memstorage.go:132`), for which the life cycle's properties make an explicit exception; so they do
  for a file that is there and cannot be read, at which `run` only warns (`main.go:302`): the
  server starts empty, and its next save overwrites the file. One
  gauge that is NaN, which `/update` accepts, makes every save fail from then on
  (`memstorage.go:127`), and `/value` answers it with 200 and an empty gzip stream that no
  header announces (`main.go:158`; seen in the code, in no model).
- Handlers. A batch with an item without a value is applied in part and answered 200, where the
  comment promises 400 (`updates.go:18`). Over PostgreSQL a single update that failed is
  answered 200 and audited (`postgresstorage.go:47`), a value that could not be read is 404
  (`:71`), and the index page may mix two states of the tables or miss rows (`:84`).
- Generator and pool. The marker is looked for «на той же строке» (`cmd/reset/main.go:182`), but a
  comment anywhere in the file marks all its structs. `README.md:244` says that the `Reset` of a
  nested struct is called: only from the second run on, if that `Reset` is generated too. A
  slice behind a pointer, an array of a named type, an `unsafe.Pointer`, a blank field and a field
  whose `Reset` has parameters (`:387` looks at the name) yield code that does not compile; fields
  of an alias type (`any`) are not reset, and the assertion written for an interface (`:299`)
  misses a struct held by value, since the generated `Reset` is one of the pointer (`:234`). `pool.go:43` says that a nil pointer is
  ignored; a typed nil is not.

## Not modelled

- **Linter**: one walk over a syntax tree, with no state and no steps; every property would
  restate one of its conditions.
- **Migrations, logger, build info, pprof, swagger**: calls of libraries and generated code.
- In the handlers: the item-by-item fallback of the batch handler, which no storage takes;
  `ClientIP`, the format and time stamp of an audit event and the mutex of the audit file.
- In the middleware: the headers of an answer, `WriteHeader` and `wroteHeaders` (to say what
  announces a compressed stream would restate one assignment); `Flush`, `Hijack` and `Push` of the wrapped writer, an empty body in
  `DecryptRSA`, an answer that is encoded already; the primitives of cryptography.
- In the generator and the pool: embedded fields, which promote a `Reset`; generic types; cyclic
  objects and a nil interface behind a pointer, on which a generated `Reset` would not return; what
  a foreign or handwritten `Reset` leaves; a typed nil, which `Put` does not ignore;
  the text of the generated code.
- In the agent: an attempt that never ends (`resty` has no timeout). It keeps its worker and
  `wg.Wait` for ever, and is excluded by the fairness of `Agent`.
