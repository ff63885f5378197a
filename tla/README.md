# nexgo: models, checks and proofs

TLA+ models of the Go toolkit `github.com/dailyyoga/nexgo`: the ClickHouse client
with its batch writer, schema cache and value conversion, the dead letter
recorder, the Kafka producer and consumer, the syncable cache, the cron manager,
the routine runner, the health endpoint and the HTTP metrics. Every definition is
translated from the code; `PROJECT.json` ("map") gives the lines each one stands
for. Line numbers below are those of `src/`.

    tlasany M.tla                                parse
    tlc -workers 2 -config ChWriterSafety.cfg MCChWriter    check
    tlapm ChWriter_proofs.tla                    prove; so the other *_proofs

## 1. Inventory

| component | state | operations | hard behaviour | what makes it correct |
|---|---|---|---|---|
| **ClickHouse writer** `ch/writer.go` | `closed`, `done`, `wg`, unbounded channel (`chanx`), the loop's `buffer`, `totalRows`, `firstDataTime`, tickers | `Start`, `Write`, `Close`, `processLoop`, `flush`, `drainChannel`, `schemaRefreshLoop` | writers race with Close and with each other; select picks at random; retries; shutdown with data in three places | each accepted row is settled once and in order per table, failed rows reach the fallback, Close is the last act |
| **Schema cache** `ch/writer.go` | `tableColumns` under `columnsMu` | `getTableColumns`, `RefreshTableSchema`, `refreshAllTableSchemas`, `batchInsert` with one refresh | fetches without lock, stores without comparing, DDL at any time | the cache follows the schema; an insert ends |
| **Value conversion** `ch/converter.go` | one `TableColumn` per column | `parseColumnType`, `getColumnValue`, the converters | classification by substring, nesting, NULL against zero, widths | the driver gets NULL or the Go type it expects, values keep their meaning |
| **ClickHouse client** `ch/client.go` | `closed` under an RWMutex, lazily made writer | `Writer`, `Query`, `QueryRow`, `Exec`, `Ping`, `Close` | Close holds the lock through the writer's last flush; the lazy writer is made outside the lock | no call or flush on a closed connection, no writer left open, no deadlock with the callback |
| **DLQ recorder** `dlq/recorder.go` | buffered channel, `closed`, `done`, counters | `Record`, `loop`, `produce`, `Close` | Record races with Close; full buffer; drain on shutdown | every record is in one place or counted; the producer is closed last |
| **Kafka producer** `kafka/producer.go` | `done`, `wg`, librdkafka's queue and Events | `Produce`, `handleDeliveryReports`, `Close` | asynchronous reports, callbacks on their own goroutines, broker loss | hook and callback agree on each failure; no hook call follows Close |
| **Kafka consumer** `kafka/consume.go`, `consumer.go` | per instance: position, committed offset | `Start`, `consumeLoop`, `handlerMessage`, `Close` | retries, failing commits, crash and redelivery, cancel | a commit follows processing; nothing is skipped silently |
| **Syncable cache** `cache/syncable_cache.go` | `cache` under an RWMutex, `ctx`, `cancel`, `once` | `Start`, `Stop`, `Get`, `Sync` | overlapping syncs, Stop and Start in any order, retries | data is there once Start succeeded, follows the source, goroutines end |
| **Cron** `cron/` | robfig scheduler, one `SharedData` per run | `AddTasks`, `AddChain`, `Start`, `Close`, `chainJob.Run`, middlewares | runs of one chain overlap, panics in any layer, Close against runs, Start and Close | a failed task aborts its chain and nothing else; runs share nothing; Close waits |
| **Routine** `routine/` | `wg` | `Go…`, `Wait` | panics, Add racing Wait | Wait waits for all, a panic does not escape |
| **Health** `health/` | results by index | `Run`, `Handler` | deadlines, panics, a checker that hangs | the verdict is the conjunction of the results |
| **Metrics** `metrics/` | Prometheus registry, in-flight gauge | `RegisterOrExisting`, `RED` | repeated registration, panicking handlers | one collector per name, the gauge is exact |
| logger, db, redis, no-op recorder, adapters, configurations | none, or a library's | construction, delegation | none | not modelled (section 6) |

How they interact. A `Client` makes one `Writer` over the connection it shares
with queries; the writer's loop calls the schema cache and the conversion for
each batch, `MetricsHook.OnFlush` for each table and `OnPermanentFailure` for the
rows it gives up. An application hands those to the DLQ recorder, which owns a
Kafka producer, and closes the client before the recorder. Consumer, producer and
recorder report to metrics hooks. The background goroutines of producer callbacks
and of the cache run under `routine`'s recovery. An HTTP service mounts the RED
middleware around its handlers, the health endpoint among them, and waits for
the work its handlers started with a `Runner`.

## 2. Modules

| module | models | state and actions |
|---|---|---|
| `UnboundedChan` | the `chanx` channel between `Write` and the loop (external; modelled from the use in `writer.go`) | `In`, the pump's buffer, `Out`, closed flags; receive, pass directly, send, close |
| `ChWriter` (EXTENDS `UnboundedChan`) | the writer | one action per select case and per step of `Write`, `Close`, `flush`: `WriteSend` is one iteration of the send loop, `InsertAttempt` one `batchInsert` with an outcome the environment picks, `Report`, `CallFallback`, `FlushReturn` the rest of `flush` |
| `RowDelivery` | what the writer promises, abstractly: per-table FIFO queues; rows enter while open and leave in order, by batches, reported | `waiting`, `ahead` (the rows of its table before each waiting row: the queues), `settled`, `open`; `Accept`, `Settle`, `Shut` |
| `ChSchema` | `tableColumns` with its lock, callers of `RefreshTableSchema`, the refresh loop, `batchInsert`, DDL | columns are the schema version they describe; `Truncated` is a list cut short by a broken row stream |
| `ChConverter` | `parseColumnType`, defaults, every converter, `getColumnValue` | `Describe` makes a `TableColumn`, `AppendRow` converts a value; the rest are operators, and recursive functions over the column types (`Words`, `Unwrapped`, `ScanType`, `ConvertElem`) where the code recurses. `Types` and `Values` contain their own parts, `Depth` says how deep a type nests; `Panic` is the outcome that ends the program |
| `DlqRecorder` | the recorder | one action per select case of `Record` and `loop`, `produce`, the four steps of `Close` |
| `KafkaProducer` | producer, report handler, callbacks, `Close` | Events is a queue the library fills; `NotifyDeliveryFailure` starts the callback, `NotifyDelivery` calls the hook, `RunCallback` is the goroutine of `routine.Go`; `up` is whether the process lives |
| `KafkaConsumer` | the instances, each with a partition | poll, one action per handler call, commit, close, cancel, crash; `origin` is where the reset policy last started the group |
| `SyncableCache` | Start calls with their goroutines, `Sync` calls, `Stop` | a fetch is one step with three outcomes, the store another; `since` is a history variable, what the cache held when a running sync began |
| `ChClient` (EXTENDS `ChWriter`) | the client: its RWMutex, the lazy writer, `Query`, `Close` | `Announced` is the pending or held write lock; `WriterCall`, `OnceStore`, `OnceReturn` are `Writer()` with its `sync.Once`; `ClientCloseWriter` runs the steps of the writer's own `Close`; `RowsClose` ends the reading of what `Query` returned |
| `DlqPipeline` (EXTENDS `ChClient`, INSTANCE `DlqRecorder`) | an application that records failed rows from `OnPermanentFailure` and shuts down in the documented order | `CallbackRecord` are the recorder's own `Record` steps taken on the writer's loop, `CallbackReturn` lets `flush` go on, `CloseRecorder` follows `Client.Close` |
| `Cron` | manager, chains, middlewares, runs, `Close` | a run is a number; `Fire` is the scheduler's goroutine, `TaskReturns` and `TaskPanics` one task with its layers, `CloseStop` and `CloseJobsOver` the two halves of `Close` |
| `Health`, `RedMetrics`, `Runner` (over `Http`) | the endpoint, the middleware, the WaitGroup | operators on the variables of one component each |
| `Serving` (EXTENDS the three) | one HTTP service made of them | a request goes through middleware, handler or checks, counting, the deferred `Dec`; the composition adds `path` and a program counter per request |

`MC…` modules hold the instances' values, `…_proofs` the theorems.
Operators that are not used by any action (`FullLate`, `LayersReversed`, …) are
mistakes a programmer could make in the definition after them; replacing that
definition by them breaks the property "mutants" names.

What the models leave out: payloads, logging, metrics other than the hooks' calls,
durations (a ticker fires, a backoff ends, a deadline passes: only order matters), and in
`ChConverter` the digits of texts (a text is what the parsers make of it)
and the precision of floats. 64 bits are 4 and 8 bits 3 there: only the
comparison with the largest value and the wrapping matter, and both occur. The 16
bytes of a UUID are `UuidSize` = 2: a slice is empty, too short or long enough. What Go
makes of a float that no int64 holds depends on the platform: a value of form `huge`
carries the result, one end of the range or the other; form `inf` stands for the infinities and
NaN, which `decimal.NewFromFloat` panics on.

## 3. Runs

One run per component or composition asks whether its properties hold; two show a
bug against a promise of the documentation.

| run | instance | shows |
|---|---|---|
| `writer_safety` | 2 writers with calls of two rows over two tables, one of them led by a nil row, 1 closer, channel and flush size 2, `MinFlushSize` 1, `MaxWaitTime` and the refresh loop on, 1 retry; 2.5 M states | batching, settlement, fallback and shutdown; the refinement of `RowDelivery` |
| `shutdown` | 1 user of the writer with one call, 1 querier that may read its rows late, 1 closer that closes client and recorder; 2 rows of 2 tables, batch 2 with `MinFlushSize` 2 and `MaxWaitTime`, refresh loop, recorder buffer 1; 157 k states | failed rows end in Kafka or a counter, the connection outlives the calls and flushes that use it, nobody waits in a circle, shutdown completes, rows settle |
| `dlq` | 2 callers, 2 closers, 4 payloads, buffer 2; 103 k states | accounting, order of shutdown, drain, Close returns |
| `producer` | 3 messages, 2 closers, callback on; 87 k states | hook and callback agree, quiet after Close, failures called back, Close returns |
| `consumer` | 1 instance, 2 messages, 2 attempts, 1 crash, automatic commits or not, reset to the earliest or the latest offset; 85 k states | commit after processing, no silent skip from the starting offset on, order, every message finishes |
| `cache` | 2 Start calls, 1 Sync, 2 attempts, 2 versions; 113 k states | no sync stores older data than it found, convergence, cancelled goroutines end |
| `schema` | 1 table, 2 refreshing callers, 2 versions; 27 k states | inserts end, the cache catches up |
| `converter` | 42 column types, 9 defaults, 90 values; 32 k states | types sent, NULLs, integers, element places |
| `cron` | chains of 2, 1 and 0 tasks and one with a bad spec, a custom middleware that may panic, 2 closers, 2 runs; 47 k states | order of tasks, survival of panics, privacy of `SharedData`, Close waits and returns |
| `serving` | 2 requests, 2 middlewares of one registry, 2 checkers of one name (one honours its context), 2 jobs, 1 `Wait` | verdicts, deadlines, gauge, Wait |
| `producer_panic` | 1 message, 1 closer | **bug**: after `ErrAllBrokersDown` the owner's `Close` closes `done` twice |
| `consumer_no_retries` | `MaxRetries` 0 | **bug**: the handler is never called and the message is committed |

Why these bounds. Each protocol has at most one interaction per pair of actors:
two writers and a closer give each race of a write with a write and with a close, two
closers of the recorder and of the producer that of a close with a close; two rows of one table and one of another give order within and
independence between tables; a channel of 2 is full, empty and half full; one
retry has a first, a last and an exhausted attempt. A third crash, version or
retry repeats a transition that already occurs. The counters that grow
(`accepted`, offsets, versions, `crashes`) are bounded by the rows, `LogEnd`,
`MaxVersion`, `Crashes` and `MaxRuns`. Two runs of a chain overlap, precede and
follow each other; the two requests of `serving` meet in the gauge, in the checks
and in the Runner. In `shutdown` one batch of two rows under two tables makes the
callback run twice in a flush, and a recorder buffer of one is full for the second
row; a call cancelled between its rows leaves a lone one. It has one closer: with two
callers of `Client.Close`, or two Write calls, the liveness check takes too long, and
the theorems about its safety properties hold for any number of both. The writer's own
`Close` is called by `Client.Close` only: a second `writer.Close` by the application
would return at once (writer.go:129), and so would a second one in `writer_safety`.
Deadlock is not checked where a run
ends by design: all rows written and everyone returned, or a conversion that panics,
which ends the program.

Properties worth a comment:

- `ImplementsRowDelivery` relates the loop's map, the channel and the hook's
  reports: a row that overtook another, came twice or left unreported would not
  be a step of `RowDelivery`. The refinement mapping reads the line of a table as
  what the map holds unsettled for it, followed by the whole channel; what a row
  has ahead of it are the rows of its table that stand before it in that line.
- `StoredAgrees` counts copies in ClickHouse: those of inserts that succeeded agree
  exactly with the reports, those of inserts that were persisted but answered with a
  retryable error (code 319) are bounded by the attempts. The instance has outcomes
  `ok` and `unknown`: a plain retryable error is an `unknown` one that left nothing,
  and `permanent` occurs in `shutdown`.
- `FailedRowsHanded` is the comment of `safeOnPermanentFailure`: it is a fact about
  the moment Close returns, so it involves the wait for both loops.
- `CommittedWasHandled` is about explicit commits; with automatic commits a crash
  loses a polled message, and `EveryMessageFinishes` exempts exactly that.
- A group that has committed nothing starts where `auto.offset.reset` says, after a
  crash too (`StartOffset`). With "latest", the default, that passes over what was read
  or waiting: `SkipsAreReported` speaks of the messages from the last such start
  (`origin`) on, `EveryMessageFinishes` exempts those before it, and
  `RestartSkipsNothing`, below, is not kept.
- `CallbackAgrees` relates two calls in either order: `notifyDeliveryFailure` starts the
  callback goroutine before the hook is called (producer.go:104-105), and it may run
  before, after, or when the loop is at another event, whose message the mutant takes.
- In `KafkaProducer` a panic on the report handler's goroutine ends the process
  (`up`): nothing recovers there. One in `Close` is the caller's, who may recover.
  `CloseReturns` says nothing of a process that has died, nor do the liveness
  properties of the recorder and of the pipeline, whose models have a process that
  runs; a panic of the Kafka producer's `Close` inside the recorder's is modelled
  (`CloseProducer`).
- `DrainsBuffered` is the part of "drains what is already buffered" that is kept: what
  was buffered before `Close` signals is not left behind. Its mutant goes without the
  drain. Where a model says produced, `Produce` accepted the payload: whether Kafka
  stores it is the delivery report's to say.
- `Converges` allows overlapping syncs to overwrite newer data with older: the
  periodic goroutine repairs it. `NeverBackBeforeStart` bounds the damage: only data
  of the time the syncs overlap can come back, however many retries and however much
  backoff lie between the start of a sync and its store. In particular a sync that
  nothing overlaps never goes back. Its mutant keeps the data of an earlier fetch.
- `FailedRowsRecorded` needs the callback to be synchronous, `Client.Close` to wait
  for the writer's last flush, the recorder to be closed after it, and its drain;
  its mutant, a callback that hands the rows to a goroutine, loses them.
- `ShutdownCompletes` is about locks: `Client.Close` holds the write lock while the
  writer's loop may be inside the callback. `CloseNotDeadlocked` is its safe part: while
  `Close` waits, the loop it waits for has a ready case or the callback a call it can
  make, and so on down to the recorder's loop. The mutant of both lets the callback
  query through the client, and everyone waits for everyone.
- `ConnOutlivesCalls` is stated for an orderly shutdown (`Orderly`) where flushes are
  concerned: a `Writer()` call that passed its check before `Close` is outside
  (`InsertsReachClickHouse`, below). It covers the calls the lock covers. The rows that
  `Query` and `QueryRow` hand out are read after the lock is released (`RowsClose`), and
  the connection may be closed under them: `RowsReadable`, below.
- `CloseReturns` of `Cron` ends the process, and with it Close, if a panic is not
  recovered: its mutant wraps the middlewares in the wrong order.
- `HealthAnswers` exempts exactly the checker that has no deadline or ignores it.
- `GaugeAgrees` speaks of the registered gauge: a second `RED` that kept a gauge of its
  own, or a `Dec` that a panic skips, breaks it for ever.
- `SentFits` compares with the table of `ch/README.md:220-231`, not with the
  converters' own switch. A conversion may also panic, where the column has a Decimal (an
  infinite float), a UUID or a Point (a slice too short) in it: `Outcomes` admits that
  there and nowhere else; `ArraysFallBack`, below, is not kept.
- `VerdictSound` and `WaitWaits` do not reach everything next to them: the results of a
  request are its own by the indexing of the model, and `JobEnds` is recovery and `Done`
  in one step, as the deferred calls of `GoNamed` are.

### Promises that are stated but not kept

Definitions at the end of the modules; TLC refutes each on the instance named.

| property | why |
|---|---|
| `ChWriter!ExitsWithNothingBuffered` ("drain channel and flush remaining data", `ch/README.md:277`) | Close closes `done` and `In` back to back; the select may take the closed `Out` (`writer.go:158`) and return without a flush; instance `ChWriterSafety.cfg` |
| `ChWriter!DrainsWholeChannel` ("process all remaining requests in channel", `writer.go:247`) | the drain stops when `Out` is empty for a moment while `In` or the pump holds rows; same instance |
| `ChWriter!WriteNeverPanics` ("ErrWriterClosed when writer is closed", `ch/errors.go:11`) | a Write past the closed check sends on the closed `In`; same instance |
| `ChWriter!FailedMeansNotStored` ("every one of the rows failed", `ch/metrics_hook.go:20`) | code 319 is reported as an error though the batch may be stored; same instance |
| `DlqRecorder!NothingStranded` ("drains what is already buffered", `dlq/dlq.go:47`) | a `Record` past its first check may enqueue (`recorder.go:88`) after the loop has gone; instance `DlqRecorder.cfg`. In the documented order of shutdown it cannot: `FailedRowsRecorded` |
| `ChClient!NoWriterLeftOpen`, `ChClient!InsertsReachClickHouse` ("closes the client and all associated resources", `client.go:169`) | `Writer()` gives the lock back before it makes the writer (`client.go:89-97`): a `Close` in between finds none, closes the connection, and the writer lives on without one; instance `DlqPipeline.cfg`. The field is read by `Close` while the Once stores it, a data race: `torn` is the half stored interface |
| `ChClient!RowsReadable` | the read lock is given back when `Query` returns (`client.go:106`); `Close` closes the connection the rows are read from; instance `DlqPipeline.cfg` |
| `DlqPipeline!NoFailedRowLost` | the same writer then records its failed rows with a closed recorder |
| `Serving!FailureIsNamed` ("error: <reason>", `health.go:121`) | of two checkers with one name the later overwrites the earlier in the map: a 503 may name no failed dependency; instance `Serving.cfg` |
| `Serving!EveryRequestCounted` ("Total number of HTTP requests", `metrics/middleware.go:49`) | a request whose handler panics skips the counter and the histograms: only `Dec` is deferred; same instance |
| `KafkaProducer!NoFailureLost` ("invoked when a produced message fails delivery", `kafka/config.go:194`) | reports of the flush in Close are never read |
| `KafkaConsumer!CommittedAllHandled` ("only committed after successful processing", `kafka/README.md:501`) | the success of the next message commits past a failed one |
| `KafkaConsumer!RestartSkipsNothing` (`kafka/config.go:26-30`, the default of line 72) | a crash before the first commit restarts at the end of the partition; instance `KafkaConsumer.cfg` |
| `KafkaConsumer!CancelStops` (`docs/architecture/kafka.md:19`) | `Poll(-1)` does not watch the context |
| `SyncableCache!StopEnds` (`cache/cache.go:35`) | a Stop before Start uses up the `sync.Once` |
| `ChSchema!RefreshTakesEffect` (`docs/important-notes.md:15`) | a refresh that fetched before the DDL stores later |
| `ChConverter!TypedNilStaysNull` (`ch/README.md:260`, nil for NULL) | a nil `*string` in a Nullable column is stored as "" |
| `ChConverter!NumbersReachFloats` (`ch/README.md:220`) | `FloatConverter` has no case for int16, uint32, …: they become 0.0 |
| `ChConverter!EnumFirstSent` (`ch/README.md:261`) | a member whose text contains INT or STRING changes the class of the column |
| `ChConverter!DefaultFits` (comment of `getZeroValue`) | the default expression of an Array column is sent as text |
| `ChConverter!ArraysFallBack` ("falling back to the type's zero value", `ch/converter.go:1252-1253`) | a `[]byte` shorter than 16 in an `Array(UUID)` is convertible by its type, so `reflect` panics on it (`converter.go:1268`), on the writer's goroutine; `decimal.NewFromFloat` does so for an infinite float (line 686), but no comment speaks of that |
| `ChConverter!KeysStayApart` | keys that do not parse all become the zero key |

Also seen while modelling: the `INSERT` has no column list, so columns of equal type
that are reordered are filled by position until the cache catches up;
`dlq/README.md` says marshal errors are not counted, the code counts them;
the consumer's retries have no backoff although the documentation describes one;
after Close without cancel a consumer loop polls a closed consumer.

## 4. Fairness

Every fairness condition is on a step the Go scheduler or the environment owes:

- weak fairness on the steps of a goroutine that is running: it is scheduled;
- strong fairness on a case of a select that is ready again and again
  (`LoopDone`, `HandlerDone`, `ctx.Done`): select picks at random, so it is taken
  in the end with probability 1; and on taking a lock others keep taking and
  releasing (`Insert`): Go's mutexes do not starve a waiter;
- a waiting `Lock` of the client's RWMutex is served once the readers inside have
  left: Go keeps new readers out meanwhile, so weak fairness is enough;
- in `DlqPipeline` an application that has closed its client goes on to close the
  recorder; in `Cron` tasks return; in `Serving` handlers return and deadlines
  pass, but no dependency owes a checker an answer;
- a caller of `Query` owes no reading of its rows: `RowsClose` has no fairness;
- tickers tick, calls of ClickHouse, Kafka and handlers return, librdkafka reports
  every message within `message.timeout.ms`;
- a source, or a DESCRIBE, that is asked for ever answers in full in the end
  (`FetchOk`, `RefreshFetch` of the ticker). Only `Converges` and `CacheCatchesUp`
  need it.

Nobody owes a call of `Write`, `Record`, `Produce`, `Sync`, `Stop` or `Close`, a
message, a crash, a broker failure, a DDL, a request, or the next run of a chain.

## 5. Proofs

`ChWriter_proofs` proves for any sets of writers, closers, rows, tables and Write
calls and every configuration `Validate` accepts (`RowsAssumption`,
`ConfigAssumption`: positive `FlushSize` and `MaxRetries`, `MinFlushSize` at most
`FlushSize`, channel capacity `FlushSize`, as `newWriterWithConn` creates it):

| theorem | property | argument |
|---|---|---|
| `TypeCorrect` | `TypeOK` | `Types`: `TypeOK` by groups of variables, and `TableChosen` (a flush past its pick works on a table of the map), without which `buffer[table]` has no type |
| `QuietAfterCloseHolds` | `QuietAfterClose` | `CloseInv`: a closer past `close(In)` means `In` is closed; a writer never started holds no row; so after Close the loop is over or has nothing to receive and nothing to flush. The invariant is needed because Close does not wait for a loop that was never started |
| `FailedRowsHandedHolds` | `FailedRowsHanded` | `HandedInv`: an error report has been handed over or is the last one with the fallback call next; `CloseInv` excludes the latter once Close has returned |
| `BatchAccountingHolds` | `BatchAccounting` | inductive once a loop that is off is known to hold no row (`BatchInv`) |
| `ReportedOnceHolds` | `ReportedOnce` | `OnceInv`: a row is pending in at most one Write call and not accepted before (`CallsOnce`), and an accepted row is at most once in the channel, or at one place of what the map holds unsettled for its own table, or in one report (`PlacedOnce`). `FlushInv` ties `table` to `todo` during a flush. The proof moves a row along that path, one lemma per move: send, pump, receive, report |
| `StoredAgreesHolds` | `StoredAgrees` | `StoredInv`: of a row that is neither reported nor being inserted ClickHouse holds nothing, of one being inserted what the attempts so far can have left, and each report fixes the number of sure copies; `ReportedOnce` turns that into the count of the property |
| `RowDeliveryImplemented` | `ImplementsRowDelivery` | `DeliveryStep`: under `Types`, `FlushInv` and `OnceInv` a send is `Accept`, a report `Settle`, `CloseIn` is `Shut` and every other step a stutter. Lemmas about `Before` (what stands before a row in a sequence) under append, tail and concatenation carry the order through the pump |

The same module goes on with `ChClient` and `DlqPipeline`, for any set of queriers and
any buffer of the recorder as well. `AppAssumption` says what kind of application
`DlqPipeline` is: its shutdown calls `Client.Close`, it sets `OnPermanentFailure`, and
the recorder it uses has a positive buffer.

| theorem | property | argument |
|---|---|---|
| `PipelineRunsWriter`, `PipelineRunsRecorder` | | every step of the composition is a step of `ChWriter` and one of `DlqRecorder` (with one caller of `Record`, one of `Close`), or a stutter of it: the theorems about the parts hold of them in the composition (`RecorderFactsHold`) |
| `ClientTypeCorrect` | `ClientTypeOK` | the writer's types by `PipelineRunsWriter`, the client's inductively |
| `ConnOutlivesCallsHolds` | `ConnOutlivesCalls` | `LockInv`: one `Client.Close` at a time is past its announcement, no reader is inside while it holds the lock, and only there does it run the writer's `Close`; a closed connection means that call has returned, so by the writer's `CloseInv` no flush runs (`ClosedInOrder`) |
| `FailedRowsRecordedHolds` | `FailedRowsRecorded` | `RecordInv`: outside the callback the rows recorded are exactly those that failed, and the recorder's `done` comes after the connection is closed; `DrainedInv`: so in an orderly shutdown no `Record` is refused and none enqueues after the drain. The sum is `RecordsAccounted` of the recorder with nothing held, buffered or refused |
| `CloseNotDeadlockedHolds` | `CloseNotDeadlocked` | `DoneInv`: a closer past `close(done)` means `done` is set, so both loops have a ready case. `RowsLeft`: a callback that is not over has a next row, for the places of the rows not called yet have a least one. The recorder's part is its own `CloseInv` |

`DlqRecorder_proofs` proves for every set of callers, closers and payloads and
every buffer size, from the one assumption of `DlqRecorder` (the buffer size is a
positive number and `NoPayload` is no payload, with finitely many callers):

| theorem | property | argument |
|---|---|---|
| `TypeCorrect` | `TypeOK` | inductive as it stands; the capacity needs `Room` at the send |
| `ProducerClosedLast` | `ProducerOutlivesLoop` | strengthened by `CloseInv`: at most one closer passes the CompareAndSwap, `done` and the loop's exit follow its program counter |
| `RecordsAccounted` | `Accounting` | each action moves one unit between the terms of the sum; the cardinality of the callers inside Record changes by one (`LeaveRecord`) or not (`SameRecording`) |
| `DrainsBufferedHolds` | `DrainsBuffered` | `OnceInv`: produced, held, buffered and in-hand payloads are one repetition-free path, and a payload in a call is not on it. `InTime`: a payload buffered before `done` stays on the path ahead of the loop's exit, for a loop leaves the drain with an empty buffer only, and no `Record` call brings it back |

The other modules, each for every value of the constants under the ASSUMEs of the
module it is about:

| theorems | property | argument |
|---|---|---|
| `KafkaProducer_proofs!TypeCorrect` | `TypeOK` | `HookInv`: between the callback's start and the hook the event in hand is a failed report |
| `…!CallbackAgreesHolds` | `CallbackAgrees` | `OnceInv`: messages move from the library to Events, to the handler, to the hook on one repetition-free path, so a report that starts a callback is about a message with none; then each step moves a message between the failures pending and seen, or between the callbacks waiting and done |
| `…!QuietAfterCloseHolds` | `QuietAfterClose` | a closer past `wg.Wait` means the handler has ended, and it does not start again |
| `KafkaConsumer_proofs!TypeCorrect`, `CommittedWasHandledHolds`, `SkipsAreReportedHolds` | `TypeOK`, `CommittedWasHandled`, `SkipsAreReported` | what the loop is about to commit was handled (it passed at least one attempt: `MaxRetries > 0` is assumed, see `consumer_no_retries`), and what lies between the starting offset (`origin`) and a commit has an outcome; a crash moves `origin` only while nothing is committed |
| `…!CallsInOrderHolds` | `CallsInOrder` | `CallsInv`: where the last call and the attempts of the current message leave the next one, and the calls of a message counted against the deliveries used up; only a crash jumps |
| `Cron_proofs!TypeCorrect`, `RunsFollowChainHolds` | `TypeOK`, `RunsFollowChain` | recovery is the first layer, so every panic has one around it (`LayersRecover`); the rest is inductive |
| `…!SharedDataIsPrivateHolds` | `SharedDataIsPrivate` | a run that has not begun has an empty `SharedData`, and a task writes only its run's |
| `…!CloseWaitsHolds` | `CloseWaits` | the runs found by a waiting Close are active or over, for only `Fire` adds one and no run begins again; at the wait's end none is active |
| `Serving_proofs!GaugeAgreesHolds` | `GaugeAgrees` | `GaugeInv`: all middlewares hold the registered collectors and `Inc` and `Dec` move one request in and out of the set that is counted |
| `…!WaitWaitsHolds`, `VerdictSoundHolds`, `TypeCorrect` | `WaitWaits`, `VerdictSound`, `TypeOK` | the WaitGroup's counter is the number of running jobs; an answer is given once all checks have ended, and they do not change afterwards; the counters are naturals because of what they count |
| `SyncableCache_proofs!TypeCorrect`, `ServesDataHolds` | `TypeOK`, `ServesData` | a goroutine is spawned together with a store (`LoopsHaveData`), what is stored came from the source (`FetchedData`); `ServesData` alone is not inductive, for a failed sync goes back to waiting without a store |
| `…!NeverBackBeforeStartHolds` | `NeverBackBeforeStart` | `AgeInv`: what the cache holds, what a sync found and what it is about to store are all at most the source, which only grows; so what a fetch returns is no older than what its sync found |
| `ChSchema_proofs!TypeCorrect`, `LockedWhileFetchingHolds` | `TypeOK`, `LockedWhileFetching` | `FlusherRefreshes`: the flusher's own refresh is not beside its fetch under the lock |

Each proof has one step per action and cites what the action needs. The type
invariants are proved and therefore in no run; so are `ServesData` and
`LockedWhileFetching`.

The second half of `ChSchema_proofs`, which extends both modules, is about `ChConverter`:
the columns `batchInsert` has from the cache are what the conversion works with. The
four theorems hold for any set of column types, nested to any depth, any defaults, any
values and any widths. They assume what a finite text and a finite row are, as the
ASSUMEs of `ChConverter` say it and TLC evaluates them on `ChConverter.cfg`: the parts
of a type are types and nest less deep (`TypesAssumption`), what is inside a value is a
value and a value of a Go kind is in the range of that kind (`ValuesAssumption`), and
8 bits are fewer than 64 and a UUID longer than a byte (`WidthAssumption`).

| theorem | property | argument |
|---|---|---|
| `SentFitsHolds` | `SentFits` | scalars: one lemma per converter (`AsIntFits`, …, `ConvertScalarFits`). Elements: `ElemFits`, by induction over the depth of the type, says that each element of a map or an array is of the Go type `ScanType` gives, or panics where that type allows it (`CoerceToFits`, `AsDecimalFits`), which the containers around it pass on (`BuildMapFits`, `BuildSliceFits`). Columns: the class found by substring is the right one, because it is the first of the switch whose word the base type contains (`ClassByWords`, `FirstFound`) |
| `AbsentIsNullHolds` | `AbsentIsNull` | by induction over the depth, `Unwrapped` finds a `Nullable` under any wrappers (`UnwrappedFits`) |
| `IntsKeptHolds` | `IntsKept` | a column of base `Int64` has the class `Int`, whose converter is split by Go kind |
| `PositionsKeptHolds` | `PositionsKept` | only an `Array` has the class `Array` under the wrappers (`OnlyArrays`), and `BuildSlice` maps the sequence place by place |

A recursive function is a CHOOSE: the lemmas `WordsDef`, `UnwrappedDef`, `ScanTypeDef`,
`ConvertElemDef`, `NullableDef` and `OutcomesDef` show that a function with that equation exists, level
by level, before anything can be said of its values. `AllLevels` is the induction over
natural numbers they all use, from the well-foundedness of `<`.

Every safety property of the passing runs, each action property and `DrainsBuffered`
among them, is stated by a theorem. Liveness is only model-checked, for it needs fairness:

- `CloseReturns`, `ShutdownCompletes`, `RowsSettle`, `EveryMessageFinishes`,
  `FailureCalledBack`, `Converges`, `CancelledLoopEnds`, `InsertEnds`,
  `CacheCatchesUp` and `HealthAnswers` need fairness.

## 6. Not modelled

Logger, database, redis, the no-op recorder, the metrics adapters and the
configuration files construct, validate or delegate, and keep no state whose steps
could interleave; the ASSUMEs of the modules are what validation leaves.
`kafka/stats.go` and `kafka/validate.go` are pure parsing and a dial. Of `metrics/`
the `Registry` methods other than `RegisterOrExisting` and the `/metrics` route are
one library call each. `routine`'s functions without a `Runner` appear where they are
used, as the goroutines of `KafkaProducer` and `SyncableCache`.

## 7. Plan

Modelled and proved in this order: the writer, because the rows pass it; the components
that share its shape (channel, loop, Close); their composition for shutdown; cron and
the HTTP side; the value conversion. The plan is done: every component with a protocol
of its own is modelled, every safety property of the runs is proved. What would come
next is liveness, when the provers can take it: the argument for `ShutdownCompletes`
starts from `CloseNotDeadlocked`, which says that someone can always go on, and needs a
measure that the steps of the loops and of the callback lower.
