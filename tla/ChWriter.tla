------------------------------ MODULE ChWriter ------------------------------
(***************************************************************************)
(* The asynchronous ClickHouse batch writer, src/ch/writer.go.             *)
(*                                                                         *)
(* Processes: any number of goroutines inside Write, any number inside     *)
(* Close, the process loop, the schema refresh loop, and the pump of the   *)
(* unbounded channel (module UnboundedChan) that joins Write to the loop.  *)
(*                                                                         *)
(* Abstractions.  A row is one occurrence of a value in a Write call, so   *)
(* two rows of the model may be equal rows of the program.  Clocks are     *)
(* replaced by the two facts the code reads off them: "the flush ticker    *)
(* has fired" (tick) and "MaxWaitTime has passed since firstDataTime"      *)
(* (aged).  One insert attempt is one step whose outcome the environment   *)
(* chooses; the schema refresh inside batchInsert is in module ChSchema.   *)
(***************************************************************************)
EXTENDS UnboundedChan, FiniteSets

CONSTANTS
    Writers,        \* goroutines that call Write
    Closers,        \* goroutines that call Close
    Calls,          \* the row slices Write may be called with
    NilRows,        \* the rows that are nil interface values
    Tables,         \* table names
    TableOf,        \* Row.TableName()
    FlushSize,      \* WriterConfig.FlushSize
    MinFlushSize,   \* WriterConfig.MinFlushSize
    MaxWaitTime,    \* WriterConfig.MaxWaitTime > 0
    MaxRetries,     \* WriterConfig.MaxRetries, after the default is applied
    SchemaRefresh,  \* WriterConfig.SchemaRefreshInterval > 0
    Fallback,       \* WriterConfig.OnPermanentFailure # nil
    Outcomes        \* what an insert attempt may end in

NoTable == "no table"

\* "unknown": the batch was persisted but the client got a retryable error,
\* e.g. code 319 UNKNOWN_STATUS_OF_INSERT or an EOF while awaiting the reply.
AllOutcomes == {"ok", "transient", "unknown", "permanent"}
Results == {"none", "ok", "closed", "cancelled", "full", "panic"}

ASSUME RowsAssumption ==
    /\ NilRows \subseteq Rows
    /\ TableOf \in [Rows -> Tables]
    /\ NoTable \notin Tables
    /\ Calls \subseteq Seq(Rows)
    /\ \A c \in Calls : c # <<>> /\ \A i, j \in DOMAIN c : c[i] = c[j] => i = j

\* Config.Validate, and the default newWriterWithConn gives MaxRetries.
ASSUME ConfigAssumption ==
    /\ FlushSize \in Nat \ {0}
    /\ ChanCap = FlushSize
    /\ MinFlushSize \in 0..FlushSize
    /\ MaxRetries \in Nat \ {0}
    /\ MaxWaitTime \in BOOLEAN
    /\ SchemaRefresh \in BOOLEAN
    /\ Fallback \in BOOLEAN
    /\ Outcomes \subseteq AllOutcomes

VARIABLES
    closed,     \* the atomic flag
    done,       \* close(done) was called; both tickers are stopped
    pending,    \* [Writers -> the rows of the current Write call not yet sent]
    result,     \* [Writers -> how the last Write call ended]
    accepted,   \* the rows whose send on In succeeded
    cpc,        \* [Closers -> program counter inside Close]
    lpc,        \* program counter of the process loop
    buffer,     \* the loop's local map, table -> rows
    totalRows,  \* the loop's row count
    aged,       \* MaxWaitTime has passed since firstDataTime
    stopping,   \* the loop took the done branch: the flush it runs is its last
    tick,       \* the flush ticker's channel holds a tick
    todo,       \* tables the running flush has not settled yet
    table,      \* the table the running flush works on
    attempt,    \* the attempt number for that table
    stored,     \* [Rows -> copies ClickHouse holds: of inserts that succeeded (sure)
                \* and of inserts the client took for failures (unsure)]
    reports,    \* the calls of MetricsHook.OnFlush, in order
    handed,     \* the rows handed to OnPermanentFailure
    rpc         \* program counter of the schema refresh loop

writeVars == <<pending, result, accepted>>
closeVars == <<closed, done, cpc>>
flushVars == <<todo, table, attempt, stored, reports, handed>>
loopVars  == <<lpc, buffer, totalRows, aged, stopping>>
vars == <<chanVars, writeVars, closeVars, flushVars, loopVars, tick, rpc>>

RowsIn(s) == {s[i] : i \in DOMAIN s}
EmptyBuffer == [t \in Tables |-> <<>>]
Copies == [sure : Nat, unsure : Nat]
NoCopy == [sure |-> 0, unsure |-> 0]

TypeOK ==
    /\ ChanTypeOK
    /\ closed \in BOOLEAN
    /\ done \in BOOLEAN
    /\ pending \in [Writers -> Seq(Rows)]
    /\ result \in [Writers -> Results]
    /\ accepted \subseteq Rows
    /\ cpc \in [Closers -> {"idle", "signal", "closeIn", "wait", "returned", "noop"}]
    /\ lpc \in {"off", "select", "drain", "flush", "insert", "reportOk", "reportErr", "fallback", "exit"}
    /\ buffer \in [Tables -> Seq(Rows)]
    /\ totalRows \in Nat
    /\ aged \in BOOLEAN
    /\ stopping \in BOOLEAN
    /\ tick \in BOOLEAN
    /\ todo \subseteq Tables
    /\ table \in Tables \cup {NoTable}
    /\ attempt \in 0..MaxRetries
    /\ stored \in [Rows -> Copies]
    /\ reports \in Seq([table : Tables, rows : Seq(Rows), err : BOOLEAN])
    /\ handed \subseteq Rows
    /\ rpc \in {"off", "wait", "refresh", "exit"}

Init ==
    /\ ChanInit
    /\ closed = FALSE
    /\ done = FALSE
    /\ pending = [w \in Writers |-> <<>>]
    /\ result = [w \in Writers |-> "none"]
    /\ accepted = {}
    /\ cpc = [k \in Closers |-> "idle"]
    /\ lpc = "off"
    /\ buffer = EmptyBuffer
    /\ totalRows = 0
    /\ aged = FALSE
    /\ stopping = FALSE
    /\ tick = FALSE
    /\ todo = {}
    /\ table = NoTable
    /\ attempt = 0
    /\ stored = [r \in Rows |-> NoCopy]
    /\ reports = <<>>
    /\ handed = {}
    /\ rpc = "off"

----------------------------------------------------------------------------
\* Start: spawn the process loop and, if enabled, the schema refresh loop.
Start ==
    /\ lpc = "off"
    /\ lpc' = "select"
    /\ rpc' = IF SchemaRefresh THEN "wait" ELSE rpc
    /\ UNCHANGED <<chanVars, writeVars, closeVars, flushVars, buffer, totalRows, aged, stopping, tick>>

----------------------------------------------------------------------------
(* Write.  Start must come before Write (docs/important-notes.md).  The     *)
(* closed flag is read once; the sends come later, one row at a time.       *)

\* No Write call has sent these rows or is about to.
Fresh(rows) ==
    \A r \in RowsIn(rows) : r \notin accepted /\ \A w \in Writers : r \notin RowsIn(pending[w])

WriteCall(w, rows) ==
    /\ lpc # "off"
    /\ pending[w] = <<>>
    /\ result[w] # "panic"
    /\ Fresh(rows)
    /\ IF closed
       THEN result' = [result EXCEPT ![w] = "closed"] /\ UNCHANGED pending
       ELSE pending' = [pending EXCEPT ![w] = rows] /\ UNCHANGED result
    /\ UNCHANGED <<chanVars, accepted, closeVars, flushVars, loopVars, tick, rpc>>

\* case w.dataChan.In <- row: taken when In is open and has room.
WriteSend(w) ==
    /\ pending[w] # <<>>
    /\ ~inClosed
    /\ Len(chIn) < FlushSize
    /\ chIn' = Append(chIn, Head(pending[w]))
    /\ accepted' = accepted \cup {Head(pending[w])}
    /\ pending' = [pending EXCEPT ![w] = Tail(@)]
    /\ result' = IF Len(pending[w]) = 1 THEN [result EXCEPT ![w] = "ok"] ELSE result
    /\ UNCHANGED <<chBuf, chOut, inClosed, outClosed, closeVars, flushVars, loopVars, tick, rpc>>

\* Write returns before all its rows are sent; those already sent stay sent.
WriteEnds(w, how) ==
    /\ pending[w] # <<>>
    /\ pending' = [pending EXCEPT ![w] = <<>>]
    /\ result' = [result EXCEPT ![w] = how]
    /\ UNCHANGED <<chanVars, accepted, closeVars, flushVars, loopVars, tick, rpc>>

\* case <-ctx.Done(): the caller may cancel its context at any time.
WriteCancelled(w) == WriteEnds(w, "cancelled")

\* default: In is full.
WriteFull(w) == ~inClosed /\ Len(chIn) = FlushSize /\ WriteEnds(w, "full")

\* A send on a closed Go channel panics, in a select too.
WritePanic(w) == inClosed /\ WriteEnds(w, "panic")

----------------------------------------------------------------------------
(* Close: CompareAndSwap, stop the tickers and close(done), close(In),      *)
(* wg.Wait.  A call that loses the CompareAndSwap returns nil at once.      *)

CloseCAS(k) ==
    /\ cpc[k] = "idle"
    /\ cpc' = [cpc EXCEPT ![k] = IF closed THEN "noop" ELSE "signal"]
    /\ closed' = TRUE
    /\ UNCHANGED <<chanVars, writeVars, done, flushVars, loopVars, tick, rpc>>

\* Stop the tickers, close(done).
CloseSignal(k) ==
    /\ cpc[k] = "signal"
    /\ cpc' = [cpc EXCEPT ![k] = "closeIn"]
    /\ done' = TRUE
    /\ UNCHANGED <<chanVars, writeVars, closed, flushVars, loopVars, tick, rpc>>

CloseIn(k) ==
    /\ cpc[k] = "closeIn"
    /\ cpc' = [cpc EXCEPT ![k] = "wait"]
    /\ inClosed' = TRUE
    /\ UNCHANGED <<chIn, chBuf, chOut, outClosed, writeVars, closed, done, flushVars, loopVars, tick, rpc>>

\* wg.Wait: every loop that was started has returned.  RefreshEnded is a Close
\* that waits for the schema refresh loop only.
RefreshEnded == rpc \in {"off", "exit"}
LoopsEnded == lpc \in {"off", "exit"} /\ rpc \in {"off", "exit"}

CloseWait(k) ==
    /\ cpc[k] = "wait"
    /\ LoopsEnded
    /\ cpc' = [cpc EXCEPT ![k] = "returned"]
    /\ UNCHANGED <<chanVars, writeVars, closed, done, flushVars, loopVars, tick, rpc>>

----------------------------------------------------------------------------
(* The process loop.  In "select" it waits on Out, the flush ticker and     *)
(* done; when several are ready Go picks one of them.                       *)

\* The ticker's channel holds at most one tick; a stopped ticker sends none.
Tick ==
    /\ ~done
    /\ ~tick
    /\ tick' = TRUE
    /\ UNCHANGED <<chanVars, writeVars, closeVars, flushVars, loopVars, rpc>>

\* MaxWaitTime passes since the first row of the current batch arrived.
Age ==
    /\ MaxWaitTime
    /\ ~aged
    /\ totalRows > 0
    /\ aged' = TRUE
    /\ UNCHANGED <<chanVars, writeVars, closeVars, flushVars, lpc, buffer, totalRows, stopping, tick, rpc>>

\* The tables flush ranges over: the keys of the map.
Keys(buf) == {t \in Tables : buf[t] # <<>>}

BeginFlush(buf) ==
    /\ lpc' = "flush"
    /\ todo' = Keys(buf)

Take(r) == [buffer EXCEPT ![TableOf[r]] = Append(@, r)]

\* The batch is full.  FullLate waits for one row more.
FullLate(n) == n > FlushSize
Full(n) == n >= FlushSize

\* case row := <-Out, nil rows skipped, FlushSize rows start a flush.
LoopReceive ==
    /\ lpc = "select"
    /\ chOut # <<>>
    /\ chOut' = Tail(chOut)
    /\ IF Head(chOut) \in NilRows
       THEN UNCHANGED <<loopVars, todo>>
       ELSE /\ buffer' = Take(Head(chOut))
            /\ totalRows' = totalRows + 1
            /\ aged' = IF totalRows = 0 THEN FALSE ELSE aged
            /\ IF Full(totalRows + 1)
               THEN BeginFlush(buffer')
               ELSE UNCHANGED <<lpc, todo>>
            /\ UNCHANGED stopping
    /\ UNCHANGED <<chIn, chBuf, inClosed, outClosed, writeVars, closeVars,
                   table, attempt, stored, reports, handed, tick, rpc>>

\* case row, ok := <-Out with !ok: the loop returns with its buffer as it is.
LoopOutClosed ==
    /\ lpc = "select"
    /\ chOut = <<>>
    /\ outClosed
    /\ lpc' = "exit"
    /\ UNCHANGED <<chanVars, writeVars, closeVars, flushVars, buffer, totalRows, aged, stopping, tick, rpc>>

\* shouldFlush.  ShouldFlushBySize forgets MaxWaitTime.
ShouldFlushBySize == MinFlushSize = 0 \/ totalRows >= MinFlushSize
ShouldFlush == MinFlushSize = 0 \/ totalRows >= MinFlushSize \/ (MaxWaitTime /\ aged)

\* case <-flushTicker.C
LoopTick ==
    /\ lpc = "select"
    /\ tick
    /\ tick' = FALSE
    /\ IF totalRows > 0 /\ ShouldFlush
       THEN BeginFlush(buffer)
       ELSE UNCHANGED <<lpc, todo>>
    /\ UNCHANGED <<chanVars, writeVars, closeVars, buffer, totalRows, aged, stopping,
                   table, attempt, stored, reports, handed, rpc>>

\* case <-done
LoopDone ==
    /\ lpc = "select"
    /\ done
    /\ lpc' = "drain"
    /\ stopping' = TRUE
    /\ UNCHANGED <<chanVars, writeVars, closeVars, flushVars, buffer, totalRows, aged, tick, rpc>>

\* drainChannel receives a row ...
DrainReceive ==
    /\ lpc = "drain"
    /\ chOut # <<>>
    /\ chOut' = Tail(chOut)
    /\ IF Head(chOut) \in NilRows
       THEN UNCHANGED <<buffer, totalRows>>
       ELSE buffer' = Take(Head(chOut)) /\ totalRows' = totalRows + 1
    /\ UNCHANGED <<chIn, chBuf, inClosed, outClosed, writeVars, closeVars,
                   flushVars, lpc, aged, stopping, tick, rpc>>

\* ... or finds none in Out at this moment, whatever In and the pump hold.
DrainDefault ==
    /\ lpc = "drain"
    /\ chOut = <<>>
    /\ IF totalRows > 0 THEN BeginFlush(buffer) ELSE lpc' = "exit" /\ UNCHANGED todo
    /\ UNCHANGED <<chanVars, writeVars, closeVars, buffer, totalRows, aged, stopping,
                   table, attempt, stored, reports, handed, tick, rpc>>

----------------------------------------------------------------------------
(* flush: for each table of the map, in no particular order, insert with    *)
(* retries, report the outcome, hand failed rows to the fallback.           *)

FlushPick(t) ==
    /\ lpc = "flush"
    /\ t \in todo
    /\ table' = t
    /\ attempt' = 0
    /\ lpc' = "insert"
    /\ UNCHANGED <<chanVars, writeVars, closeVars, todo, stored, reports, handed,
                   buffer, totalRows, aged, stopping, tick, rpc>>

\* Another attempt follows: the error is retryable (isRetryableError) and this
\* was not the last attempt.  RetryAfterOk lacks the break after a success.
RetryAfterOk(outcome) == outcome # "permanent" /\ attempt < MaxRetries
Retry(outcome) == outcome \in {"transient", "unknown"} /\ attempt < MaxRetries

\* What an attempt leaves in ClickHouse of one row.
Persist(copies, outcome) ==
    CASE outcome = "ok"      -> [copies EXCEPT !.sure = @ + 1]
      [] outcome = "unknown" -> [copies EXCEPT !.unsure = @ + 1]
      [] OTHER               -> copies

\* One round of the retry loop: batchInsert, then leave the loop or back off.
InsertAttempt(outcome) ==
    /\ lpc = "insert"
    /\ stored' = [r \in Rows |->
          IF r \in RowsIn(buffer[table]) THEN Persist(stored[r], outcome) ELSE stored[r]]
    /\ IF Retry(outcome)
       THEN attempt' = attempt + 1 /\ UNCHANGED lpc
       ELSE /\ lpc' = IF outcome = "ok" THEN "reportOk" ELSE "reportErr"
            /\ UNCHANGED attempt
    /\ UNCHANGED <<chanVars, writeVars, closeVars, todo, table, reports, handed,
                   buffer, totalRows, aged, stopping, tick, rpc>>

\* reportFlush: OnFlush(table, len(rows), duration, lastErr).
Report ==
    /\ lpc \in {"reportOk", "reportErr"}
    /\ reports' = Append(reports, [table |-> table, rows |-> buffer[table], err |-> lpc = "reportErr"])
    /\ todo' = todo \ {table}
    /\ lpc' = IF lpc = "reportErr" /\ Fallback THEN "fallback" ELSE "flush"
    /\ UNCHANGED <<chanVars, writeVars, closeVars, table, attempt, stored, handed,
                   buffer, totalRows, aged, stopping, tick, rpc>>

\* safeOnPermanentFailure, on the loop's own goroutine.
CallFallback ==
    /\ lpc = "fallback"
    /\ handed' = handed \cup RowsIn(buffer[table])
    /\ lpc' = "flush"
    /\ UNCHANGED <<chanVars, writeVars, closeVars, todo, table, attempt, stored, reports,
                   buffer, totalRows, aged, stopping, tick, rpc>>

\* The map the loop goes on with after a flush.  KeptBatch is a missing reset.
KeptBatch == buffer
NewBatch == EmptyBuffer

\* flush returns: the loop starts a new batch, or ends if this was the last
\* flush (its map then ends with it).
FlushReturn ==
    /\ lpc = "flush"
    /\ todo = {}
    /\ buffer' = NewBatch
    /\ totalRows' = 0
    /\ aged' = FALSE
    /\ table' = NoTable
    /\ lpc' = IF stopping THEN "exit" ELSE "select"
    /\ UNCHANGED <<chanVars, writeVars, closeVars, todo, attempt, stored, reports, handed,
                   stopping, tick, rpc>>

----------------------------------------------------------------------------
(* schemaRefreshLoop: what a refresh does to the cache is in ChSchema.  A   *)
(* tick left in the channel when the ticker stops is a RefreshTick taken    *)
(* before done: the step reads and writes nothing another process uses.     *)

RefreshTick ==
    /\ rpc = "wait"
    /\ ~done
    /\ rpc' = "refresh"
    /\ UNCHANGED <<chanVars, writeVars, closeVars, flushVars, loopVars, tick>>

RefreshReturn ==
    /\ rpc = "refresh"
    /\ rpc' = "wait"
    /\ UNCHANGED <<chanVars, writeVars, closeVars, flushVars, loopVars, tick>>

RefreshDone ==
    /\ rpc = "wait"
    /\ done
    /\ rpc' = "exit"
    /\ UNCHANGED <<chanVars, writeVars, closeVars, flushVars, loopVars, tick>>

----------------------------------------------------------------------------
Write(w) == \/ \E rows \in Calls : WriteCall(w, rows)
            \/ WriteSend(w) \/ WriteCancelled(w) \/ WriteFull(w) \/ WritePanic(w)

Close(k) == CloseCAS(k) \/ CloseSignal(k) \/ CloseIn(k) \/ CloseWait(k)

Select == LoopReceive \/ LoopOutClosed \/ LoopTick \/ LoopDone

Drain == DrainReceive \/ DrainDefault

Flush == \/ \E t \in Tables : FlushPick(t)
         \/ \E o \in Outcomes : InsertAttempt(o)
         \/ Report \/ CallFallback \/ FlushReturn

Refresher == RefreshTick \/ RefreshReturn \/ RefreshDone

PumpStep ==
    /\ Pump
    /\ UNCHANGED <<writeVars, closeVars, flushVars, loopVars, tick, rpc>>

Next ==
    \/ Start
    \/ \E w \in Writers : Write(w)
    \/ \E k \in Closers : Close(k)
    \/ PumpStep
    \/ Tick \/ Age
    \/ Select \/ Drain \/ Flush
    \/ Refresher

Spec == Init /\ [][Next]_vars

(***************************************************************************)
(* Fairness.  The Go scheduler runs every runnable goroutine; tickers keep *)
(* firing; a select picks at random among its ready cases, so a case that  *)
(* is ready again and again is taken (SF); a ClickHouse call returns.      *)
(* Nothing makes a caller call Write or Close.                             *)
(***************************************************************************)
Fairness ==
    /\ WF_vars(PumpStep)
    /\ WF_vars(Tick) /\ WF_vars(Age)
    /\ SF_vars(LoopReceive) /\ SF_vars(LoopTick) /\ SF_vars(LoopDone)
    /\ WF_vars(Select) /\ WF_vars(Drain) /\ WF_vars(Flush)
    /\ WF_vars(Refresher)
    /\ \A k \in Closers : WF_vars(CloseSignal(k) \/ CloseIn(k) \/ CloseWait(k))

FairSpec == Spec /\ Fairness

----------------------------------------------------------------------------
(* Properties.                                                              *)

Reported == UNION {RowsIn(reports[i].rows) : i \in DOMAIN reports}

\* The Close call that does the work has returned.
CloseReturned == \E k \in Closers : cpc[k] = "returned"

Flushing == lpc \in {"flush", "insert", "reportOk", "reportErr", "fallback"}

\* The rows of the loop's map that no OnFlush call has reported yet.
Unsettled(t) == IF Flushing /\ t \notin todo THEN <<>> ELSE buffer[t]

\* No row is reported to the metrics hook twice, and only accepted rows are:
\* a flush never keeps, repeats or invents a row (writer.go flush and the
\* resets of buffer after it).
ReportedOnce ==
    /\ Reported \subseteq accepted
    /\ \A i, j \in DOMAIN reports : \A m \in DOMAIN reports[i].rows, n \in DOMAIN reports[j].rows :
          reports[i].rows[m] = reports[j].rows[n] => i = j /\ m = n

\* totalRows and the map agree on emptiness (every branch trusts totalRows), the
\* loop never waits in select with a full batch, and no batch is born aged.
BatchAccounting ==
    /\ lpc = "select" => totalRows < FlushSize
    /\ ~Flushing => totalRows = 0 \/ \E t \in Tables : buffer[t] # <<>>
    /\ totalRows = 0 => buffer = EmptyBuffer /\ ~aged

\* ClickHouse and the reports agree: apart from inserts with an unknown outcome a
\* row is stored exactly when it was reported ok or is about to be, and of those
\* inserts there is at most one per attempt.
StoredAgrees ==
    \A r \in Rows :
        /\ stored[r].sure =
              Cardinality({i \in DOMAIN reports : ~reports[i].err /\ r \in RowsIn(reports[i].rows)})
              + (IF lpc = "reportOk" /\ r \in RowsIn(buffer[table]) THEN 1 ELSE 0)
        /\ stored[r].unsure <= MaxRetries + 1 - stored[r].sure

\* The guarantee of safeOnPermanentFailure's comment: when Close returns, every
\* failed row has been handed to the fallback.
FailedRowsHanded ==
    CloseReturned /\ Fallback =>
        \A i \in DOMAIN reports : reports[i].err => RowsIn(reports[i].rows) \subseteq handed

\* Once Close has returned the writer calls no hook and inserts nothing, so the
\* connection and a dead-letter recorder may be closed after it.
QuietAfterClose == [][CloseReturned => UNCHANGED <<reports, handed, stored>>]_vars

\* With a policy that bounds the wait, every accepted row of a writer that stays
\* open is reported.
RowsSettle ==
    MinFlushSize = 0 \/ MaxWaitTime =>
        \A r \in Rows \ NilRows : r \in accepted ~> (r \in Reported \/ closed)

\* The writer's queues: the line of a table is what the loop's map holds
\* unsettled for it, then the whole channel; a row that is not nil waits in the
\* line of its table, behind the rows of the table that stand before it there.
Line(t) == Unsettled(t) \o InChannel
Waiting == (RowsIn(InChannel) \cup UNION {RowsIn(Unsettled(t)) : t \in Tables}) \ NilRows
Before(s, r) == UNION {{s[i] : i \in 1..(j - 1)} : j \in {n \in DOMAIN s : s[n] = r}}
Ahead(r) == {q \in Before(Line(TableOf[r]), r) \ NilRows : TableOf[q] = TableOf[r]}

Delivery == INSTANCE RowDelivery WITH
    Rows <- Rows \ NilRows,
    waiting <- Waiting,
    ahead <- [r \in Rows \ NilRows |-> Ahead(r)],
    settled <- reports,
    open <- ~inClosed

\* Every step of the writer accepts one row, settles one batch of one table in
\* order, shuts, or changes nothing the abstract specification sees.
ImplementsRowDelivery == Delivery!Spec

\* What the documentation promises and the code does not keep: see README.
\* "On shutdown: drain channel and flush remaining data" (ch/README.md:277).
ExitsWithNothingBuffered == lpc = "exit" => \A t \in Tables : Unsettled(t) = <<>>

\* "drainChannel process all remaining requests in channel" (writer.go:247).
DrainsWholeChannel == stopping /\ lpc # "drain" => InChannel = <<>>

\* "ErrWriterClosed when writer is closed" (errors.go:11): an error, no panic.
WriteNeverPanics == \A w \in Writers : result[w] # "panic"

\* "on err != nil every one of the rows failed" (metrics_hook.go:20).
FailedMeansNotStored ==
    \A i \in DOMAIN reports : reports[i].err => \A r \in RowsIn(reports[i].rows) : stored[r] = NoCopy

=============================================================================
