---------------------------- MODULE DlqPipeline ----------------------------
(***************************************************************************)
(* An application that wires the ClickHouse client to the dead-letter      *)
(* recorder as the comment of safeOnPermanentFailure (src/ch/writer.go)    *)
(* describes: OnPermanentFailure calls Recorder.Record for every failed    *)
(* row, on the writer's loop, and shutdown closes the client and then the  *)
(* recorder.  Composes ChClient, with its writer, and DlqRecorder.         *)
(***************************************************************************)
EXTENDS ChClient

CONSTANTS
    App,        \* the goroutine that shuts the application down
    Callback,   \* the caller of Record: the callback, on the writer's loop
    NoPayload,
    BufferSize

ASSUME AppAssumption ==
    /\ App \in Closers
    /\ Fallback                     \* the application sets OnPermanentFailure
    /\ NoPayload \notin Rows
    /\ BufferSize \in Nat \ {0}     \* dlq.Config, after the default is applied

VARIABLES
    \* the recorder: the names DlqRecorder shares with the writer are prefixed
    dlqCh, dlqDone, dlqClosed, dlqLpc, dlqCpc,
    dropped, produceErrors, called, recording, refused, hold, produced, producerClosed

D == INSTANCE DlqRecorder WITH
    Callers <- {Callback}, Closers <- {App}, Payloads <- Rows,
    ch <- dlqCh, done <- dlqDone, closed <- dlqClosed, lpc <- dlqLpc, cpc <- dlqCpc

dlqVars == <<dlqCh, dlqDone, dlqClosed, dlqLpc, dlqCpc,
             dropped, produceErrors, called, recording, refused, hold, produced, producerClosed>>

allVars == <<vars, clientVars, dlqVars>>

PipelineInit == ClientInit /\ D!Init

----------------------------------------------------------------------------
(* The callback: one Record for each row of the batch, in order.            *)

NextRow(r) ==
    \E i \in DOMAIN buffer[table] :
        /\ buffer[table][i] = r
        /\ r \notin called
        /\ \A j \in 1..(i - 1) : buffer[table][j] \in called

CallbackRecord ==
    /\ lpc = "fallback"
    /\ \/ \E r \in Rows : NextRow(r) /\ D!RecordCall(Callback, r)
       \/ D!RecordSend(Callback) \/ D!RecordDone(Callback) \/ D!RecordDrop(Callback)
    /\ UNCHANGED <<vars, clientVars>>

\* The callback may return.  CallbackAsync hands the rows to a goroutine,
\* CallbackQueries has the callback query the client first: it needs the lock.
CallbackAsync == TRUE
CallbackQueries ==
    /\ CanRLock
    /\ RowsIn(buffer[table]) \subseteq called
    /\ recording[Callback] = NoPayload
CallbackDone ==
    /\ RowsIn(buffer[table]) \subseteq called
    /\ recording[Callback] = NoPayload

CallbackReturn ==
    /\ CallFallback
    /\ CallbackDone
    /\ UNCHANGED <<clientVars, dlqVars>>

----------------------------------------------------------------------------
\* The application closes the recorder after the client.
CloseRecorder ==
    /\ ccpc[App] \in {"returned", "noop"}
    /\ D!Close(App)
    /\ UNCHANGED <<vars, clientVars>>

RecorderLoop == D!Loop /\ UNCHANGED <<vars, clientVars>>

PipelineNext ==
    \/ (WriterStep \/ ClientStep) /\ UNCHANGED dlqVars
    \/ CallbackRecord \/ CallbackReturn
    \/ CloseRecorder
    \/ RecorderLoop

PipelineSpec == PipelineInit /\ [][PipelineNext]_allVars

(***************************************************************************)
(* Fairness: as in ChWriter and DlqRecorder.  A query returns; a Lock gets *)
(* its turn once the readers are gone, and none can come in before it; an  *)
(* application that has closed its client goes on to close the recorder.   *)
(***************************************************************************)
Quiet(A) == A /\ UNCHANGED <<clientVars, dlqVars>>

PipelineFairness ==
    /\ WF_allVars(Quiet(PumpStep)) /\ WF_allVars(Quiet(Tick)) /\ WF_allVars(Quiet(Age))
    /\ SF_allVars(Quiet(LoopReceive)) /\ SF_allVars(Quiet(LoopTick)) /\ SF_allVars(Quiet(LoopDone))
    /\ WF_allVars(Quiet(Select)) /\ WF_allVars(Quiet(Drain)) /\ WF_allVars(Quiet(ClientFlush))
    /\ WF_allVars(CallbackRecord) /\ WF_allVars(CallbackReturn)
    /\ WF_allVars(Quiet(Refresher))
    /\ WF_allVars((\E w \in Writers : OnceReturn(w)) /\ UNCHANGED dlqVars)
    /\ \A q \in Queriers : WF_allVars(QueryReturn(q) /\ UNCHANGED dlqVars)
    /\ \A k \in Closers :
          WF_allVars((ClientLocked(k) \/ ClientCloseWriter(k) \/ ClientCloseConn(k)) /\ UNCHANGED dlqVars)
    /\ WF_allVars(CloseRecorder)
    /\ WF_allVars(RecorderLoop) /\ SF_allVars(D!LoopDone /\ UNCHANGED <<vars, clientVars>>)

FairPipeline == PipelineSpec /\ PipelineFairness

----------------------------------------------------------------------------
(* Properties.                                                              *)

Failed == UNION {RowsIn(reports[i].rows) : i \in {j \in DOMAIN reports : reports[j].err}}

\* "Synchronous invocation guarantees every Record is enqueued before flush (and
\* thus Close) returns" (writer.go:343): once an orderly shutdown is over, with a
\* panic of the producer's Close or without, every row whose insert failed was produced to Kafka or is in a counter; none
\* was refused by the closing recorder or stranded in its buffer.
FailedRowsRecorded ==
    Orderly /\ dlqCpc[App] \in {"returned", "panic"} =>
        /\ called = Failed
        /\ refused = 0 /\ dlqCh = <<>> /\ hold = NoPayload
        /\ Cardinality(Failed) = Len(produced) + dropped + produceErrors

\* Shutdown completes: client.Close, through the writer's last flush, the
\* callback and the connection, and then the recorder's drain, unless one of the
\* two Close calls panics.
ShutdownCompletes ==
    ccpc[App] = "waiting" ~> dlqCpc[App] \in {"returned", "panic"} \/ ccpc[App] = "panic"

\* What a wg.Wait of Close waits for, when it cannot go on by itself: no case of
\* its select is ready, or the callback has no call left that can be made.
LoopBlocked ==
    \/ lpc = "select" /\ chOut = <<>> /\ ~outClosed /\ ~tick /\ ~done
    \/ /\ lpc = "fallback"
       /\ recording[Callback] = NoPayload
       /\ ~CallbackDone
       /\ \A r \in Rows : ~NextRow(r)
RefresherBlocked == rpc = "wait" /\ ~done
RecorderBlocked == dlqLpc = "select" /\ hold = NoPayload /\ dlqCh = <<>> /\ ~dlqDone

\* Nobody waits in a circle: while Client.Close holds the lock and its writer.Close
\* waits for the loops they can go on, through the callback and the recorder it
\* calls too, and so can the recorder's loop while its own Close waits for it.
CloseNotDeadlocked ==
    /\ (\E k \in Closers : cpc[k] = "wait") => ~LoopBlocked /\ ~RefresherBlocked
    /\ dlqCpc[App] = "wait" => ~RecorderBlocked

\* The same promise for every order of calls: see README, it is not kept.
NoFailedRowLost ==
    dlqCpc[App] = "returned" => refused = 0 /\ dlqCh = <<>>
=============================================================================
