---------------------------- MODULE DlqRecorder ----------------------------
(***************************************************************************)
(* The Kafka-backed dead-letter recorder, src/dlq/recorder.go: callers of  *)
(* Record put payloads in a bounded Go channel without blocking, one loop  *)
(* goroutine produces them, Close signals the loop through done, waits for *)
(* it and closes the producer it owns.                                     *)
(*                                                                         *)
(* A payload is one Record call, so none is recorded twice.  The producer  *)
(* is its answers: Produce accepts a message or returns an error, Close    *)
(* returns or panics.  The steps are those of a process that runs on.      *)
(***************************************************************************)
EXTENDS Naturals, Sequences, FiniteSets

CONSTANTS
    Callers,    \* goroutines that call Record
    Closers,    \* goroutines that call Close
    Payloads,   \* the payloads
    NoPayload,  \* "no payload here"
    BufferSize  \* Config.BufferSize, after the default is applied

ASSUME DlqAssumption ==
    /\ IsFiniteSet(Callers)
    /\ NoPayload \notin Payloads
    /\ BufferSize \in Nat \ {0}

VARIABLES
    ch,             \* the channel's contents
    done,           \* close(done) was called
    closed,         \* the atomic flag
    dropped,        \* the atomic counter
    produceErrors,  \* the atomic counter
    called,         \* the payloads Record was called with
    recording,      \* [Callers -> the payload of a Record past its first check]
    refused,        \* number of Record calls that returned because of done
    lpc,            \* program counter of the loop
    hold,           \* the payload produce() works on
    produced,       \* what the producer accepted, in order
    cpc,            \* [Closers -> program counter inside Close]
    producerClosed  \* producer.Close() was called

callVars == <<called, recording, refused>>
closeVars == <<closed, done, cpc, producerClosed>>
vars == <<ch, callVars, closeVars, dropped, produceErrors, lpc, hold, produced>>

Entries(s) == {s[i] : i \in DOMAIN s}

TypeOK ==
    /\ ch \in Seq(Payloads) /\ Len(ch) <= BufferSize
    /\ done \in BOOLEAN
    /\ closed \in BOOLEAN
    /\ dropped \in Nat
    /\ produceErrors \in Nat
    /\ called \subseteq Payloads
    /\ recording \in [Callers -> Payloads \cup {NoPayload}]
    /\ refused \in Nat
    /\ lpc \in {"select", "drain", "exit"}
    /\ hold \in Payloads \cup {NoPayload}
    /\ produced \in Seq(Payloads)
    /\ cpc \in [Closers -> {"idle", "signal", "wait", "producer", "returned", "noop", "panic"}]
    /\ producerClosed \in BOOLEAN

\* newKafkaRecorder: the loop is running when the recorder is handed out.
Init ==
    /\ ch = <<>>
    /\ done = FALSE
    /\ closed = FALSE
    /\ dropped = 0
    /\ produceErrors = 0
    /\ called = {}
    /\ recording = [c \in Callers |-> NoPayload]
    /\ refused = 0
    /\ lpc = "select"
    /\ hold = NoPayload
    /\ produced = <<>>
    /\ cpc = [k \in Closers |-> "idle"]
    /\ producerClosed = FALSE

----------------------------------------------------------------------------
\* Record, first select: return if done is closed, go on otherwise.
RecordCall(c, p) ==
    /\ recording[c] = NoPayload
    /\ p \notin called
    /\ called' = called \cup {p}
    /\ IF done
       THEN refused' = refused + 1 /\ UNCHANGED recording
       ELSE recording' = [recording EXCEPT ![c] = p] /\ UNCHANGED refused
    /\ UNCHANGED <<ch, closeVars, dropped, produceErrors, lpc, hold, produced>>

\* Room for one payload more.
Room == Len(ch) < BufferSize

\* Second select.  With done closed and room in ch, Go picks either case.
RecordSend(c) ==
    /\ recording[c] # NoPayload
    /\ Room
    /\ ch' = Append(ch, recording[c])
    /\ recording' = [recording EXCEPT ![c] = NoPayload]
    /\ UNCHANGED <<called, refused, closeVars, dropped, produceErrors, lpc, hold, produced>>

RecordDone(c) ==
    /\ recording[c] # NoPayload
    /\ done
    /\ refused' = refused + 1
    /\ recording' = [recording EXCEPT ![c] = NoPayload]
    /\ UNCHANGED <<ch, called, closeVars, dropped, produceErrors, lpc, hold, produced>>

\* default: the buffer is full.
RecordDrop(c) ==
    /\ recording[c] # NoPayload
    /\ ~done
    /\ ~Room
    /\ dropped' = dropped + 1
    /\ recording' = [recording EXCEPT ![c] = NoPayload]
    /\ UNCHANGED <<ch, called, refused, closeVars, produceErrors, lpc, hold, produced>>

----------------------------------------------------------------------------
\* case p := <-r.ch, in the main select and in the drain loop after done.
LoopReceive ==
    /\ lpc # "exit"
    /\ hold = NoPayload
    /\ ch # <<>>
    /\ hold' = Head(ch)
    /\ ch' = Tail(ch)
    /\ UNCHANGED <<callVars, closeVars, dropped, produceErrors, lpc, produced>>

\* The program counter the done branch leads to.  BreakSelect leaves the
\* select and not the for around it, NoDrain returns at once.
BreakSelect == "select"
NoDrain == "exit"
WithDrain == "drain"

LoopDone ==
    /\ lpc = "select"
    /\ hold = NoPayload
    /\ done
    /\ lpc' = WithDrain
    /\ UNCHANGED <<ch, callVars, closeVars, dropped, produceErrors, hold, produced>>

\* default of the drain loop: nothing is buffered at this moment.
LoopReturn ==
    /\ lpc = "drain"
    /\ hold = NoPayload
    /\ ch = <<>>
    /\ lpc' = "exit"
    /\ UNCHANGED <<ch, callVars, closeVars, dropped, produceErrors, hold, produced>>

\* produce: the payload is accepted by the producer, or over the byte cap, or
\* fails to marshal or to be produced.  OversizeUncounted forgets its counter.
OversizeUncounted == dropped
OversizeCounted == dropped + 1

Produce ==
    /\ hold # NoPayload
    /\ hold' = NoPayload
    /\ \/ produced' = Append(produced, hold) /\ UNCHANGED <<dropped, produceErrors>>
       \/ dropped' = OversizeCounted /\ UNCHANGED <<produced, produceErrors>>
       \/ produceErrors' = produceErrors + 1 /\ UNCHANGED <<produced, dropped>>
    /\ UNCHANGED <<ch, callVars, closeVars, lpc>>

----------------------------------------------------------------------------
\* Close: CompareAndSwap, close(done), wg.Wait, producer.Close.
CloseCAS(k) ==
    /\ cpc[k] = "idle"
    /\ cpc' = [cpc EXCEPT ![k] = IF closed THEN "noop" ELSE "signal"]
    /\ closed' = TRUE
    /\ UNCHANGED <<ch, callVars, done, producerClosed, dropped, produceErrors, lpc, hold, produced>>

CloseSignal(k) ==
    /\ cpc[k] = "signal"
    /\ cpc' = [cpc EXCEPT ![k] = "wait"]
    /\ done' = TRUE
    /\ UNCHANGED <<ch, callVars, closed, producerClosed, dropped, produceErrors, lpc, hold, produced>>

\* wg.Wait: the loop has returned.  NotWaited is a Close without wg.Wait.
NotWaited == TRUE
LoopEnded == lpc = "exit"

CloseWait(k) ==
    /\ cpc[k] = "wait"
    /\ LoopEnded
    /\ cpc' = [cpc EXCEPT ![k] = "producer"]
    /\ UNCHANGED <<ch, callVars, closed, done, producerClosed, dropped, produceErrors, lpc, hold, produced>>

\* producer.Close() returns, or panics: the Kafka producer has closed its done
\* channel itself on ErrAllBrokersDown (KafkaProducer).
CloseProducer(k) ==
    /\ cpc[k] = "producer"
    /\ \/ cpc' = [cpc EXCEPT ![k] = "returned"] /\ producerClosed' = TRUE
       \/ cpc' = [cpc EXCEPT ![k] = "panic"] /\ UNCHANGED producerClosed
    /\ UNCHANGED <<ch, callVars, closed, done, dropped, produceErrors, lpc, hold, produced>>

----------------------------------------------------------------------------
Record(c) == \/ \E p \in Payloads : RecordCall(c, p)
             \/ RecordSend(c) \/ RecordDone(c) \/ RecordDrop(c)

Loop == LoopReceive \/ LoopDone \/ LoopReturn \/ Produce

Close(k) == CloseCAS(k) \/ CloseSignal(k) \/ CloseWait(k) \/ CloseProducer(k)

Next ==
    \/ \E c \in Callers : Record(c)
    \/ Loop
    \/ \E k \in Closers : Close(k)

Spec == Init /\ [][Next]_vars

\* Every goroutine that can run does; the select of the loop takes the done
\* case if it keeps being ready; Produce and the producer's Close return.
Fairness ==
    /\ WF_vars(Loop) /\ SF_vars(LoopDone)
    /\ \A c \in Callers : WF_vars(RecordSend(c) \/ RecordDone(c) \/ RecordDrop(c))
    /\ \A k \in Closers : WF_vars(CloseSignal(k) \/ CloseWait(k) \/ CloseProducer(k))

FairSpec == Spec /\ Fairness

----------------------------------------------------------------------------
(* Properties.                                                              *)

\* Every Record call is accounted for: it is still running, its payload is
\* buffered, in produce(), produced or counted by Dropped or ProduceErrors, or
\* it returned because of done ("a record is never lost silently",
\* docs/architecture/dlq.md:18, and what the counters of dlq.Stats promise).
Accounting ==
    Cardinality(called) =
        Cardinality({c \in Callers : recording[c] # NoPayload}) + Len(ch)
        + (IF hold = NoPayload THEN 0 ELSE 1)
        + Len(produced) + dropped + produceErrors + refused

\* The loop never produces on a closed producer, and the producer is closed by
\* the one Close call that won the CompareAndSwap, after the loop is over.
ProducerOutlivesLoop ==
    /\ producerClosed => lpc = "exit" /\ hold = NoPayload
    /\ lpc = "exit" => done /\ hold = NoPayload
    /\ \A j, k \in Closers :
          cpc[j] \notin {"idle", "noop"} /\ cpc[k] \notin {"idle", "noop"} => j = k

\* "drains what is already buffered" (dlq.go:47), as far as it is kept: a payload
\* seen in the buffer before Close signals done is not in it when the loop has
\* ended, or at any time after.
DrainsBuffered ==
    \A p \in Payloads :
        []((~done /\ p \in Entries(ch)) => [](lpc = "exit" => p \notin Entries(ch)))

\* Close returns even while Record calls keep coming, or panics in producer.Close.
CloseReturns == \A k \in Closers : cpc[k] = "signal" ~> cpc[k] \in {"returned", "panic"}

\* "Close stops accepting new payloads, drains what is already buffered"
\* (dlq.go:47), of all payloads: not kept, see README.
NothingStranded == (\E k \in Closers : cpc[k] = "returned") => ch = <<>>
=============================================================================
