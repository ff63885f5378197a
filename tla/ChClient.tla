------------------------------ MODULE ChClient ------------------------------
(***************************************************************************)
(* The ClickHouse client, src/ch/client.go, around the writer it makes:    *)
(* queries share the connection and a sync.RWMutex with Close, Writer()    *)
(* makes the writer once, after it has given the lock back, and Close      *)
(* holds the lock while it closes the writer and then the connection.      *)
(*                                                                         *)
(* The client has a WriterConfig: without one Writer() only returns        *)
(* ErrWriterDisabled.  Query, QueryRow, Exec and Ping take the lock, test  *)
(* closed and call the connection in the same way: one Query stands for    *)
(* all.  The rows Query and QueryRow hand out go on reading from the       *)
(* connection when the lock is released.  Close marks the client closed    *)
(* whether conn.Close fails or not.                                        *)
(*                                                                         *)
(* Module DlqPipeline puts these steps in a next-state relation.           *)
(***************************************************************************)
EXTENDS ChWriter

CONSTANTS
    Queriers    \* goroutines that query; Closers call Client.Close, and only
                \* Client.Close calls Close on the writer

VARIABLES
    clientClosed,   \* the client's closed flag
    connClosed,     \* conn.Close() was called
    writerRef,      \* the field writer: nil, an interface half stored, set
    wpc,            \* [Writers -> program counter inside Client.Writer]
    qpc,            \* [Queriers -> inside Query, holding the read lock, or
                    \* reading the rows it returned, or neither]
    ccpc            \* [Closers -> program counter inside Client.Close]

clientVars == <<clientClosed, connClosed, writerRef, wpc, qpc, ccpc>>

ClientTypeOK ==
    /\ TypeOK
    /\ clientClosed \in BOOLEAN
    /\ connClosed \in BOOLEAN
    /\ writerRef \in {"nil", "torn", "set"}
    /\ wpc \in [Writers -> {"idle", "once", "making", "got", "refused"}]
    /\ qpc \in [Queriers -> {"idle", "query", "reading"}]
    /\ ccpc \in [Closers -> {"idle", "waiting", "writer", "conn", "returned", "noop", "panic"}]

ClientInit ==
    /\ Init
    /\ clientClosed = FALSE
    /\ connClosed = FALSE
    /\ writerRef = "nil"
    /\ wpc = [w \in Writers |-> "idle"]
    /\ qpc = [q \in Queriers |-> "idle"]
    /\ ccpc = [k \in Closers |-> "idle"]

----------------------------------------------------------------------------
(* The RWMutex.  A Lock that waits for the readers to leave keeps new       *)
(* readers out; a second Lock stays behind the first, as if not yet called. *)

Announced == \E k \in Closers : ccpc[k] \in {"waiting", "writer", "conn"}
CanRLock == ~Announced

\* No reader is inside.  Only Query holds the read lock across a call.
\* ReadersIgnored is a plain flag in the place of the lock.
ReadersIgnored == TRUE
NoReaders == \A q \in Queriers : qpc[q] # "query"

----------------------------------------------------------------------------
(* Queries.                                                                 *)

QueryCall(q) ==
    /\ qpc[q] = "idle"
    /\ CanRLock
    /\ ~clientClosed
    /\ qpc' = [qpc EXCEPT ![q] = "query"]
    /\ UNCHANGED <<vars, clientClosed, connClosed, writerRef, wpc, ccpc>>

\* The call returns and the lock is released: with rows still to be read (Query,
\* QueryRow), or with nothing (Exec, Ping, an error).
QueryReturn(q) ==
    /\ qpc[q] = "query"
    /\ \E next \in {"idle", "reading"} : qpc' = [qpc EXCEPT ![q] = next]
    /\ UNCHANGED <<vars, clientClosed, connClosed, writerRef, wpc, ccpc>>

\* The caller has read the rows or closed them; no lock is involved.
RowsClose(q) ==
    /\ qpc[q] = "reading"
    /\ qpc' = [qpc EXCEPT ![q] = "idle"]
    /\ UNCHANGED <<vars, clientClosed, connClosed, writerRef, wpc, ccpc>>

----------------------------------------------------------------------------
(* Writer(): test closed under the read lock, release it, then Once.Do.     *)

WriterCall(w) ==
    /\ wpc[w] = "idle"
    /\ CanRLock
    /\ wpc' = [wpc EXCEPT ![w] = IF clientClosed THEN "refused" ELSE "once"]
    /\ UNCHANGED <<vars, clientClosed, connClosed, writerRef, qpc, ccpc>>

\* The first caller stores the writer, two words, while Close may read them;
\* the others wait in Do until it has.
OnceStore(w) ==
    /\ wpc[w] = "once"
    /\ writerRef = "nil"
    /\ writerRef' = "torn"
    /\ wpc' = [wpc EXCEPT ![w] = "making"]
    /\ UNCHANGED <<vars, clientClosed, connClosed, qpc, ccpc>>

OnceReturn(w) ==
    /\ \/ wpc[w] = "making" /\ writerRef' = "set"
       \/ wpc[w] = "once" /\ writerRef = "set" /\ UNCHANGED writerRef
    /\ wpc' = [wpc EXCEPT ![w] = "got"]
    /\ UNCHANGED <<vars, clientClosed, connClosed, qpc, ccpc>>

----------------------------------------------------------------------------
(* Close.                                                                   *)

ClientClose(k) ==
    /\ ccpc[k] = "idle"
    /\ ~Announced
    /\ ccpc' = [ccpc EXCEPT ![k] = "waiting"]
    /\ UNCHANGED <<vars, clientClosed, connClosed, writerRef, wpc, qpc>>

\* What the test of c.writer leads to.  The half stored field reads as nil, or
\* as a writer without a pointer, on which Close panics; the panic unlocks.
CloseBranch ==
    CASE writerRef = "nil"  -> {"conn"}
      [] writerRef = "set"  -> {"writer"}
      [] writerRef = "torn" -> {"conn", "panic"}

\* Lock succeeds: a closed client is left as it is.
ClientLocked(k) ==
    /\ ccpc[k] = "waiting"
    /\ NoReaders
    /\ \E next \in IF clientClosed THEN {"noop"} ELSE CloseBranch :
          ccpc' = [ccpc EXCEPT ![k] = next]
    /\ UNCHANGED <<vars, clientClosed, connClosed, writerRef, wpc, qpc>>

\* The call of writer.Close by this Close has returned.  WriterSignalled is a
\* writer.Close started on a goroutine of its own.
WriterSignalled(k) == cpc[k] # "idle"
WriterReturned(k) == cpc[k] \in {"returned", "noop"}

ClientCloseWriter(k) ==
    /\ ccpc[k] = "writer"
    /\ \/ Close(k) /\ UNCHANGED ccpc
       \/ WriterReturned(k) /\ ccpc' = [ccpc EXCEPT ![k] = "conn"] /\ UNCHANGED vars
    /\ UNCHANGED <<clientClosed, connClosed, writerRef, wpc, qpc>>

\* conn.Close, closed = true, Unlock.
ClientCloseConn(k) ==
    /\ ccpc[k] = "conn"
    /\ connClosed' = TRUE
    /\ clientClosed' = TRUE
    /\ ccpc' = [ccpc EXCEPT ![k] = "returned"]
    /\ UNCHANGED <<vars, writerRef, wpc, qpc>>

----------------------------------------------------------------------------
(* The writer's own steps, through the reference Writer() gave out.         *)

\* An insert on a closed connection fails.
ConnOutcomes == IF connClosed THEN Outcomes \ {"ok", "unknown"} ELSE Outcomes

\* The insert, the hook and the rest of flush; the callback is the pipeline's.
ClientFlush ==
    \/ \E t \in Tables : FlushPick(t)
    \/ \E o \in ConnOutcomes : InsertAttempt(o)
    \/ Report \/ FlushReturn

WriterStep ==
    /\ \/ \E w \in Writers : wpc[w] = "got" /\ (Start \/ Write(w))
       \/ PumpStep \/ Tick \/ Age \/ Select \/ Drain \/ Refresher
       \/ ClientFlush
    /\ UNCHANGED clientVars

ClientStep ==
    \/ \E q \in Queriers : QueryCall(q) \/ QueryReturn(q) \/ RowsClose(q)
    \/ \E w \in Writers : WriterCall(w) \/ OnceStore(w) \/ OnceReturn(w)
    \/ \E k \in Closers :
          ClientClose(k) \/ ClientLocked(k) \/ ClientCloseWriter(k) \/ ClientCloseConn(k)

----------------------------------------------------------------------------
\* An orderly shutdown: a Client.Close found the writer and its call of
\* writer.Close was the one that closed it.
Orderly == \E k \in Closers : cpc[k] \notin {"idle", "noop"}

\* The connection is closed under no call of the client, which holds the lock
\* across it, and under no flush of a writer closed in order (writer.Close comes
\* before conn.Close).  Rows handed out are another matter: RowsReadable.
ConnOutlivesCalls ==
    connClosed =>
        /\ \A q \in Queriers : qpc[q] # "query"
        /\ Orderly => ~Flushing

\* What the documentation promises and the code does not keep: see README.
\* "Close closes the client and all associated resources" (client.go:169).
NoWriterLeftOpen == connClosed /\ writerRef = "set" => closed

\* Not kept: the lock is released when Query returns (client.go:106), and Close
\* closes the connection the rows are read from.
RowsReadable == connClosed => \A q \in Queriers : qpc[q] # "reading"

\* The same promise: no insert meets the connection already closed.
InsertsReachClickHouse == lpc = "insert" => ~connClosed
=============================================================================
