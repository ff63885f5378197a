-------------------------- MODULE ChWriter_proofs --------------------------
(***************************************************************************)
(* Proofs about ChWriter, for any number of writers, closers, rows and     *)
(* tables and any configuration Validate accepts, and about ChClient and   *)
(* DlqPipeline, which extend it, for any number of queries too and any     *)
(* buffer of the recorder.  What is proved of the writer cites the         *)
(* assumptions of ChWriter alone; only what is proved of the failed rows   *)
(* of a pipeline cites AppAssumption.                                      *)
(***************************************************************************)
EXTENDS DlqPipeline, SequenceTheorems, FiniteSetTheorems, WellFoundedInduction, TLAPS

(* TypeOK in parts, one per group of variables that change together.        *)

WriteTypes ==
    /\ pending \in [Writers -> Seq(Rows)]
    /\ result \in [Writers -> Results]
    /\ accepted \subseteq Rows

CloseTypes ==
    /\ closed \in BOOLEAN
    /\ done \in BOOLEAN
    /\ cpc \in [Closers -> {"idle", "signal", "closeIn", "wait", "returned", "noop"}]

LoopTypes ==
    /\ lpc \in {"off", "select", "drain", "flush", "insert", "reportOk", "reportErr", "fallback", "exit"}
    /\ buffer \in [Tables -> Seq(Rows)]
    /\ totalRows \in Nat
    /\ aged \in BOOLEAN
    /\ stopping \in BOOLEAN

FlushTypes ==
    /\ todo \subseteq Tables
    /\ table \in Tables \cup {NoTable}
    /\ attempt \in 0..MaxRetries
    /\ stored \in [Rows -> Copies]
    /\ reports \in Seq([table : Tables, rows : Seq(Rows), err : BOOLEAN])
    /\ handed \subseteq Rows

SignalTypes ==
    /\ tick \in BOOLEAN
    /\ rpc \in {"off", "wait", "refresh", "exit"}

\* The flush works on a table of the map from the moment it picks one.
TableChosen == lpc \in {"insert", "reportOk", "reportErr", "fallback"} => table \in Tables

Types ==
    /\ ChanTypeOK /\ WriteTypes /\ CloseTypes /\ LoopTypes /\ FlushTypes /\ SignalTypes
    /\ TableChosen

LEMMA TypesSplit == Types <=> TypeOK /\ TableChosen
BY DEF Types, TypeOK, WriteTypes, CloseTypes, LoopTypes, FlushTypes, SignalTypes

\* A step keeps the types of the groups it leaves alone.
LEMMA TypesUnchanged ==
    /\ ChanTypeOK /\ UNCHANGED chanVars => ChanTypeOK'
    /\ WriteTypes /\ UNCHANGED writeVars => WriteTypes'
    /\ CloseTypes /\ UNCHANGED closeVars => CloseTypes'
    /\ LoopTypes /\ UNCHANGED loopVars => LoopTypes'
    /\ FlushTypes /\ UNCHANGED flushVars => FlushTypes'
    /\ SignalTypes /\ UNCHANGED <<tick, rpc>> => SignalTypes'
    /\ TableChosen /\ UNCHANGED <<lpc, table>> => TableChosen'
<1>1. ChanTypeOK /\ UNCHANGED chanVars => ChanTypeOK'
  BY DEF ChanTypeOK, chanVars
<1>2. WriteTypes /\ UNCHANGED writeVars => WriteTypes'
  BY DEF WriteTypes, writeVars
<1>3. CloseTypes /\ UNCHANGED closeVars => CloseTypes'
  BY DEF CloseTypes, closeVars
<1>4. LoopTypes /\ UNCHANGED loopVars => LoopTypes'
  BY DEF LoopTypes, loopVars
<1>5. FlushTypes /\ UNCHANGED flushVars => FlushTypes'
  BY DEF FlushTypes, flushVars
<1>6. SignalTypes /\ UNCHANGED <<tick, rpc>> => SignalTypes'
  BY DEF SignalTypes
<1>7. TableChosen /\ UNCHANGED <<lpc, table>> => TableChosen'
  BY DEF TableChosen
<1>8. QED
  BY <1>1, <1>2, <1>3, <1>4, <1>5, <1>6, <1>7

LEMMA TypesInit == Init => Types
<1> SUFFICES ASSUME Init PROVE Types
  OBVIOUS
<1>1. ChanTypeOK
  BY EmptySeq DEF Init, ChanInit, ChanTypeOK
<1>2. WriteTypes
  BY EmptySeq DEF Init, WriteTypes, Results
<1>3. CloseTypes
  BY DEF Init, CloseTypes
<1>4. LoopTypes
  BY EmptySeq DEF Init, LoopTypes, EmptyBuffer
<1>5. FlushTypes
  <2>1. NoCopy \in Copies
    BY DEF NoCopy, Copies
  <2>2. QED
    BY <2>1, EmptySeq, ConfigAssumption DEF Init, FlushTypes, ConfigAssumption
<1>6. SignalTypes /\ TableChosen
  BY DEF Init, SignalTypes, TableChosen
<1>7. QED
  BY <1>1, <1>2, <1>3, <1>4, <1>5, <1>6 DEF Types

\* The calls of Write: they touch the channel's In end and their own state.
LEMMA TypesWrite ==
    ASSUME Types, NEW w \in Writers, Write(w)
    PROVE  Types'
<1> USE DEF Types
<1>1. ASSUME NEW rows \in Calls, WriteCall(w, rows)
      PROVE  Types'
  <2>1. rows \in Seq(Rows)
    BY RowsAssumption DEF RowsAssumption
  <2>2. [pending EXCEPT ![w] = rows] \in [Writers -> Seq(Rows)]
    BY <2>1 DEF WriteTypes
  <2>3. [result EXCEPT ![w] = "closed"] \in [Writers -> Results]
    BY DEF WriteTypes, Results
  <2>4. WriteTypes'
    BY <1>1, <2>2, <2>3 DEF WriteCall, WriteTypes
  <2>5. QED
    BY <1>1, <2>4, TypesUnchanged DEF WriteCall, loopVars, flushVars
<1>2. CASE WriteSend(w)
  <2>1. pending[w] \in Seq(Rows) /\ pending[w] # <<>>
    BY <1>2 DEF WriteSend, WriteTypes
  <2>2. Head(pending[w]) \in Rows /\ Tail(pending[w]) \in Seq(Rows)
    BY <2>1, HeadTailProperties
  <2>3. ChanTypeOK'
    BY <1>2, <2>2, AppendProperties DEF WriteSend, ChanTypeOK
  <2>4. [pending EXCEPT ![w] = Tail(@)] \in [Writers -> Seq(Rows)]
    BY <2>2 DEF WriteTypes
  <2>5. [result EXCEPT ![w] = "ok"] \in [Writers -> Results]
    BY DEF WriteTypes, Results
  <2>6. WriteTypes'
    BY <1>2, <2>2, <2>4, <2>5 DEF WriteSend, WriteTypes
  <2>7. QED
    BY <1>2, <2>3, <2>6, TypesUnchanged DEF WriteSend, loopVars, flushVars
<1>3. ASSUME NEW how \in Results, WriteEnds(w, how)
      PROVE  Types'
  <2>1. [pending EXCEPT ![w] = <<>>] \in [Writers -> Seq(Rows)]
    BY EmptySeq DEF WriteTypes
  <2>2. WriteTypes'
    BY <1>3, <2>1 DEF WriteEnds, WriteTypes
  <2>3. QED
    BY <1>3, <2>2, TypesUnchanged DEF WriteEnds, loopVars, flushVars
<1>4. QED
  BY <1>1, <1>2, <1>3 DEF Write, WriteCancelled, WriteFull, WritePanic, Results

\* The calls of Close.
LEMMA TypesClose ==
    ASSUME Types, NEW k \in Closers, Close(k)
    PROVE  Types'
<1> USE DEF Types
<1>1. UNCHANGED <<writeVars, flushVars, loopVars, tick, rpc>>
  BY DEF Close, CloseCAS, CloseSignal, CloseIn, CloseWait
<1>2. ChanTypeOK'
  BY DEF Close, CloseCAS, CloseSignal, CloseIn, CloseWait, chanVars, ChanTypeOK
<1>3. CloseTypes'
  <2>1. CASE CloseCAS(k)
    BY <2>1 DEF CloseCAS, CloseTypes
  <2>2. CASE CloseSignal(k) \/ CloseIn(k) \/ CloseWait(k)
    BY <2>2 DEF CloseSignal, CloseIn, CloseWait, CloseTypes
  <2>3. QED
    BY <2>1, <2>2 DEF Close
<1>4. QED
  BY <1>1, <1>2, <1>3, TypesUnchanged DEF loopVars, flushVars

\* The pump only moves rows inside the channel.
LEMMA TypesPump ==
    ASSUME Types, PumpStep
    PROVE  Types'
<1> USE DEF Types
<1>1. ChanTypeOK'
  <2>1. CASE PumpReceive
    <3>1. Head(chIn) \in Rows /\ Tail(chIn) \in Seq(Rows)
      BY <2>1, HeadTailProperties DEF PumpReceive, ChanTypeOK
    <3>2. Append(chOut, Head(chIn)) \in Seq(Rows) /\ Append(chBuf, Head(chIn)) \in Seq(Rows)
      BY <3>1, AppendProperties DEF ChanTypeOK
    <3>3. QED
      BY <2>1, <3>1, <3>2 DEF PumpReceive, ChanTypeOK
  <2>2. CASE PumpSend
    <3>1. Head(chBuf) \in Rows /\ Tail(chBuf) \in Seq(Rows)
      BY <2>2, HeadTailProperties DEF PumpSend, ChanTypeOK
    <3>2. Append(chOut, Head(chBuf)) \in Seq(Rows)
      BY <3>1, AppendProperties DEF ChanTypeOK
    <3>3. QED
      BY <2>2, <3>1, <3>2 DEF PumpSend, ChanTypeOK
  <2>3. CASE PumpClose
    BY <2>3 DEF PumpClose, ChanTypeOK
  <2>4. QED
    BY <2>1, <2>2, <2>3 DEF PumpStep, Pump
<1>2. QED
  BY <1>1, TypesUnchanged DEF PumpStep, loopVars, flushVars

\* The process loop outside flush.
LEMMA TypesLoop ==
    ASSUME Types, Start \/ Tick \/ Age \/ Select \/ Drain
    PROVE  Types'
<1> USE DEF Types
<1>1. CASE Start
  BY <1>1, TypesUnchanged DEF Start, LoopTypes, SignalTypes, TableChosen
<1>2. CASE Tick \/ Age
  BY <1>2, TypesUnchanged DEF Tick, Age, LoopTypes, SignalTypes, loopVars, flushVars
<1>3. CASE LoopReceive \/ DrainReceive
  <2>1. Head(chOut) \in Rows /\ Tail(chOut) \in Seq(Rows)
    BY <1>3, HeadTailProperties DEF LoopReceive, DrainReceive, ChanTypeOK
  <2>2. ChanTypeOK'
    BY <1>3, <2>1 DEF LoopReceive, DrainReceive, ChanTypeOK
  <2>3. Take(Head(chOut)) \in [Tables -> Seq(Rows)]
    <3>1. TableOf[Head(chOut)] \in Tables
      BY <2>1, RowsAssumption DEF RowsAssumption
    <3>2. Append(buffer[TableOf[Head(chOut)]], Head(chOut)) \in Seq(Rows)
      BY <2>1, <3>1, AppendProperties DEF LoopTypes
    <3>3. QED
      BY <3>2 DEF Take, LoopTypes
  <2>4. buffer' \in [Tables -> Seq(Rows)] /\ totalRows' \in Nat
    <3>1. \/ buffer' = Take(Head(chOut)) /\ totalRows' = totalRows + 1
          \/ UNCHANGED <<buffer, totalRows>>
      BY <1>3 DEF LoopReceive, DrainReceive, loopVars
    <3>2. QED
      BY <2>3, <3>1 DEF LoopTypes
  <2>5. /\ lpc' \in {"select", "drain", "flush"}
        /\ aged' \in BOOLEAN
        /\ stopping' = stopping
        /\ todo' \subseteq Tables
    BY <1>3 DEF LoopReceive, DrainReceive, BeginFlush, Keys, loopVars, flushVars, LoopTypes, FlushTypes
  <2>6. UNCHANGED <<writeVars, closeVars, table, attempt, stored, reports, handed, tick, rpc>>
    BY <1>3 DEF LoopReceive, DrainReceive, flushVars
  <2>7. LoopTypes' /\ TableChosen'
    BY <2>4, <2>5 DEF LoopTypes, TableChosen
  <2>8. FlushTypes'
    BY <2>5, <2>6 DEF FlushTypes
  <2>9. QED
    BY <2>2, <2>6, <2>7, <2>8, TypesUnchanged
<1>4. CASE LoopOutClosed \/ LoopTick \/ LoopDone \/ DrainDefault
  <2>1. /\ lpc' \in {"select", "drain", "flush", "exit"}
        /\ UNCHANGED <<buffer, totalRows, aged>>
        /\ stopping' \in {stopping, TRUE}
    BY <1>4 DEF LoopOutClosed, LoopTick, LoopDone, DrainDefault, BeginFlush
  <2>2. todo' \in {todo, Keys(buffer)} /\ tick' \in {tick, FALSE}
    BY <1>4 DEF LoopOutClosed, LoopTick, LoopDone, DrainDefault, BeginFlush, flushVars
  <2>3. UNCHANGED <<chanVars, writeVars, closeVars, table, attempt, stored, reports, handed, rpc>>
    BY <1>4 DEF LoopOutClosed, LoopTick, LoopDone, DrainDefault, BeginFlush, flushVars
  <2>4. LoopTypes' /\ TableChosen'
    BY <2>1 DEF LoopTypes, TableChosen
  <2>5. FlushTypes'
    BY <2>2, <2>3 DEF FlushTypes, Keys
  <2>6. SignalTypes'
    BY <2>2, <2>3 DEF SignalTypes
  <2>7. QED
    BY <2>3, <2>4, <2>5, <2>6, TypesUnchanged
<1>5. QED
  BY <1>1, <1>2, <1>3, <1>4 DEF Select, Drain

\* The steps of flush.
LEMMA TypesFlush ==
    ASSUME Types, Flush
    PROVE  Types'
<1> USE DEF Types
<1>1. UNCHANGED <<chanVars, writeVars, closeVars, tick, rpc>>
  BY DEF Flush, FlushPick, InsertAttempt, Report, CallFallback, FlushReturn
<1>2. /\ lpc' \in {"flush", "insert", "reportOk", "reportErr", "fallback", "select", "exit"}
      /\ stopping' = stopping
      /\ aged' \in {aged, FALSE}
      /\ totalRows' \in {totalRows, 0}
  <2>1. ASSUME NEW t \in Tables, FlushPick(t)
        PROVE  lpc' = "insert" /\ UNCHANGED <<stopping, aged, totalRows>>
    BY <2>1 DEF FlushPick
  <2>2. ASSUME NEW o \in Outcomes, InsertAttempt(o)
        PROVE  lpc' \in {"insert", "reportOk", "reportErr"} /\ UNCHANGED <<stopping, aged, totalRows>>
    BY <2>2 DEF InsertAttempt
  <2>3. CASE Report
    BY <2>3 DEF Report
  <2>4. CASE CallFallback
    BY <2>4 DEF CallFallback
  <2>5. CASE FlushReturn
    BY <2>5 DEF FlushReturn
  <2>6. QED
    BY <2>1, <2>2, <2>3, <2>4, <2>5 DEF Flush
<1>3. buffer' \in [Tables -> Seq(Rows)]
  <2>1. EmptyBuffer \in [Tables -> Seq(Rows)]
    BY EmptySeq DEF EmptyBuffer
  <2>2. QED
    BY <2>1 DEF Flush, FlushPick, InsertAttempt, Report, CallFallback, FlushReturn, NewBatch, LoopTypes
<1>4. TableChosen' /\ table' \in Tables \cup {NoTable}
  BY DEF Flush, FlushPick, InsertAttempt, Report, CallFallback, FlushReturn, FlushTypes, TableChosen
<1>5. todo' \subseteq Tables
  BY DEF Flush, FlushPick, InsertAttempt, Report, CallFallback, FlushReturn, FlushTypes
<1>6. attempt' \in 0..MaxRetries
  <2>1. ASSUME NEW o \in Outcomes, InsertAttempt(o)
        PROVE  attempt' \in 0..MaxRetries
    BY <2>1, ConfigAssumption DEF InsertAttempt, Retry, ConfigAssumption, FlushTypes
  <2>2. QED
    BY <2>1, ConfigAssumption
    DEF Flush, FlushPick, Report, CallFallback, FlushReturn, ConfigAssumption, FlushTypes
<1>7. stored' \in [Rows -> Copies]
  <2>1. ASSUME NEW o \in Outcomes, InsertAttempt(o)
        PROVE  stored' \in [Rows -> Copies]
    <3>1. \A r \in Rows : stored[r] \in Copies
      BY DEF FlushTypes
    <3>2. ASSUME NEW r \in Rows PROVE Persist(stored[r], o) \in Copies
      BY <3>1, <3>2 DEF Persist, Copies
    <3> QED
      BY <2>1, <3>1, <3>2 DEF InsertAttempt
  <2>2. QED
    BY <2>1 DEF Flush, FlushPick, Report, CallFallback, FlushReturn, FlushTypes
<1>8. reports' \in Seq([table : Tables, rows : Seq(Rows), err : BOOLEAN])
  <2>1. CASE Report
    <3>1. table \in Tables /\ buffer[table] \in Seq(Rows)
      BY <2>1 DEF Report, TableChosen, LoopTypes
    <3>2. [table |-> table, rows |-> buffer[table], err |-> lpc = "reportErr"]
             \in [table : Tables, rows : Seq(Rows), err : BOOLEAN]
      BY <3>1
    <3>3. QED
      BY <2>1, <3>2, AppendProperties DEF Report, FlushTypes
  <2>2. QED
    BY <2>1 DEF Flush, FlushPick, InsertAttempt, CallFallback, FlushReturn, FlushTypes
<1>9. handed' \subseteq Rows
  <2>1. CASE CallFallback
    <3>1. buffer[table] \in Seq(Rows)
      BY <2>1 DEF CallFallback, TableChosen, LoopTypes
    <3>2. RowsIn(buffer[table]) \subseteq Rows
      BY <3>1, ElementOfSeq, LenProperties DEF RowsIn
    <3>3. QED
      BY <2>1, <3>2 DEF CallFallback, FlushTypes
  <2>2. QED
    BY <2>1 DEF Flush, FlushPick, InsertAttempt, Report, FlushReturn, FlushTypes
<1>10. LoopTypes' /\ FlushTypes'
  <2>1. aged' \in BOOLEAN /\ stopping' \in BOOLEAN
    BY <1>2, Zenon DEF LoopTypes
  <2>2. totalRows' \in Nat
    BY <1>2 DEF LoopTypes
  <2>3. LoopTypes'
    BY <1>2, <1>3, <2>1, <2>2 DEF LoopTypes
  <2>4. FlushTypes'
    BY <1>4, <1>5, <1>6, <1>7, <1>8, <1>9 DEF FlushTypes
  <2>5. QED
    BY <2>3, <2>4
<1>11. QED
  BY <1>1, <1>4, <1>10, TypesUnchanged

LEMMA TypesHold == Spec => []Types
<1>1. Types /\ [Next]_vars => Types'
  <2> SUFFICES ASSUME Types, [Next]_vars PROVE Types'
    OBVIOUS
  <2>1. CASE Refresher
    BY <2>1, TypesUnchanged
    DEF Types, SignalTypes, Refresher, RefreshTick, RefreshReturn, RefreshDone, loopVars, flushVars
  <2>2. CASE UNCHANGED vars
    BY <2>2, TypesUnchanged DEF Types, vars, loopVars, flushVars
  <2>3. QED
    BY <2>1, <2>2, TypesWrite, TypesClose, TypesPump, TypesLoop, TypesFlush DEF Next
<1>2. QED
  BY <1>1, TypesInit, PTL DEF Spec

\* Every variable keeps its type: above all, the retry counter stays within
\* MaxRetries and a flush reports rows of the table it works on.
THEOREM TypeCorrect == Spec => []TypeOK
BY TypesHold, TypesSplit, PTL

----------------------------------------------------------------------------
(* After Close.                                                             *)

EmptyChannel == chIn = <<>> /\ chBuf = <<>> /\ chOut = <<>>

\* QuietAfterClose is inductive together with why Close can return early: a
\* writer that was never started holds no row, and one whose channel is closed
\* receives none, so a loop started after Close finds nothing to flush.
CloseInv ==
    /\ \A k \in Closers : cpc[k] \in {"wait", "returned"} => inClosed
    /\ lpc = "off" => EmptyChannel /\ totalRows = 0 /\ \A w \in Writers : pending[w] = <<>>
    /\ CloseReturned =>
          \/ lpc = "exit"
          \/ lpc \in {"off", "select", "drain"} /\ EmptyChannel /\ totalRows = 0

\* Every step keeps CloseInv; <1>2 is what the steps outside Close share.
LEMMA CloseInvStep ==
    ASSUME Types, CloseInv, [Next]_vars
    PROVE  CloseInv'
<1>1. ASSUME NEW k \in Closers, Close(k)
      PROVE  CloseInv'
  <2>1. UNCHANGED <<chIn, chBuf, chOut, totalRows, lpc, pending>>
    BY <1>1 DEF Close, CloseCAS, CloseSignal, CloseIn, CloseWait, chanVars, writeVars, loopVars
  <2>2. \A j \in Closers : cpc'[j] \in {"wait", "returned"} => inClosed'
    BY <1>1 DEF Close, CloseCAS, CloseSignal, CloseIn, CloseWait, CloseInv, Types, CloseTypes, chanVars
  <2>3. CloseReturned' => CloseReturned \/ lpc \in {"off", "exit"}
    BY <1>1 DEF Close, CloseCAS, CloseSignal, CloseIn, CloseWait, CloseReturned, LoopsEnded,
                Types, CloseTypes
  <2>4. QED
    BY <2>1, <2>2, <2>3 DEF CloseInv, EmptyChannel
<1>2. ASSUME UNCHANGED cpc, inClosed' = inClosed,
             lpc = "off" => UNCHANGED <<chIn, chBuf, chOut, totalRows, pending>>,
             lpc' = "off" => lpc = "off",
             CloseReturned =>
                \/ UNCHANGED lpc \/ lpc' \in {"select", "drain", "exit"},
             CloseReturned /\ lpc # "exit" => UNCHANGED <<chIn, chBuf, chOut, totalRows>>,
             lpc = "exit" => lpc' = "exit"
      PROVE  CloseInv'
  <2>1. CloseReturned' <=> CloseReturned
    BY <1>2 DEF CloseReturned
  <2>2. QED
    BY <1>2, <2>1 DEF CloseInv, EmptyChannel
<1>3. ASSUME NEW w \in Writers, Write(w)
      PROVE  CloseInv'
  <2>1. UNCHANGED <<cpc, inClosed, chBuf, chOut, totalRows, lpc>>
    BY <1>3 DEF Write, WriteCall, WriteSend, WriteCancelled, WriteFull, WritePanic, WriteEnds,
                chanVars, closeVars, loopVars
  <2>2. lpc # "off"
    BY <1>3 DEF Write, WriteCall, WriteSend, WriteCancelled, WriteFull, WritePanic, WriteEnds, CloseInv
  <2>3. CloseReturned => inClosed
    BY DEF CloseInv, CloseReturned
  <2>4. inClosed => chIn' = chIn
    BY <1>3 DEF Write, WriteCall, WriteSend, WriteCancelled, WriteFull, WritePanic, WriteEnds, chanVars
  <2>5. QED
    BY <1>2, <2>1, <2>2, <2>3, <2>4
<1>4. CASE PumpStep
  <2>1. UNCHANGED <<cpc, inClosed, totalRows, lpc, pending>>
    BY <1>4 DEF PumpStep, Pump, PumpReceive, PumpSend, PumpClose, closeVars, loopVars, writeVars
  <2>2. EmptyChannel => UNCHANGED <<chIn, chBuf, chOut>>
    BY <1>4 DEF PumpStep, Pump, PumpReceive, PumpSend, PumpClose, EmptyChannel
  <2>3. lpc = "off" \/ (CloseReturned /\ lpc # "exit") => EmptyChannel
    BY DEF CloseInv
  <2>4. QED
    BY <1>2, <2>1, <2>2, <2>3
<1>5. CASE Start
  BY <1>2, <1>5 DEF Start, chanVars, writeVars, closeVars
<1>6. CASE Tick \/ Age \/ Refresher
  BY <1>2, <1>6 DEF Tick, Age, Refresher, RefreshTick, RefreshReturn, RefreshDone,
                    chanVars, writeVars, closeVars, loopVars
<1>7. CASE LoopReceive \/ DrainReceive
  <2>1. lpc \in {"select", "drain"} /\ chOut # <<>>
    BY <1>7 DEF LoopReceive, DrainReceive
  <2>2. ~CloseReturned
    BY <2>1 DEF CloseInv, EmptyChannel
  <2>3. UNCHANGED <<cpc, inClosed>> /\ lpc' \in {"select", "drain", "flush"}
    BY <1>7 DEF LoopReceive, DrainReceive, BeginFlush, closeVars, loopVars
  <2>4. QED
    BY <1>2, <2>1, <2>2, <2>3
<1>8. CASE LoopOutClosed \/ LoopTick \/ LoopDone \/ DrainDefault
  <2>1. UNCHANGED <<cpc, inClosed, chIn, chBuf, chOut, totalRows, pending>>
    BY <1>8 DEF LoopOutClosed, LoopTick, LoopDone, DrainDefault, chanVars, closeVars, writeVars
  <2>2. lpc \in {"select", "drain"} /\ lpc' \in {"select", "drain", "flush", "exit"}
    BY <1>8 DEF LoopOutClosed, LoopTick, LoopDone, DrainDefault, BeginFlush
  <2>3. ~ (totalRows > 0) => lpc' # "flush"
    BY <1>8 DEF LoopOutClosed, LoopTick, LoopDone, DrainDefault
  <2>4. CloseReturned => totalRows = 0
    BY <2>2 DEF CloseInv
  <2>5. QED
    BY <1>2, <2>1, <2>2, <2>3, <2>4
<1>9. CASE Flush
  <2>1. lpc \in {"flush", "insert", "reportOk", "reportErr", "fallback"}
    BY <1>9 DEF Flush, FlushPick, InsertAttempt, Report, CallFallback, FlushReturn
  <2>2. ~CloseReturned
    BY <2>1 DEF CloseInv
  <2>3. UNCHANGED <<cpc, inClosed>>
    BY <1>9 DEF Flush, FlushPick, InsertAttempt, Report, CallFallback, FlushReturn, chanVars, closeVars
  <2>4. lpc' # "off"
    BY <1>9 DEF Flush, FlushPick, InsertAttempt, Report, CallFallback, FlushReturn
  <2>5. QED
    BY <1>2, <2>1, <2>2, <2>3, <2>4
<1>10. CASE UNCHANGED vars
  BY <1>2, <1>10 DEF vars, chanVars, writeVars, closeVars, loopVars
<1>11. QED
  BY <1>1, <1>3, <1>4, <1>5, <1>6, <1>7, <1>8, <1>9, <1>10 DEF Next, Select, Drain

LEMMA CloseInvHolds == Spec => []CloseInv
<1>1. Init => CloseInv
  BY DEF Init, ChanInit, CloseInv, CloseReturned, EmptyChannel
<1>2. QED
  BY <1>1, CloseInvStep, TypesHold, PTL DEF Spec

\* Once the working Close call has returned, no OnFlush call, no call of the
\* fallback and no insert follows, in whatever order Start, Write and Close came.
THEOREM QuietAfterCloseHolds == Spec => QuietAfterClose
<1>1. CloseInv /\ [Next]_vars => [CloseReturned => UNCHANGED <<reports, handed, stored>>]_vars
  <2> SUFFICES ASSUME CloseInv, Next, CloseReturned
               PROVE  UNCHANGED <<reports, handed, stored>>
    OBVIOUS
  <2>1. ~Flush
    BY DEF CloseInv, Flush, FlushPick, InsertAttempt, Report, CallFallback, FlushReturn
  <2>2. CASE \E w \in Writers : Write(w)
    BY <2>2 DEF Write, WriteCall, WriteSend, WriteCancelled, WriteFull, WritePanic, WriteEnds, flushVars
  <2>3. CASE \E k \in Closers : Close(k)
    BY <2>3 DEF Close, CloseCAS, CloseSignal, CloseIn, CloseWait, flushVars
  <2>4. CASE Start \/ PumpStep \/ Tick \/ Age \/ Refresher
    BY <2>4 DEF Start, PumpStep, Tick, Age, Refresher, RefreshTick, RefreshReturn, RefreshDone, flushVars
  <2>5. CASE Select \/ Drain
    BY <2>5 DEF Select, Drain, LoopReceive, LoopOutClosed, LoopTick, LoopDone, DrainReceive,
                DrainDefault, flushVars
  <2>6. QED
    BY <2>1, <2>2, <2>3, <2>4, <2>5 DEF Next
<1>2. QED
  BY <1>1, CloseInvHolds, PTL DEF Spec, QuietAfterClose

----------------------------------------------------------------------------
(* The loop's batch.                                                        *)

\* BatchAccounting, which a loop not yet started satisfies with no row at all.
BatchInv == BatchAccounting /\ (lpc = "off" => totalRows = 0)

LEMMA BatchInvStep ==
    ASSUME Types, BatchInv, [Next]_vars
    PROVE  BatchInv'
<1> USE ConfigAssumption DEF ConfigAssumption, BatchInv, BatchAccounting, Flushing, Types, LoopTypes
<1>1. ASSUME UNCHANGED loopVars
      PROVE  BatchInv'
  BY <1>1 DEF loopVars
<1>2. CASE (\E w \in Writers : Write(w)) \/ (\E k \in Closers : Close(k))
            \/ PumpStep \/ Tick \/ Refresher \/ UNCHANGED vars
  <2>1. UNCHANGED loopVars
    BY <1>2 DEF Write, WriteCall, WriteSend, WriteCancelled, WriteFull, WritePanic, WriteEnds, Close,
                CloseCAS, CloseSignal, CloseIn, CloseWait, PumpStep, Tick, Refresher, RefreshTick,
                RefreshReturn, RefreshDone, vars
  <2>2. QED
    BY <1>1, <2>1
<1>3. CASE Start
  BY <1>3 DEF Start
<1>4. CASE Age
  BY <1>4 DEF Age
<1>5. CASE LoopReceive \/ DrainReceive
  <2>1. CASE Head(chOut) \in NilRows
    BY <1>1, <1>5, <2>1 DEF LoopReceive, DrainReceive, loopVars
  <2>2. CASE Head(chOut) \notin NilRows
    <3>1. Head(chOut) \in Rows
      BY <1>5, HeadTailProperties DEF LoopReceive, DrainReceive, ChanTypeOK
    <3>2. TableOf[Head(chOut)] \in Tables
      BY <3>1, RowsAssumption DEF RowsAssumption
    <3>3. Take(Head(chOut))[TableOf[Head(chOut)]] # <<>>
      BY <3>1, <3>2, AppendProperties DEF Take
    <3>4. buffer' = Take(Head(chOut)) /\ totalRows' = totalRows + 1
      BY <1>5, <2>2 DEF LoopReceive, DrainReceive
    <3>5. \E t \in Tables : buffer'[t] # <<>>
      BY <3>2, <3>3, <3>4
    <3>6. /\ lpc' \in {"select", "drain", "flush"}
          /\ lpc' = "select" => totalRows + 1 < FlushSize
      <4>1. CASE DrainReceive
        BY <4>1 DEF DrainReceive
      <4>2. CASE LoopReceive /\ Full(totalRows + 1)
        BY <2>2, <4>2 DEF LoopReceive, BeginFlush
      <4>3. CASE LoopReceive /\ ~Full(totalRows + 1)
        <5>1. lpc' = "select"
          BY <2>2, <4>3 DEF LoopReceive
        <5>2. totalRows + 1 < FlushSize
          BY <4>3 DEF Full
        <5>3. QED
          BY <5>1, <5>2
      <4>4. QED
        BY <1>5, <4>1, <4>2, <4>3
    <3>7. totalRows' = totalRows + 1 /\ totalRows' # 0
      BY <3>4
    <3>8. BatchAccounting'
      BY <3>5, <3>6, <3>7
    <3>9. QED
      BY <3>6, <3>8
  <2>3. QED
    BY <2>1, <2>2
<1>6. CASE LoopOutClosed \/ LoopTick \/ LoopDone \/ DrainDefault
  <2>1. /\ UNCHANGED <<buffer, totalRows, aged>>
        /\ lpc \in {"select", "drain"}
        /\ lpc' \in {"select", "drain", "flush", "exit"}
        /\ lpc' = "select" => lpc = "select"
    BY <1>6 DEF LoopOutClosed, LoopTick, LoopDone, DrainDefault, BeginFlush
  <2>2. QED
    BY <2>1
<1>7. CASE Flush
  <2>1. CASE FlushReturn
    BY <2>1 DEF FlushReturn, NewBatch
  <2>2. CASE ~FlushReturn
    <3>1. UNCHANGED <<buffer, totalRows, aged>>
      BY <1>7, <2>2 DEF Flush, FlushPick, InsertAttempt, Report, CallFallback
    <3>2. lpc' \in {"flush", "insert", "reportOk", "reportErr", "fallback"}
      BY <1>7, <2>2 DEF Flush, FlushPick, InsertAttempt, Report, CallFallback
    <3>3. QED
      BY <3>1, <3>2
  <2>3. QED
    BY <2>1, <2>2
<1>8. QED
  BY <1>2, <1>3, <1>4, <1>5, <1>6, <1>7 DEF Next, Select, Drain

\* The loop never waits in select with a batch that should be flushed, and its
\* row count and its map agree on emptiness at every step: the branches that
\* trust totalRows skip no row.
THEOREM BatchAccountingHolds == Spec => []BatchAccounting
<1>1. Init => BatchInv
  BY ConfigAssumption DEF Init, BatchInv, BatchAccounting, Flushing, ConfigAssumption
<1>2. BatchInv => BatchAccounting
  BY DEF BatchInv
<1>3. QED
  BY <1>1, <1>2, BatchInvStep, TypesHold, PTL DEF Spec

----------------------------------------------------------------------------
(* Permanent failures.                                                      *)

\* FailedRowsHanded at every moment: a report with an error has been followed
\* by its fallback call, unless it is the last one and the call is next.
HandedInv ==
    Fallback =>
        \A i \in DOMAIN reports : reports[i].err =>
            \/ RowsIn(reports[i].rows) \subseteq handed
            \/ lpc = "fallback" /\ reports[i].rows = buffer[table]

LEMMA HandedInvStep ==
    ASSUME Types, HandedInv, [Next]_vars
    PROVE  HandedInv'
<1>1. ASSUME UNCHANGED <<reports, handed>>,
             lpc = "fallback" => UNCHANGED <<lpc, buffer, table>>
      PROVE  HandedInv'
  BY <1>1 DEF HandedInv
<1>2. CASE Report
  <2> DEFINE new == [table |-> table, rows |-> buffer[table], err |-> lpc = "reportErr"]
  <2>1. /\ reports' = Append(reports, new)
        /\ UNCHANGED <<handed, buffer, table>>
        /\ lpc # "fallback"
        /\ lpc = "reportErr" /\ Fallback => lpc' = "fallback"
    BY <1>2 DEF Report, loopVars
  <2>2. /\ DOMAIN reports' = DOMAIN reports \cup {Len(reports) + 1}
        /\ \A i \in DOMAIN reports : reports'[i] = reports[i]
        /\ reports'[Len(reports) + 1] = new
    <3>1. reports \in Seq([table : Tables, rows : Seq(Rows), err : BOOLEAN])
      BY DEF Types, FlushTypes
    <3>2. QED
      BY <2>1, <3>1
  <2>3. new.err => lpc = "reportErr"
    OBVIOUS
  <2>4. new.rows = buffer'[table']
    BY <2>1
  <2>5. QED
    BY <2>1, <2>2, <2>3, <2>4 DEF HandedInv
<1>3. CASE CallFallback
  BY <1>3 DEF CallFallback, HandedInv
<1>4. CASE (\E t \in Tables : FlushPick(t)) \/ (\E o \in Outcomes : InsertAttempt(o)) \/ FlushReturn
  BY <1>1, <1>4 DEF FlushPick, InsertAttempt, FlushReturn
<1>5. CASE Select \/ Drain \/ Start
  <2>1. UNCHANGED <<reports, handed>>
    BY <1>5 DEF Select, Drain, Start, LoopReceive, LoopOutClosed, LoopTick, LoopDone, DrainReceive,
                DrainDefault, flushVars
  <2>2. lpc # "fallback"
    BY <1>5 DEF Select, Drain, Start, LoopReceive, LoopOutClosed, LoopTick, LoopDone, DrainReceive,
                DrainDefault
  <2>3. QED
    BY <1>1, <2>1, <2>2
<1>6. CASE (\E w \in Writers : Write(w)) \/ (\E k \in Closers : Close(k))
            \/ PumpStep \/ Tick \/ Age \/ Refresher \/ UNCHANGED vars
  <2>1. UNCHANGED <<flushVars, lpc, buffer>>
    BY <1>6 DEF Write, WriteCall, WriteSend, WriteCancelled, WriteFull, WritePanic, WriteEnds, Close,
                CloseCAS, CloseSignal, CloseIn, CloseWait, PumpStep, Tick, Age, Refresher, RefreshTick,
                RefreshReturn, RefreshDone, vars, loopVars
  <2>2. QED
    BY <1>1, <2>1 DEF flushVars
<1>7. QED
  BY <1>2, <1>3, <1>4, <1>5, <1>6 DEF Next, Flush

\* When Close has returned, every row of every failed flush has been handed to
\* OnPermanentFailure, so its owner may close the recorder behind it.
THEOREM FailedRowsHandedHolds == Spec => []FailedRowsHanded
<1>1. Init => HandedInv
  BY DEF Init, HandedInv
<1>2. CloseInv /\ HandedInv => FailedRowsHanded
  BY DEF CloseInv, HandedInv, FailedRowsHanded
<1>3. QED
  BY <1>1, <1>2, HandedInvStep, CloseInvHolds, TypesHold, PTL DEF Spec

----------------------------------------------------------------------------
(* Rows in sequences.                                                       *)

Distinct(s) == \A i, j \in DOMAIN s : s[i] = s[j] => i = j

\* A sequence grows at its end.
LEMMA AppendRow ==
    ASSUME NEW S, NEW s \in Seq(S), NEW x \in S
    PROVE  /\ RowsIn(Append(s, x)) = RowsIn(s) \cup {x}
           /\ Distinct(s) /\ x \notin RowsIn(s) => Distinct(Append(s, x))
<1> DEFINE a == Append(s, x)
<1>1. /\ Len(s) \in Nat /\ DOMAIN s = 1..Len(s) /\ DOMAIN a = 1..(Len(s) + 1)
      /\ \A i \in 1..Len(s) : a[i] = s[i]
      /\ a[Len(s) + 1] = x
  BY AppendProperties, LenProperties
<1> HIDE DEF a
<1>2. RowsIn(a) = RowsIn(s) \cup {x}
  BY <1>1 DEF RowsIn
<1>3. Distinct(s) /\ x \notin RowsIn(s) => Distinct(a)
  BY <1>1 DEF RowsIn, Distinct
<1> QED BY <1>2, <1>3 DEF a

\* A sequence loses its head.
LEMMA TailRow ==
    ASSUME NEW S, NEW s \in Seq(S), s # <<>>
    PROVE  /\ RowsIn(s) = {Head(s)} \cup RowsIn(Tail(s))
           /\ Distinct(s) => Distinct(Tail(s)) /\ Head(s) \notin RowsIn(Tail(s))
<1> DEFINE u == Tail(s)
<1>1. /\ Len(s) \in Nat \ {0} /\ DOMAIN s = 1..Len(s) /\ DOMAIN u = 1..(Len(s) - 1)
      /\ \A i \in 1..(Len(s) - 1) : u[i] = s[i + 1]
      /\ Head(s) = s[1]
  <2>1. Head(s) = s[1]
    OBVIOUS
  <2>2. u \in Seq(S) /\ Len(u) = Len(s) - 1 /\ \A i \in 1..Len(u) : u[i] = s[i + 1]
    BY HeadTailProperties
  <2> QED BY <2>1, <2>2, EmptySeq, LenProperties
<1> HIDE DEF u
<1>2. RowsIn(s) = {Head(s)} \cup RowsIn(u)
  <2>1. \A i \in DOMAIN s : i = 1 \/ (i - 1 \in DOMAIN u /\ s[i] = u[i - 1])
    BY <1>1
  <2>2. \A i \in DOMAIN u : i + 1 \in DOMAIN s /\ u[i] = s[i + 1]
    BY <1>1
  <2>3. 1 \in DOMAIN s
    BY <1>1
  <2> QED BY <1>1, <2>1, <2>2, <2>3 DEF RowsIn
<1>3. ASSUME Distinct(s) PROVE Distinct(u) /\ Head(s) \notin RowsIn(u)
  <2>1. \A i \in DOMAIN u : i + 1 \in DOMAIN s /\ i + 1 # 1 /\ u[i] = s[i + 1]
    BY <1>1
  <2>2. 1 \in DOMAIN s
    BY <1>1
  <2>3. Distinct(u)
    <3> SUFFICES ASSUME NEW i \in DOMAIN u, NEW j \in DOMAIN u, u[i] = u[j] PROVE i = j
      BY DEF Distinct
    <3>1. i + 1 = j + 1
      BY <1>3, <2>1 DEF Distinct
    <3> QED BY <1>1, <3>1
  <2>4. Head(s) \notin RowsIn(u)
    BY <1>1, <1>3, <2>1, <2>2 DEF RowsIn, Distinct
  <2> QED BY <2>3, <2>4
<1> QED BY <1>2, <1>3 DEF u

\* One sequence after another.
LEMMA ConcatRows ==
    ASSUME NEW S, NEW s \in Seq(S), NEW u \in Seq(S)
    PROVE  RowsIn(s \o u) = RowsIn(s) \cup RowsIn(u)
<1> DEFINE c == s \o u
<1>1. /\ Len(s) \in Nat /\ Len(u) \in Nat
      /\ DOMAIN s = 1..Len(s) /\ DOMAIN u = 1..Len(u) /\ DOMAIN c = 1..(Len(s) + Len(u))
      /\ \A i \in 1..(Len(s) + Len(u)) : c[i] = IF i <= Len(s) THEN s[i] ELSE u[i - Len(s)]
  BY ConcatProperties, LenProperties
<1> HIDE DEF c
<1>2. \A i \in DOMAIN s : i \in DOMAIN c /\ c[i] = s[i]
  BY <1>1
<1>3. \A i \in DOMAIN u : i + Len(s) \in DOMAIN c /\ c[i + Len(s)] = u[i]
  BY <1>1
<1>4. \A i \in DOMAIN c : (i \in DOMAIN s /\ c[i] = s[i]) \/ (i - Len(s) \in DOMAIN u /\ c[i] = u[i - Len(s)])
  BY <1>1
<1>5. RowsIn(c) = RowsIn(s) \cup RowsIn(u)
  BY <1>2, <1>3, <1>4 DEF RowsIn
<1> QED BY <1>5 DEF c

LEMMA RowsInType == ASSUME NEW S, NEW s \in Seq(S) PROVE RowsIn(s) \subseteq S
BY ElementOfSeq, LenProperties DEF RowsIn

LEMMA RowsInEmpty == RowsIn(<<>>) = {} /\ Distinct(<<>>)
BY DEF RowsIn, Distinct

----------------------------------------------------------------------------
(* The path of a row: the channel is one queue, the loop's map the next     *)
(* place, the reports the last.                                             *)

LEMMA ChannelType == ChanTypeOK => InChannel \in Seq(Rows) /\ chBuf \o chIn \in Seq(Rows)
BY ConcatProperties DEF ChanTypeOK, InChannel

\* The pump moves rows inside the channel and changes no row's place in it.
LEMMA PumpKeepsOrder ==
    ASSUME ChanTypeOK, Pump
    PROVE  InChannel' = InChannel
<1> USE DEF ChanTypeOK
<1>1. CASE PumpReceive /\ Direct
  <2> DEFINE x == Head(chIn)
  <2>1. chIn = <<x>> \o Tail(chIn) /\ <<x>> \in Seq(Rows) /\ Tail(chIn) \in Seq(Rows)
    BY <1>1, HeadTailProperties DEF PumpReceive
  <2>2. chBuf = <<>> /\ chBuf' = <<>> /\ chOut' = Append(chOut, x) /\ chIn' = Tail(chIn)
    BY <1>1 DEF PumpReceive, Direct
  <2>3. Append(chOut, x) = chOut \o <<x>>
    BY <2>1, HeadTailProperties, AppendIsConcat DEF PumpReceive
  <2> HIDE DEF x
  <2>4. (chOut \o <<x>>) \o Tail(chIn) = chOut \o (<<x>> \o Tail(chIn))
    BY <2>1, ConcatAssociative
  <2>5. chOut \o <<>> = chOut /\ (chOut \o <<x>>) \o <<>> = chOut \o <<x>>
    BY <2>1, ConcatEmptySeq, ConcatProperties
  <2> QED BY <2>1, <2>2, <2>3, <2>4, <2>5 DEF InChannel
<1>2. CASE PumpReceive /\ ~Direct
  <2> DEFINE x == Head(chIn)
  <2>1. chIn = <<x>> \o Tail(chIn) /\ <<x>> \in Seq(Rows) /\ Tail(chIn) \in Seq(Rows) /\ x \in Rows
    BY <1>2, HeadTailProperties DEF PumpReceive
  <2>2. chOut' = chOut /\ chBuf' = Append(chBuf, x) /\ chIn' = Tail(chIn)
    BY <1>2 DEF PumpReceive
  <2> HIDE DEF x
  <2>3. Append(chBuf, x) = chBuf \o <<x>> /\ chOut \o chBuf \in Seq(Rows)
    BY <2>1, AppendIsConcat, ConcatProperties
  <2>4. chOut \o (chBuf \o <<x>>) = (chOut \o chBuf) \o <<x>>
    BY <2>1, ConcatAssociative
  <2>5. ((chOut \o chBuf) \o <<x>>) \o Tail(chIn) = (chOut \o chBuf) \o (<<x>> \o Tail(chIn))
    BY <2>1, <2>3, ConcatAssociative
  <2> QED BY <2>1, <2>2, <2>3, <2>4, <2>5 DEF InChannel
<1>3. CASE PumpSend
  <2> DEFINE x == Head(chBuf)
  <2>1. chBuf = <<x>> \o Tail(chBuf) /\ <<x>> \in Seq(Rows) /\ Tail(chBuf) \in Seq(Rows) /\ x \in Rows
    BY <1>3, HeadTailProperties DEF PumpSend
  <2>2. chOut' = Append(chOut, x) /\ chBuf' = Tail(chBuf) /\ chIn' = chIn
    BY <1>3 DEF PumpSend
  <2> HIDE DEF x
  <2>3. Append(chOut, x) = chOut \o <<x>>
    BY <2>1, AppendIsConcat
  <2>4. (chOut \o <<x>>) \o Tail(chBuf) = chOut \o (<<x>> \o Tail(chBuf))
    BY <2>1, ConcatAssociative
  <2> QED BY <2>1, <2>2, <2>3, <2>4 DEF InChannel
<1>4. CASE PumpClose
  BY <1>4 DEF PumpClose, InChannel
<1> QED BY <1>1, <1>2, <1>3, <1>4 DEF Pump

LEMMA FrontRow ==
    ASSUME NEW S, NEW x \in S, NEW rest \in Seq(S)
    PROVE  <<x>> \o rest # <<>> /\ Head(<<x>> \o rest) = x /\ Tail(<<x>> \o rest) = rest
<1> DEFINE c == <<x>> \o rest
<1>1. <<x>> \in Seq(S) /\ Len(<<x>>) = 1 /\ <<x>>[1] = x
  OBVIOUS
<1>2. /\ c \in Seq(S) /\ Len(rest) \in Nat /\ Len(c) = Len(rest) + 1
      /\ c[1] = x
      /\ \A i \in 1..Len(rest) : c[i + 1] = rest[i]
  <2>1. c \in Seq(S) /\ Len(rest) \in Nat /\ Len(c) = 1 + Len(rest)
    BY <1>1, ConcatProperties, LenProperties
  <2>2. \A i \in 1..(1 + Len(rest)) : c[i] = IF i <= 1 THEN <<x>>[i] ELSE rest[i - 1]
    BY <1>1, ConcatProperties
  <2> QED BY <1>1, <2>1, <2>2
<1> HIDE DEF c
<1>3. c # <<>>
  BY <1>2, EmptySeq
<1>4. Head(c) = x
  BY <1>2, <1>3
<1>5. Tail(c) \in Seq(S) /\ Len(Tail(c)) = Len(rest) /\ \A i \in 1..Len(rest) : Tail(c)[i] = rest[i]
  BY <1>2, <1>3, HeadTailProperties
<1>6. Tail(c) = rest
  BY <1>5, SeqEqual
<1> QED BY <1>3, <1>4, <1>6 DEF c

\* Write adds a row at the end of the channel, the loop takes the one at its front.
LEMMA SendAppends ==
    ASSUME ChanTypeOK, NEW x \in Rows, chIn' = Append(chIn, x), UNCHANGED <<chBuf, chOut>>
    PROVE  InChannel' = Append(InChannel, x)
<1> USE DEF ChanTypeOK
<1>1. Append(chIn, x) = chIn \o <<x>> /\ <<x>> \in Seq(Rows)
  BY AppendIsConcat
<1>2. chOut \o chBuf \in Seq(Rows) /\ InChannel \in Seq(Rows)
  BY ConcatProperties, ChannelType
<1>3. (chOut \o chBuf) \o (chIn \o <<x>>) = ((chOut \o chBuf) \o chIn) \o <<x>>
  BY <1>1, <1>2, ConcatAssociative
<1>4. Append(InChannel, x) = InChannel \o <<x>>
  BY <1>2, AppendIsConcat
<1> QED BY <1>1, <1>3, <1>4 DEF InChannel

LEMMA ReceiveTakesHead ==
    ASSUME ChanTypeOK, chOut # <<>>, chOut' = Tail(chOut), UNCHANGED <<chIn, chBuf>>
    PROVE  /\ Head(chOut) \in Rows
           /\ InChannel # <<>>
           /\ Head(InChannel) = Head(chOut)
           /\ InChannel' = Tail(InChannel)
<1> USE DEF ChanTypeOK
<1> DEFINE x == Head(chOut)
           rest == Tail(chOut) \o (chBuf \o chIn)
<1>1. chOut = <<x>> \o Tail(chOut) /\ <<x>> \in Seq(Rows) /\ Tail(chOut) \in Seq(Rows) /\ x \in Rows
  BY HeadTailProperties
<1>2. chBuf \o chIn \in Seq(Rows) /\ rest \in Seq(Rows)
  BY <1>1, ChannelType, ConcatProperties
<1>3. (chOut \o chBuf) \o chIn = chOut \o (chBuf \o chIn)
  BY ConcatAssociative
<1>4. (Tail(chOut) \o chBuf) \o chIn = rest
  <2>1. chBuf \in Seq(Rows) /\ chIn \in Seq(Rows)
    OBVIOUS
  <2> HIDE DEF x, ChanTypeOK
  <2>2. ASSUME NEW u \in Seq(Rows) PROVE (u \o chBuf) \o chIn = u \o (chBuf \o chIn)
    BY <2>1, ConcatAssociative
  <2> QED BY <1>1, <2>2
<1> HIDE DEF x
<1>5. (<<x>> \o Tail(chOut)) \o (chBuf \o chIn) = <<x>> \o rest
  BY <1>1, <1>2, ConcatAssociative
<1>6. InChannel = <<x>> \o rest /\ InChannel' = rest
  BY <1>1, <1>3, <1>4, <1>5 DEF InChannel
<1> HIDE DEF rest
<1>7. <<x>> \o rest # <<>> /\ Head(<<x>> \o rest) = x /\ Tail(<<x>> \o rest) = rest
  BY <1>1, <1>2, FrontRow
<1> QED BY <1>1, <1>6, <1>7 DEF x

\* The tables of a flush have rows, and the one it inserts or reports is not yet
\* settled.
FlushInv ==
    /\ Flushing => \A t \in todo : buffer[t] # <<>>
    /\ lpc \in {"insert", "reportOk", "reportErr"} => table \in todo

\* What a receive does to the map and the program counter.
LEMMA ReceiveStep ==
    ASSUME Types, LoopReceive \/ DrainReceive
    PROVE  /\ lpc \in {"select", "drain"}
           /\ Head(chOut) \in Rows /\ TableOf[Head(chOut)] \in Tables
           /\ \/ Head(chOut) \in NilRows /\ UNCHANGED <<lpc, buffer, todo>>
              \/ /\ Head(chOut) \notin NilRows
                 /\ buffer' = Take(Head(chOut))
                 /\ \/ lpc' \in {"select", "drain"}
                    \/ lpc' = "flush" /\ todo' = Keys(buffer')
<1>1. chOut # <<>> /\ lpc \in {"select", "drain"}
  BY DEF LoopReceive, DrainReceive
<1>2. Head(chOut) \in Rows
  BY <1>1, HeadTailProperties DEF Types, ChanTypeOK
<1>3. TableOf[Head(chOut)] \in Tables
  BY <1>2, RowsAssumption DEF RowsAssumption
<1>4. CASE Head(chOut) \in NilRows
  BY <1>1, <1>2, <1>3, <1>4 DEF LoopReceive, DrainReceive, loopVars, flushVars
<1>5. CASE Head(chOut) \notin NilRows
  <2>1. buffer' = Take(Head(chOut))
    BY <1>5 DEF LoopReceive, DrainReceive
  <2>2. lpc' \in {"select", "drain"} \/ (lpc' = "flush" /\ todo' = Keys(buffer'))
    BY <1>5 DEF LoopReceive, DrainReceive, BeginFlush
  <2> QED BY <1>1, <1>2, <1>3, <1>5, <2>1, <2>2
<1> QED BY <1>4, <1>5

LEMMA FlushInvStep ==
    ASSUME Types, FlushInv, [Next]_vars
    PROVE  FlushInv'
<1> USE DEF FlushInv, Flushing
<1>1. ASSUME UNCHANGED <<lpc, buffer, todo, table>> PROVE FlushInv'
  BY <1>1
<1>2. CASE (\E w \in Writers : Write(w)) \/ (\E k \in Closers : Close(k))
            \/ PumpStep \/ Tick \/ Age \/ Refresher \/ UNCHANGED vars
  <2>1. UNCHANGED <<lpc, buffer, todo, table>>
    BY <1>2 DEF Write, WriteCall, WriteSend, WriteCancelled, WriteFull, WritePanic, WriteEnds, Close,
                CloseCAS, CloseSignal, CloseIn, CloseWait, PumpStep, Tick, Age, Refresher, RefreshTick,
                RefreshReturn, RefreshDone, vars, loopVars, flushVars
  <2> QED BY <1>1, <2>1
<1>3. CASE Start \/ LoopOutClosed \/ LoopTick \/ LoopDone \/ DrainDefault
  <2>1. \/ lpc' \in {"select", "drain", "exit"}
        \/ lpc' = "flush" /\ todo' = Keys(buffer) /\ buffer' = buffer
    BY <1>3 DEF Start, LoopOutClosed, LoopTick, LoopDone, DrainDefault, BeginFlush
  <2> QED BY <2>1 DEF Keys
<1>4. CASE LoopReceive \/ DrainReceive
  <2>1. lpc' \in {"select", "drain"} \/ (lpc' = "flush" /\ todo' = Keys(buffer'))
    BY <1>4, ReceiveStep
  <2> QED BY <2>1 DEF Keys
<1>5. CASE Flush
  <2>1. CASE FlushReturn
    BY <2>1 DEF FlushReturn
  <2>2. ASSUME NEW t \in Tables, FlushPick(t) PROVE FlushInv'
    BY <2>2 DEF FlushPick
  <2>3. ASSUME NEW o \in Outcomes, InsertAttempt(o) PROVE FlushInv'
    BY <2>3 DEF InsertAttempt
  <2>4. CASE Report \/ CallFallback
    <3>1. todo' \subseteq todo /\ buffer' = buffer /\ Flushing /\ lpc' \in {"flush", "fallback"}
      BY <2>4 DEF Report, CallFallback
    <3> QED BY <3>1
  <2> QED BY <1>5, <2>1, <2>2, <2>3, <2>4 DEF Flush
<1> QED BY <1>2, <1>3, <1>4, <1>5 DEF Next, Select, Drain

LEMMA FlushInvHolds == Spec => []FlushInv
<1>1. Init => FlushInv
  BY DEF Init, FlushInv, Flushing
<1> QED BY <1>1, FlushInvStep, TypesHold, PTL DEF Spec

\* Most steps leave every row in its place.
RowsStay ==
    /\ InChannel' = InChannel
    /\ accepted' = accepted
    /\ reports' = reports
    /\ \A t \in Tables : Unsettled(t)' = Unsettled(t)

Receive == LoopReceive \/ DrainReceive

LEMMA QuietSteps ==
    ASSUME Types, FlushInv, [Next]_vars,
           \A w \in Writers : ~WriteSend(w), ~Receive, ~Report
    PROVE  RowsStay
<1>1. ASSUME UNCHANGED <<lpc, buffer, todo>> PROVE \A t \in Tables : Unsettled(t)' = Unsettled(t)
  BY <1>1 DEF Unsettled, Flushing
<1>2. CASE (\E w \in Writers : Write(w)) \/ (\E k \in Closers : Close(k))
            \/ Tick \/ Age \/ Refresher \/ UNCHANGED vars
  <2>1. UNCHANGED <<chIn, chBuf, chOut, accepted, reports, lpc, buffer, todo>>
    BY <1>2 DEF Write, WriteCall, WriteCancelled, WriteFull, WritePanic, WriteEnds, Close,
                CloseCAS, CloseSignal, CloseIn, CloseWait, Tick, Age, Refresher, RefreshTick,
                RefreshReturn, RefreshDone, vars, chanVars, writeVars, loopVars, flushVars
  <2> QED BY <1>1, <2>1 DEF RowsStay, InChannel
<1>3. CASE PumpStep
  <2>1. UNCHANGED <<accepted, reports, lpc, buffer, todo>>
    BY <1>3 DEF PumpStep, writeVars, loopVars, flushVars
  <2>2. InChannel' = InChannel
    BY <1>3, PumpKeepsOrder DEF PumpStep, Types
  <2> QED BY <1>1, <2>1, <2>2 DEF RowsStay
<1>4. CASE Start \/ LoopOutClosed \/ LoopTick \/ LoopDone \/ DrainDefault
  <2>1. UNCHANGED <<chIn, chBuf, chOut, accepted, reports, buffer>>
    BY <1>4 DEF Start, LoopOutClosed, LoopTick, LoopDone, DrainDefault, chanVars, writeVars, flushVars
  <2>2. lpc \in {"off", "select", "drain"}
    BY <1>4 DEF Start, LoopOutClosed, LoopTick, LoopDone, DrainDefault
  <2>3. lpc' \in {"select", "drain", "exit"} \/ (lpc' = "flush" /\ todo' = Keys(buffer))
    BY <1>4 DEF Start, LoopOutClosed, LoopTick, LoopDone, DrainDefault, BeginFlush
  <2>4. \A t \in Tables : Unsettled(t)' = Unsettled(t)
    BY <2>1, <2>2, <2>3 DEF Unsettled, Flushing, Keys
  <2> QED BY <2>1, <2>4 DEF RowsStay, InChannel
<1>5. CASE (\E t \in Tables : FlushPick(t)) \/ (\E o \in Outcomes : InsertAttempt(o)) \/ CallFallback
  <2>1. UNCHANGED <<chIn, chBuf, chOut, accepted, reports, buffer, todo>>
    BY <1>5 DEF FlushPick, InsertAttempt, CallFallback, chanVars, writeVars
  <2>2. Flushing /\ Flushing'
    BY <1>5 DEF FlushPick, InsertAttempt, CallFallback, Flushing
  <2> QED BY <2>1, <2>2 DEF RowsStay, InChannel, Unsettled
<1>6. CASE FlushReturn
  <2>1. UNCHANGED <<chIn, chBuf, chOut, accepted, reports>>
    BY <1>6 DEF FlushReturn, chanVars, writeVars
  <2>2. \A t \in Tables : Unsettled(t) = <<>>
    BY <1>6 DEF FlushReturn, Unsettled, Flushing
  <2>3. \A t \in Tables : Unsettled(t)' = <<>>
    BY <1>6 DEF FlushReturn, Unsettled, Flushing, NewBatch, EmptyBuffer
  <2> QED BY <2>1, <2>2, <2>3 DEF RowsStay, InChannel
<1> QED BY <1>2, <1>3, <1>4, <1>5, <1>6 DEF Next, Select, Drain, Flush, Receive

\* A receive moves the head of the channel to the map, unless it is nil.
LEMMA ReceiveMoves ==
    ASSUME Types, Receive
    PROVE  /\ InChannel # <<>> /\ Head(InChannel) \in Rows /\ InChannel' = Tail(InChannel)
           /\ UNCHANGED <<accepted, pending, reports, inClosed>>
           /\ \A t \in Tables : Unsettled(t)' =
                 IF Head(InChannel) \notin NilRows /\ TableOf[Head(InChannel)] = t
                 THEN Append(Unsettled(t), Head(InChannel)) ELSE Unsettled(t)
<1>1. chOut # <<>> /\ chOut' = Tail(chOut) /\ UNCHANGED <<chIn, chBuf, accepted, pending, reports, inClosed>>
  BY DEF Receive, LoopReceive, DrainReceive, writeVars, flushVars
<1>2. /\ Head(chOut) \in Rows /\ InChannel # <<>>
      /\ Head(InChannel) = Head(chOut) /\ InChannel' = Tail(InChannel)
  BY <1>1, ReceiveTakesHead DEF Types
<1>3. ASSUME NEW t \in Tables
      PROVE  Unsettled(t)' = IF Head(chOut) \notin NilRows /\ TableOf[Head(chOut)] = t
                             THEN Append(Unsettled(t), Head(chOut)) ELSE Unsettled(t)
  <2>1. Unsettled(t) = buffer[t] /\ lpc \in {"select", "drain"}
    BY ReceiveStep DEF Receive, Unsettled, Flushing
  <2>2. CASE Head(chOut) \in NilRows
    <3>1. UNCHANGED <<lpc, buffer, todo>>
      BY <2>2, ReceiveStep DEF Receive
    <3> QED BY <2>1, <2>2, <3>1 DEF Unsettled, Flushing
  <2>3. CASE Head(chOut) \notin NilRows
    <3>1. /\ buffer' = Take(Head(chOut))
          /\ lpc' \in {"select", "drain"} \/ (lpc' = "flush" /\ todo' = Keys(buffer'))
      BY <2>3, ReceiveStep DEF Receive
    <3>2. Unsettled(t)' = buffer'[t]
      BY <3>1 DEF Unsettled, Flushing, Keys
    <3>3. buffer'[t] = IF TableOf[Head(chOut)] = t THEN Append(buffer[t], Head(chOut)) ELSE buffer[t]
      BY <3>1 DEF Take, Types, LoopTypes
    <3> QED BY <2>1, <2>3, <3>2, <3>3
  <2> QED BY <2>2, <2>3
<1> QED BY <1>1, <1>2, <1>3

\* A report settles the batch of the table the flush works on, all of it.
LEMMA ReportSettles ==
    ASSUME Types, FlushInv, Report
    PROVE  /\ InChannel' = InChannel /\ UNCHANGED <<accepted, pending, inClosed>>
           /\ table \in Tables /\ Unsettled(table) = buffer[table] /\ buffer[table] # <<>>
           /\ reports' = Append(reports, [table |-> table, rows |-> buffer[table], err |-> lpc = "reportErr"])
           /\ \A t \in Tables : Unsettled(t)' = IF t = table THEN <<>> ELSE Unsettled(t)
<1>1. UNCHANGED <<chIn, chBuf, chOut, inClosed, accepted, pending, buffer, table>> /\ todo' = todo \ {table}
  BY DEF Report, chanVars, writeVars
<1>2. Flushing /\ Flushing' /\ table \in todo
  BY DEF Report, Flushing, FlushInv
<1>3. table \in Tables /\ Unsettled(table) = buffer[table] /\ buffer[table] # <<>>
  BY <1>2 DEF FlushInv, Unsettled, Types, FlushTypes
<1>4. \A t \in Tables : Unsettled(t)' = IF t = table THEN <<>> ELSE Unsettled(t)
  BY <1>1, <1>2 DEF Unsettled
<1> QED BY <1>1, <1>3, <1>4 DEF Report, InChannel

\* Nobody but the call that sends a row will send it.
CallsOnce ==
    /\ \A w \in Writers : Distinct(pending[w]) /\ RowsIn(pending[w]) \cap accepted = {}
    /\ \A v, w \in Writers : v # w => RowsIn(pending[v]) \cap RowsIn(pending[w]) = {}

\* An accepted row is in one place: once in the channel, in the map under its
\* table, or in one report.
PlacedOnce ==
    /\ Distinct(InChannel) /\ RowsIn(InChannel) \subseteq accepted
    /\ \A t \in Tables :
          /\ Distinct(Unsettled(t))
          /\ \A r \in RowsIn(Unsettled(t)) :
                /\ r \in accepted /\ r \notin NilRows /\ TableOf[r] = t
                /\ r \notin RowsIn(InChannel) /\ r \notin Reported
    /\ \A r \in Reported : r \in accepted /\ r \notin RowsIn(InChannel)

OnceInv == CallsOnce /\ PlacedOnce /\ ReportedOnce

\* A Write call takes rows no other call has sent or will send, sends them in
\* order, and forgets the rest when it ends early.
LEMMA CallsOnceStep ==
    ASSUME Types, OnceInv, [Next]_vars
    PROVE  CallsOnce'
<1> USE DEF Types, WriteTypes, OnceInv, CallsOnce
<1>1. CASE UNCHANGED <<pending, accepted>>
  BY <1>1
<1>2. ASSUME NEW w \in Writers, Write(w)
      PROVE  CallsOnce'
  <2>1. ASSUME NEW rows \in Calls, Fresh(rows), accepted' = accepted,
               pending' = [pending EXCEPT ![w] = rows]
        PROVE  CallsOnce'
    <3>1. Distinct(rows)
      BY RowsAssumption DEF RowsAssumption, Distinct
    <3>2. RowsIn(rows) \cap accepted = {} /\ \A v \in Writers : RowsIn(rows) \cap RowsIn(pending[v]) = {}
      BY <2>1 DEF Fresh
    <3>3. \A v \in Writers : pending'[v] = IF v = w THEN rows ELSE pending[v]
      BY <2>1
    <3> QED BY <2>1, <3>1, <3>2, <3>3
  <2>2. ASSUME accepted' = accepted, pending' = [pending EXCEPT ![w] = <<>>]
        PROVE  CallsOnce'
    <3>1. \A v \in Writers : pending'[v] = IF v = w THEN <<>> ELSE pending[v]
      BY <2>2
    <3> QED BY <2>2, <3>1, RowsInEmpty
  <2>3. CASE WriteSend(w)
    <3> DEFINE x == Head(pending[w])
               rest == Tail(pending[w])
    <3>1. pending[w] # <<>> /\ pending[w] \in Seq(Rows)
      BY <2>3 DEF WriteSend
    <3>2. /\ RowsIn(pending[w]) = {x} \cup RowsIn(rest)
          /\ Distinct(rest) /\ x \notin RowsIn(rest)
      BY <3>1, TailRow
    <3>3. accepted' = accepted \cup {x} /\ pending' = [pending EXCEPT ![w] = rest]
      BY <2>3 DEF WriteSend
    <3> HIDE DEF x, rest
    <3>4. \A v \in Writers : pending'[v] = IF v = w THEN rest ELSE pending[v]
      BY <3>3
    <3>5. \A v \in Writers : RowsIn(pending'[v]) \cap accepted' = {}
      BY <3>2, <3>3, <3>4
    <3>6. \A v \in Writers : Distinct(pending'[v])
      BY <3>2, <3>4
    <3>7. \A u, v \in Writers : u # v => RowsIn(pending'[u]) \cap RowsIn(pending'[v]) = {}
      BY <3>2, <3>4
    <3> QED BY <3>5, <3>6, <3>7
  <2>4. ASSUME NEW rows \in Calls, WriteCall(w, rows)
        PROVE  CallsOnce'
    <3>1. accepted' = accepted /\ Fresh(rows) /\ (pending' = pending \/ pending' = [pending EXCEPT ![w] = rows])
      BY <2>4 DEF WriteCall
    <3> QED BY <1>1, <2>1, <3>1
  <2>5. CASE WriteCancelled(w) \/ WriteFull(w) \/ WritePanic(w)
    BY <2>2, <2>5 DEF WriteCancelled, WriteFull, WritePanic, WriteEnds
  <2> QED BY <1>2, <2>3, <2>4, <2>5 DEF Write
<1>3. CASE (\E k \in Closers : Close(k)) \/ Start \/ PumpStep \/ Tick \/ Age
            \/ Refresher \/ Flush \/ UNCHANGED vars
  BY <1>1, <1>3 DEF Close, CloseCAS, CloseSignal, CloseIn, CloseWait, Start, PumpStep, Tick, Age,
        Refresher, RefreshTick, RefreshReturn, RefreshDone,
        Flush, FlushPick, InsertAttempt, Report, CallFallback, FlushReturn, vars, writeVars
<1>4. CASE Select \/ Drain
  BY <1>1, <1>4 DEF Select, LoopReceive, LoopOutClosed, LoopTick, LoopDone,
        Drain, DrainReceive, DrainDefault, writeVars
<1> QED BY <1>2, <1>3, <1>4 DEF Next

\* A report adds its rows to the reported ones.
LEMMA ReportedGrows ==
    ASSUME NEW S, reports \in Seq(S), NEW new \in S, reports' = Append(reports, new)
    PROVE  /\ DOMAIN reports' = DOMAIN reports \cup {Len(reports) + 1}
           /\ Len(reports) + 1 \notin DOMAIN reports
           /\ \A i \in DOMAIN reports : reports'[i] = reports[i]
           /\ reports'[Len(reports) + 1] = new
           /\ Reported' = Reported \cup RowsIn(new.rows)
<1>1. Len(reports) \in Nat /\ DOMAIN reports = 1..Len(reports) /\ DOMAIN reports' = 1..(Len(reports) + 1)
  BY LenProperties, AppendProperties
<1>2. /\ \A i \in DOMAIN reports : reports'[i] = reports[i]
      /\ reports'[Len(reports) + 1] = new
  BY <1>1, AppendProperties
<1>3. DOMAIN reports' = DOMAIN reports \cup {Len(reports) + 1} /\ Len(reports) + 1 \notin DOMAIN reports
  BY <1>1
<1>4. Reported' = Reported \cup RowsIn(new.rows)
  BY <1>2, <1>3 DEF Reported
<1> QED BY <1>2, <1>3, <1>4

LEMMA PlacedOnceStep ==
    ASSUME Types, FlushInv, OnceInv, [Next]_vars
    PROVE  PlacedOnce' /\ ReportedOnce'
<1> USE DEF OnceInv
<1>0. InChannel \in Seq(Rows) /\ \A t \in Tables : buffer[t] \in Seq(Rows) /\ Unsettled(t) \in Seq(Rows)
  BY ChannelType, EmptySeq DEF Types, LoopTypes, Unsettled
<1>1. CASE RowsStay
  <2>1. Reported' = Reported
    BY <1>1 DEF RowsStay, Reported
  <2> QED BY <1>1, <2>1 DEF RowsStay, PlacedOnce, ReportedOnce
<1>2. ASSUME NEW w \in Writers, WriteSend(w)
      PROVE  PlacedOnce' /\ ReportedOnce'
  <2> DEFINE x == Head(pending[w])
  <2>1. pending[w] # <<>> /\ pending[w] \in Seq(Rows)
    BY <1>2 DEF WriteSend, Types, WriteTypes
  <2>2. x \in Rows /\ x \in RowsIn(pending[w])
    BY <2>1, HeadTailProperties, TailRow
  <2>3. x \notin accepted
    BY <2>2 DEF CallsOnce
  <2>4. InChannel' = Append(InChannel, x)
    BY <1>2, <2>2, SendAppends DEF WriteSend, Types
  <2>5. accepted' = accepted \cup {x} /\ reports' = reports /\ \A t \in Tables : Unsettled(t)' = Unsettled(t)
    BY <1>2 DEF WriteSend, flushVars, loopVars, Unsettled, Flushing
  <2> HIDE DEF x
  <2>6. RowsIn(InChannel') = RowsIn(InChannel) \cup {x}
    BY <1>0, <2>2, <2>4, AppendRow
  <2>7. Distinct(InChannel')
    BY <1>0, <2>2, <2>3, <2>4, AppendRow DEF PlacedOnce
  <2>8. Reported' = Reported
    BY <2>5 DEF Reported
  <2>9. PlacedOnce'
    BY <2>3, <2>5, <2>6, <2>7, <2>8 DEF PlacedOnce
  <2> QED BY <2>5, <2>8, <2>9 DEF ReportedOnce
<1>3. CASE Receive
  <2> DEFINE x == Head(InChannel)
  <2>1. /\ InChannel # <<>> /\ x \in Rows /\ InChannel' = Tail(InChannel)
        /\ UNCHANGED <<accepted, reports>>
        /\ \A t \in Tables : Unsettled(t)' =
              IF x \notin NilRows /\ TableOf[x] = t THEN Append(Unsettled(t), x) ELSE Unsettled(t)
    BY <1>3, ReceiveMoves
  <2>2. /\ RowsIn(InChannel) = {x} \cup RowsIn(InChannel')
        /\ Distinct(InChannel') /\ x \notin RowsIn(InChannel')
    BY <1>0, <2>1, TailRow DEF PlacedOnce
  <2> HIDE DEF x
  <2>3. Reported' = Reported
    BY <2>1 DEF Reported
  <2>4. ASSUME NEW t \in Tables
        PROVE  /\ Distinct(Unsettled(t)')
               /\ \A r \in RowsIn(Unsettled(t)') :
                     /\ r \in accepted' /\ r \notin NilRows /\ TableOf[r] = t
                     /\ r \notin RowsIn(InChannel') /\ r \notin Reported'
    <3>1. CASE x \notin NilRows /\ TableOf[x] = t
      <4>1. x \notin RowsIn(Unsettled(t))
        BY <2>2 DEF PlacedOnce
      <4>2. /\ RowsIn(Append(Unsettled(t), x)) = RowsIn(Unsettled(t)) \cup {x}
            /\ Distinct(Append(Unsettled(t), x))
        <5>1. Unsettled(t) \in Seq(Rows) /\ Distinct(Unsettled(t))
          BY <1>0 DEF PlacedOnce
        <5> QED BY <2>1, <4>1, <5>1, AppendRow
      <4>3. Unsettled(t)' = Append(Unsettled(t), x)
        BY <2>1, <3>1
      <4> QED BY <2>1, <2>2, <2>3, <3>1, <4>2, <4>3 DEF PlacedOnce
    <3>2. CASE ~(x \notin NilRows /\ TableOf[x] = t)
      BY <2>1, <2>2, <2>3, <3>2 DEF PlacedOnce
    <3> QED BY <3>1, <3>2
  <2>5. PlacedOnce'
    BY <2>1, <2>2, <2>3, <2>4 DEF PlacedOnce
  <2> QED BY <2>1, <2>3, <2>5 DEF ReportedOnce
<1>4. CASE Report
  <2> DEFINE new == [table |-> table, rows |-> buffer[table], err |-> lpc = "reportErr"]
             n == Len(reports) + 1
  <2>1. /\ InChannel' = InChannel /\ accepted' = accepted
        /\ table \in Tables /\ Unsettled(table) = buffer[table]
        /\ reports' = Append(reports, new)
        /\ \A t \in Tables : Unsettled(t)' = IF t = table THEN <<>> ELSE Unsettled(t)
    BY <1>4, ReportSettles
  <2>2. new \in [table : Tables, rows : Seq(Rows), err : BOOLEAN]
    BY <1>0, <2>1
  <2>3. new.rows = buffer[table]
    OBVIOUS
  <2> HIDE DEF new
  <2>4. /\ DOMAIN reports' = DOMAIN reports \cup {n} /\ n \notin DOMAIN reports
        /\ \A i \in DOMAIN reports : reports'[i] = reports[i]
        /\ reports'[n] = new
        /\ Reported' = Reported \cup RowsIn(buffer[table])
    <3>1. reports \in Seq([table : Tables, rows : Seq(Rows), err : BOOLEAN])
      BY DEF Types, FlushTypes
    <3> QED BY <2>1, <2>2, <2>3, <3>1, ReportedGrows
  <2> HIDE DEF n
  <2>5. \A r \in RowsIn(buffer[table]) :
           r \in accepted /\ TableOf[r] = table /\ r \notin RowsIn(InChannel) /\ r \notin Reported
    BY <2>1 DEF PlacedOnce
  <2>6. PlacedOnce'
    <3>1. \A t \in Tables : t # table => \A r \in RowsIn(Unsettled(t)) : r \notin RowsIn(buffer[table])
      BY <2>5 DEF PlacedOnce
    <3>2. \A t \in Tables :
             /\ Distinct(Unsettled(t)')
             /\ \A r \in RowsIn(Unsettled(t)') :
                   /\ r \in accepted /\ r \notin NilRows /\ TableOf[r] = t
                   /\ r \notin RowsIn(InChannel) /\ r \notin Reported'
      BY <2>1, <2>4, <3>1, RowsInEmpty DEF PlacedOnce
    <3> QED BY <2>1, <2>4, <2>5, <3>2 DEF PlacedOnce
  <2>7. ReportedOnce'
    <3>1. Reported' \subseteq accepted'
      BY <2>1, <2>4, <2>5 DEF ReportedOnce
    <3>2. Distinct(buffer[table])
      BY <2>1 DEF PlacedOnce
    <3>3. \A i \in DOMAIN reports : \A m \in DOMAIN reports[i].rows : reports[i].rows[m] \notin RowsIn(buffer[table])
      BY <2>5 DEF Reported, RowsIn
    <3>4. ASSUME NEW i \in DOMAIN reports', NEW j \in DOMAIN reports',
                 NEW a \in DOMAIN reports'[i].rows, NEW b \in DOMAIN reports'[j].rows,
                 reports'[i].rows[a] = reports'[j].rows[b]
          PROVE  i = j /\ a = b
      <4>1. CASE i \in DOMAIN reports /\ j \in DOMAIN reports
        BY <2>4, <3>4, <4>1 DEF ReportedOnce
      <4>2. CASE i = n /\ j = n
        BY <2>3, <2>4, <3>2, <3>4, <4>2 DEF Distinct
      <4>3. CASE i = n /\ j \in DOMAIN reports
        BY <2>3, <2>4, <3>3, <3>4, <4>3 DEF RowsIn
      <4>4. CASE i \in DOMAIN reports /\ j = n
        BY <2>3, <2>4, <3>3, <3>4, <4>4 DEF RowsIn
      <4> QED BY <2>4, <4>1, <4>2, <4>3, <4>4
    <3> QED BY <3>1, <3>4 DEF ReportedOnce
  <2> QED BY <2>6, <2>7
<1> QED BY <1>1, <1>2, <1>3, <1>4, QuietSteps

LEMMA OnceInvHolds == Spec => []OnceInv
<1>1. Init => OnceInv
  <2> SUFFICES ASSUME Init PROVE OnceInv
    OBVIOUS
  <2>1. InChannel = <<>>
    BY DEF Init, ChanInit, InChannel
  <2>2. \A t \in Tables : Unsettled(t) = <<>>
    BY DEF Init, Unsettled, Flushing, EmptyBuffer
  <2>3. reports = <<>> /\ Reported = {}
    BY DEF Init, Reported
  <2> QED BY <2>1, <2>2, <2>3, RowsInEmpty DEF Init, OnceInv, CallsOnce, PlacedOnce, ReportedOnce
<1>2. Types /\ FlushInv /\ OnceInv /\ [Next]_vars => OnceInv'
  BY CallsOnceStep, PlacedOnceStep DEF OnceInv
<1> QED BY <1>1, <1>2, TypesHold, FlushInvHolds, PTL DEF Spec

\* No row is reported twice and none that was not accepted, for any number of
\* writers, rows and tables: each accepted row has one place at every moment.
THEOREM ReportedOnceHolds == Spec => []ReportedOnce
<1>1. OnceInv => ReportedOnce
  BY DEF OnceInv
<1> QED BY <1>1, OnceInvHolds, PTL

----------------------------------------------------------------------------
(* What ClickHouse holds.                                                   *)

\* The running flush works on the row: it inserts it or is about to report it.
Inserting(r) == lpc \in {"insert", "reportOk", "reportErr"} /\ r \in RowsIn(buffer[table])

\* StoredAgrees row by row: a row is not stored before its flush, has at most one
\* unsure copy per attempt made, and keeps what its report said of it.
StoredInv ==
    \A r \in Rows :
        /\ ~Inserting(r) /\ r \notin Reported => stored[r] = NoCopy
        /\ Inserting(r) =>
              /\ stored[r].sure = (IF lpc = "reportOk" THEN 1 ELSE 0)
              /\ stored[r].unsure <= (IF lpc = "reportErr" THEN attempt + 1 ELSE attempt)
        /\ \A i \in DOMAIN reports : r \in RowsIn(reports[i].rows) =>
              /\ stored[r].sure = (IF reports[i].err THEN 0 ELSE 1)
              /\ stored[r].unsure <= MaxRetries + 1 - stored[r].sure

\* The rows the flush works on are not reported yet.
LEMMA InsertingNotReported ==
    ASSUME Types, FlushInv, OnceInv, NEW t \in todo, Flushing
    PROVE  \A r \in RowsIn(buffer[t]) : r \in Rows /\ r \notin Reported
<1>1. t \in Tables /\ Unsettled(t) = buffer[t] /\ buffer[t] \in Seq(Rows)
  BY DEF Unsettled, Types, FlushTypes, LoopTypes
<1> QED BY <1>1, RowsInType DEF OnceInv, PlacedOnce

LEMMA StoredInvStep ==
    ASSUME Types, FlushInv, OnceInv, StoredInv, [Next]_vars
    PROVE  StoredInv'
<1>1. ASSUME UNCHANGED <<stored, reports>>,
             \/ UNCHANGED <<lpc, buffer, table, attempt>>
             \/ /\ lpc \notin {"insert", "reportOk", "reportErr"}
                /\ lpc' \notin {"insert", "reportOk", "reportErr"}
      PROVE  StoredInv'
  <2>1. Reported' = Reported
    BY <1>1 DEF Reported
  <2>2. CASE UNCHANGED <<lpc, buffer, table, attempt>>
    BY <1>1, <2>1, <2>2 DEF StoredInv, Inserting
  <2>3. CASE /\ lpc \notin {"insert", "reportOk", "reportErr"}
             /\ lpc' \notin {"insert", "reportOk", "reportErr"}
    BY <1>1, <2>1, <2>3 DEF StoredInv, Inserting
  <2> QED BY <1>1, <2>2, <2>3
<1>2. CASE (\E w \in Writers : Write(w)) \/ (\E k \in Closers : Close(k))
            \/ PumpStep \/ Tick \/ Age \/ Refresher \/ UNCHANGED vars
  <2>1. UNCHANGED <<stored, reports, lpc, buffer, table, attempt>>
    BY <1>2 DEF Write, WriteCall, WriteSend, WriteCancelled, WriteFull, WritePanic, WriteEnds, Close,
                CloseCAS, CloseSignal, CloseIn, CloseWait, PumpStep, Tick, Age, Refresher, RefreshTick,
                RefreshReturn, RefreshDone, vars, loopVars, flushVars
  <2> QED BY <1>1, <2>1
<1>3. CASE Start \/ Select \/ Drain
  <2>1. UNCHANGED <<stored, reports>>
    BY <1>3 DEF Start, Select, Drain, LoopReceive, LoopOutClosed, LoopTick, LoopDone, DrainReceive,
                DrainDefault, flushVars
  <2>2. lpc \in {"off", "select", "drain"}
    BY <1>3 DEF Start, Select, Drain, LoopReceive, LoopOutClosed, LoopTick, LoopDone, DrainReceive,
                DrainDefault
  <2>3. lpc' = lpc \/ lpc' \in {"select", "drain", "flush", "exit"}
    BY <1>3 DEF Start, Select, Drain, LoopReceive, LoopOutClosed, LoopTick, LoopDone, DrainReceive,
                DrainDefault, BeginFlush, loopVars
  <2> QED BY <1>1, <2>1, <2>2, <2>3
<1>4. ASSUME NEW t \in Tables, FlushPick(t)
      PROVE  StoredInv'
  <2>1. /\ t \in todo /\ Flushing /\ lpc' = "insert" /\ table' = t /\ attempt' = 0
        /\ lpc \notin {"insert", "reportOk", "reportErr"}
        /\ UNCHANGED <<stored, reports, buffer>>
    BY <1>4 DEF FlushPick, Flushing
  <2>2. \A r \in RowsIn(buffer[t]) : r \in Rows /\ r \notin Reported
    BY <2>1, InsertingNotReported
  <2>3. Reported' = Reported
    BY <2>1 DEF Reported
  <2>4. \A r \in RowsIn(buffer[t]) : stored[r].sure = 0 /\ stored[r].unsure = 0
    BY <2>1, <2>2 DEF StoredInv, Inserting, NoCopy
  <2> QED BY <2>1, <2>3, <2>4 DEF StoredInv, Inserting
<1>5. ASSUME NEW o \in Outcomes, InsertAttempt(o)
      PROVE  StoredInv'
  <2> DEFINE batch == RowsIn(buffer[table])
  <2>1. /\ lpc = "insert" /\ UNCHANGED <<reports, buffer, table>>
        /\ stored' = [r \in Rows |-> IF r \in batch THEN Persist(stored[r], o) ELSE stored[r]]
        /\ attempt \in Nat /\ attempt <= MaxRetries
    BY <1>5, ConfigAssumption DEF InsertAttempt, Types, FlushTypes, ConfigAssumption
  <2>2. \/ o # "ok" /\ lpc' = "insert" /\ attempt' = attempt + 1
        \/ o = "ok" /\ lpc' = "reportOk" /\ attempt' = attempt
        \/ o # "ok" /\ lpc' = "reportErr" /\ attempt' = attempt
    BY <1>5 DEF InsertAttempt, Retry
  <2>3. \A r \in batch : r \in Rows /\ r \notin Reported
    BY <2>1, InsertingNotReported DEF FlushInv, Flushing
  <2>4. Reported' = Reported
    BY <2>1 DEF Reported
  <2>5. ASSUME NEW r \in batch
        PROVE  /\ stored'[r].sure = (IF o = "ok" THEN 1 ELSE 0)
               /\ stored'[r].unsure <= (IF o = "ok" THEN attempt ELSE attempt + 1)
    <3>1. /\ stored[r] \in Copies /\ stored[r].sure = 0
          /\ stored[r].unsure <= attempt
          /\ stored'[r] = Persist(stored[r], o)
      BY <2>1, <2>3 DEF StoredInv, Inserting, Types, FlushTypes
    <3>2. CASE o = "ok"
      BY <2>1, <3>1, <3>2 DEF Persist, Copies
    <3>3. CASE o = "unknown"
      BY <2>1, <3>1, <3>3 DEF Persist, Copies
    <3>4. CASE o \notin {"ok", "unknown"}
      BY <2>1, <3>1, <3>4 DEF Persist, Copies
    <3> QED BY <3>2, <3>3, <3>4
  <2>6. \A r \in Rows : r \notin batch => stored'[r] = stored[r]
    BY <2>1
  <2>7. \A r \in Rows : (Inserting(r)' <=> r \in batch) /\ (Inserting(r) <=> r \in batch)
    BY <2>1, <2>2 DEF Inserting
  <2> HIDE DEF batch
  <2> SUFFICES ASSUME NEW r \in Rows
               PROVE  /\ ~Inserting(r)' /\ r \notin Reported' => stored'[r] = NoCopy
                      /\ Inserting(r)' =>
                            /\ stored'[r].sure = (IF lpc' = "reportOk" THEN 1 ELSE 0)
                            /\ stored'[r].unsure <= (IF lpc' = "reportErr" THEN attempt' + 1 ELSE attempt')
                      /\ \A i \in DOMAIN reports' : r \in RowsIn(reports'[i].rows) =>
                            /\ stored'[r].sure = (IF reports'[i].err THEN 0 ELSE 1)
                            /\ stored'[r].unsure <= MaxRetries + 1 - stored'[r].sure
    BY DEF StoredInv
  <2>8. CASE r \in batch
    <3>1. \A i \in DOMAIN reports' : r \notin RowsIn(reports'[i].rows)
      BY <2>1, <2>3, <2>8 DEF Reported
    <3>2. Inserting(r)'
      BY <2>7, <2>8
    <3>3. CASE o = "ok"
      BY <2>2, <2>5, <2>8, <3>1, <3>2, <3>3
    <3>4. CASE o # "ok"
      BY <2>2, <2>5, <2>8, <3>1, <3>2, <3>4
    <3> QED BY <3>3, <3>4
  <2>9. CASE r \notin batch
    <3>1. ~Inserting(r) /\ ~Inserting(r)'
      BY <2>7, <2>9
    <3> QED BY <2>1, <2>4, <2>6, <2>9, <3>1 DEF StoredInv
  <2> QED BY <2>8, <2>9
<1>6. CASE Report
  <2> DEFINE new == [table |-> table, rows |-> buffer[table], err |-> lpc = "reportErr"]
             n == Len(reports) + 1
  <2>1. /\ table \in Tables /\ buffer[table] \in Seq(Rows)
        /\ reports' = Append(reports, new)
        /\ lpc \in {"reportOk", "reportErr"} /\ lpc' \notin {"insert", "reportOk", "reportErr"}
        /\ UNCHANGED <<stored, attempt>> /\ attempt \in Nat /\ attempt <= MaxRetries /\ MaxRetries \in Nat
    BY <1>6, ReportSettles, ConfigAssumption DEF Report, Types, LoopTypes, FlushTypes, ConfigAssumption
  <2>2. new \in [table : Tables, rows : Seq(Rows), err : BOOLEAN]
    BY <2>1
  <2>3. new.rows = buffer[table] /\ (new.err <=> lpc = "reportErr")
    OBVIOUS
  <2> HIDE DEF new
  <2>4. /\ DOMAIN reports' = DOMAIN reports \cup {n}
        /\ \A i \in DOMAIN reports : reports'[i] = reports[i]
        /\ reports'[n] = new
        /\ Reported' = Reported \cup RowsIn(buffer[table])
    <3>1. reports \in Seq([table : Tables, rows : Seq(Rows), err : BOOLEAN])
      BY DEF Types, FlushTypes
    <3> QED BY <2>1, <2>2, <2>3, <3>1, ReportedGrows
  <2> HIDE DEF n
  <2> SUFFICES ASSUME NEW r \in Rows
               PROVE  /\ r \notin Reported' => stored[r] = NoCopy
                      /\ \A i \in DOMAIN reports' : r \in RowsIn(reports'[i].rows) =>
                            /\ stored[r].sure = (IF reports'[i].err THEN 0 ELSE 1)
                            /\ stored[r].unsure <= MaxRetries + 1 - stored[r].sure
    BY <2>1 DEF StoredInv, Inserting
  <2>5. r \notin Reported' => stored[r] = NoCopy
    BY <2>4 DEF StoredInv, Inserting
  <2>6. ASSUME NEW i \in DOMAIN reports', r \in RowsIn(reports'[i].rows)
        PROVE  /\ stored[r].sure = (IF reports'[i].err THEN 0 ELSE 1)
               /\ stored[r].unsure <= MaxRetries + 1 - stored[r].sure
    <3>1. CASE i \in DOMAIN reports
      BY <2>4, <2>6, <3>1 DEF StoredInv
    <3>2. CASE i = n
      <4>1. /\ stored[r].sure = (IF lpc = "reportOk" THEN 1 ELSE 0)
            /\ stored[r].unsure <= (IF lpc = "reportErr" THEN attempt + 1 ELSE attempt)
        BY <2>1, <2>3, <2>4, <2>6, <3>2 DEF StoredInv, Inserting
      <4>2. stored[r].unsure \in Nat
        BY DEF Types, FlushTypes, Copies
      <4>3. CASE lpc = "reportOk"
        <5>1. stored[r].sure = 1 /\ stored[r].unsure <= attempt /\ ~reports'[i].err
          BY <2>3, <2>4, <3>2, <4>1, <4>3
        <5> QED BY <2>1, <4>2, <5>1
      <4>4. CASE lpc = "reportErr"
        <5>1. stored[r].sure = 0 /\ stored[r].unsure <= attempt + 1 /\ reports'[i].err
          BY <2>3, <2>4, <3>2, <4>1, <4>4
        <5> QED BY <2>1, <4>2, <5>1
      <4> QED BY <2>1, <4>3, <4>4
    <3> QED BY <2>4, <2>6, <3>1, <3>2
  <2> QED BY <2>5, <2>6
<1>7. CASE CallFallback \/ FlushReturn
  BY <1>1, <1>7 DEF CallFallback, FlushReturn
<1> QED BY <1>2, <1>3, <1>4, <1>5, <1>6, <1>7 DEF Next, Flush

LEMMA StoredInvHolds == Spec => []StoredInv
<1>1. Init => StoredInv
  <2> SUFFICES ASSUME Init PROVE StoredInv
    OBVIOUS
  <2>1. reports = <<>> /\ lpc = "off"
    BY DEF Init
  <2>2. \A r \in Rows : stored[r] = NoCopy
    BY DEF Init
  <2>3. \A r \in Rows : ~Inserting(r)
    BY <2>1 DEF Inserting
  <2>4. DOMAIN reports = {}
    BY <2>1
  <2> QED BY <2>2, <2>3, <2>4 DEF StoredInv
<1> QED BY <1>1, StoredInvStep, TypesHold, FlushInvHolds, OnceInvHolds, PTL DEF Spec

\* ClickHouse and the reports agree on every row, whatever the outcomes of the
\* attempts: a row reported ok is stored once for sure, a row reported as failed
\* never is, and unknown outcomes add at most one copy per attempt.
THEOREM StoredAgreesHolds == Spec => []StoredAgrees
<1>1. Types /\ FlushInv /\ OnceInv /\ StoredInv => StoredAgrees
  <2> SUFFICES ASSUME Types, FlushInv, OnceInv, StoredInv, NEW r \in Rows
               PROVE  LET okReports == {i \in DOMAIN reports : ~reports[i].err /\ r \in RowsIn(reports[i].rows)}
                          due == IF lpc = "reportOk" /\ r \in RowsIn(buffer[table]) THEN 1 ELSE 0
                      IN  /\ stored[r].sure = Cardinality(okReports) + due
                          /\ stored[r].unsure <= MaxRetries + 1 - stored[r].sure
    BY DEF StoredAgrees
  <2> DEFINE okReports == {i \in DOMAIN reports : ~reports[i].err /\ r \in RowsIn(reports[i].rows)}
             due == IF lpc = "reportOk" /\ r \in RowsIn(buffer[table]) THEN 1 ELSE 0
  <2>0. attempt \in Nat /\ attempt <= MaxRetries /\ MaxRetries \in Nat /\ stored[r].unsure \in Nat
    BY ConfigAssumption DEF Types, FlushTypes, Copies, ConfigAssumption
  <2>1. CASE r \in Reported
    <3>1. PICK n \in DOMAIN reports : r \in RowsIn(reports[n].rows)
      BY <2>1 DEF Reported
    <3>2. \A i \in DOMAIN reports : r \in RowsIn(reports[i].rows) => i = n
      BY <3>1 DEF OnceInv, ReportedOnce, RowsIn
    <3>3. due = 0
      BY <2>1, InsertingNotReported DEF FlushInv, Flushing
    <3>4. /\ stored[r].sure = (IF reports[n].err THEN 0 ELSE 1)
          /\ stored[r].unsure <= MaxRetries + 1 - stored[r].sure
      BY <3>1 DEF StoredInv
    <3>5. CASE reports[n].err
      <4>1. okReports = {}
        BY <3>2, <3>5
      <4> QED BY <3>3, <3>4, <3>5, <4>1, FS_EmptySet
    <3>6. CASE ~reports[n].err
      <4>1. okReports = {n}
        BY <3>1, <3>2, <3>6
      <4>2. Cardinality(okReports) = 1
        BY <4>1, FS_Singleton
      <4> QED BY <3>3, <3>4, <3>6, <4>2
    <3> QED BY <3>5, <3>6
  <2>2. CASE r \notin Reported
    <3>1. okReports = {} /\ Cardinality(okReports) = 0
      <4>1. okReports = {}
        BY <2>2 DEF Reported
      <4> QED BY <4>1, FS_EmptySet
    <3>2. CASE Inserting(r)
      <4>1. /\ stored[r].sure = (IF lpc = "reportOk" THEN 1 ELSE 0)
            /\ stored[r].unsure <= (IF lpc = "reportErr" THEN attempt + 1 ELSE attempt)
        BY <3>2 DEF StoredInv
      <4>2. due = IF lpc = "reportOk" THEN 1 ELSE 0
        BY <3>2 DEF Inserting
      <4>3. stored[r].unsure <= MaxRetries + 1 - stored[r].sure
        <5>1. CASE lpc = "reportOk"
          <6>1. stored[r].sure = 1 /\ stored[r].unsure <= attempt
            BY <4>1, <5>1
          <6> QED BY <2>0, <6>1
        <5>2. CASE lpc # "reportOk"
          <6>1. stored[r].sure = 0 /\ stored[r].unsure <= attempt + 1
            BY <2>0, <4>1, <5>2
          <6> QED BY <2>0, <6>1
        <5> QED BY <5>1, <5>2
      <4>4. stored[r].sure = 0 + due
        BY <4>1, <4>2
      <4> QED BY <3>1, <4>3, <4>4
    <3>3. CASE ~Inserting(r)
      <4>1. stored[r].sure = 0 /\ stored[r].unsure = 0
        BY <2>2, <3>3 DEF StoredInv, NoCopy
      <4>2. due = 0
        BY <3>3 DEF Inserting
      <4> QED BY <2>0, <3>1, <4>1, <4>2
    <3> QED BY <3>2, <3>3
  <2> QED BY <2>1, <2>2
<1> QED BY <1>1, StoredInvHolds, TypesHold, FlushInvHolds, OnceInvHolds, PTL

----------------------------------------------------------------------------
(* What stands before a row in a sequence.                                  *)

LEMMA BeforeMember ==
    ASSUME NEW s, NEW r, NEW q
    PROVE  q \in Before(s, r) <=> \E j \in DOMAIN s : \E i \in 1..(j - 1) : s[j] = r /\ s[i] = q
BY DEF Before

LEMMA BeforeInRows ==
    ASSUME NEW S, NEW s \in Seq(S), NEW r
    PROVE  /\ Before(s, r) \subseteq RowsIn(s)
           /\ r \notin RowsIn(s) => Before(s, r) = {}
<1>1. Len(s) \in Nat /\ DOMAIN s = 1..Len(s)
  BY LenProperties
<1>2. \A j \in DOMAIN s : \A i \in 1..(j - 1) : i \in DOMAIN s
  BY <1>1
<1> QED BY <1>2, BeforeMember DEF RowsIn

LEMMA BeforeConcat ==
    ASSUME NEW S, NEW s \in Seq(S), NEW u \in Seq(S), NEW r
    PROVE  Before(s \o u, r) =
              Before(s, r) \cup (IF r \in RowsIn(u) THEN RowsIn(s) \cup Before(u, r) ELSE {})
<1> DEFINE c == s \o u
<1>1. /\ Len(s) \in Nat /\ Len(u) \in Nat
      /\ DOMAIN s = 1..Len(s) /\ DOMAIN u = 1..Len(u) /\ DOMAIN c = 1..(Len(s) + Len(u))
      /\ \A i \in 1..(Len(s) + Len(u)) : c[i] = IF i <= Len(s) THEN s[i] ELSE u[i - Len(s)]
  BY ConcatProperties, LenProperties
<1> HIDE DEF c
<1>2. \A i \in DOMAIN s : i \in DOMAIN c /\ c[i] = s[i]
  BY <1>1
<1>3. \A i \in DOMAIN u : i + Len(s) \in DOMAIN c /\ c[i + Len(s)] = u[i]
  BY <1>1
<1>4. ASSUME NEW q \in Before(c, r)
      PROVE  q \in Before(s, r) \/ (r \in RowsIn(u) /\ q \in RowsIn(s) \cup Before(u, r))
  <2>0. PICK j \in DOMAIN c : \E i \in 1..(j - 1) : c[j] = r /\ c[i] = q
    BY <1>4, BeforeMember
  <2>1. PICK i \in 1..(j - 1) : c[j] = r /\ c[i] = q
    BY <2>0
  <2>2. CASE j <= Len(s)
    <3>1. j \in DOMAIN s /\ i \in DOMAIN s
      BY <1>1, <2>1, <2>2
    <3> QED BY <1>2, <2>1, <3>1, BeforeMember
  <2>3. CASE j > Len(s) /\ i <= Len(s)
    <3>1. j - Len(s) \in DOMAIN u /\ c[j] = u[j - Len(s)]
      BY <1>1, <2>1, <2>3
    <3>2. i \in DOMAIN s
      BY <1>1, <2>1, <2>3
    <3> QED BY <1>2, <2>1, <3>1, <3>2 DEF RowsIn
  <2>4. CASE i > Len(s)
    <3>1. j - Len(s) \in DOMAIN u /\ c[j] = u[j - Len(s)]
      BY <1>1, <2>1, <2>4
    <3>2. i - Len(s) \in 1..((j - Len(s)) - 1) /\ c[i] = u[i - Len(s)]
      BY <1>1, <2>1, <2>4
    <3>3. q \in Before(u, r)
      BY <2>1, <3>1, <3>2, BeforeMember
    <3> QED BY <2>1, <3>1, <3>3 DEF RowsIn
  <2> QED BY <1>1, <2>1, <2>2, <2>3, <2>4
<1>5. ASSUME NEW q \in Before(s, r) PROVE q \in Before(c, r)
  <2>0. PICK j \in DOMAIN s : \E i \in 1..(j - 1) : s[j] = r /\ s[i] = q
    BY <1>5, BeforeMember
  <2>1. PICK i \in 1..(j - 1) : s[j] = r /\ s[i] = q
    BY <2>0
  <2>2. i \in DOMAIN s
    BY <1>1, <2>1
  <2> QED BY <1>2, <2>1, <2>2, BeforeMember
<1>6. ASSUME r \in RowsIn(u), NEW q \in RowsIn(s) PROVE q \in Before(c, r)
  <2>1. PICK j \in DOMAIN u, i \in DOMAIN s : u[j] = r /\ s[i] = q
    BY <1>6 DEF RowsIn
  <2>2. i \in 1..((j + Len(s)) - 1)
    BY <1>1, <2>1
  <2> QED BY <1>2, <1>3, <2>1, <2>2, BeforeMember
<1>7. ASSUME NEW q \in Before(u, r) PROVE q \in Before(c, r)
  <2>0. PICK j \in DOMAIN u : \E i \in 1..(j - 1) : u[j] = r /\ u[i] = q
    BY <1>7, BeforeMember
  <2>1. PICK i \in 1..(j - 1) : u[j] = r /\ u[i] = q
    BY <2>0
  <2>2. i \in DOMAIN u /\ i + Len(s) \in 1..((j + Len(s)) - 1)
    BY <1>1, <2>1
  <2> QED BY <1>3, <2>1, <2>2, BeforeMember
<1>8. Before(c, r) = Before(s, r) \cup (IF r \in RowsIn(u) THEN RowsIn(s) \cup Before(u, r) ELSE {})
  BY <1>4, <1>5, <1>6, <1>7
<1> QED BY <1>8 DEF c

LEMMA BeforeSingle == ASSUME NEW x, NEW r PROVE RowsIn(<<x>>) = {x} /\ Before(<<x>>, r) = {}
<1>1. DOMAIN <<x>> = {1} /\ <<x>>[1] = x
  OBVIOUS
<1> QED BY <1>1, BeforeMember DEF RowsIn

\* A row that joins at the end has the whole sequence before it.
LEMMA BeforeAppend ==
    ASSUME NEW S, NEW s \in Seq(S), NEW x \in S, x \notin RowsIn(s), NEW r
    PROVE  Before(Append(s, x), r) = IF r = x THEN RowsIn(s) ELSE Before(s, r)
<1> DEFINE u == <<x>>
<1>1. u \in Seq(S) /\ Append(s, x) = s \o u
  BY AppendIsConcat
<1>2. RowsIn(u) = {x} /\ Before(u, r) = {}
  BY BeforeSingle
<1> HIDE DEF u
<1>3. Before(s \o u, r) = Before(s, r) \cup (IF r \in RowsIn(u) THEN RowsIn(s) \cup Before(u, r) ELSE {})
  BY <1>1, BeforeConcat
<1>4. r = x => Before(s, r) = {}
  BY BeforeInRows
<1> QED BY <1>1, <1>2, <1>3, <1>4

\* The row that leaves a channel is the only difference to the others.
LEMMA BeforeTail ==
    ASSUME NEW S, NEW u \in Seq(S), NEW c \in Seq(S), c # <<>>, NEW r, r # Head(c)
    PROVE  Before(u \o c, r) \cup {Head(c)} = Before(u \o Tail(c), r) \cup {Head(c)}
<1> DEFINE x == Head(c)
           one == <<x>>
           rest == Tail(c)
<1>1. x \in S /\ one \in Seq(S) /\ rest \in Seq(S) /\ c = one \o rest
  BY HeadTailProperties
<1>2. RowsIn(one) = {x} /\ Before(one, r) = {}
  BY BeforeSingle
<1>3. r # x
  OBVIOUS
<1> HIDE DEF one, x, rest
<1>4. Before(c, r) = Before(one, r) \cup (IF r \in RowsIn(rest) THEN RowsIn(one) \cup Before(rest, r) ELSE {})
  BY <1>1, BeforeConcat
<1>5. RowsIn(c) = RowsIn(one) \cup RowsIn(rest)
  BY <1>1, ConcatRows
<1>6. Before(u \o c, r) = Before(u, r) \cup (IF r \in RowsIn(c) THEN RowsIn(u) \cup Before(c, r) ELSE {})
  BY BeforeConcat
<1>7. Before(u \o rest, r) = Before(u, r) \cup (IF r \in RowsIn(rest) THEN RowsIn(u) \cup Before(rest, r) ELSE {})
  BY <1>1, BeforeConcat
<1>8. Before(u \o c, r) \cup {x} = Before(u \o rest, r) \cup {x}
  BY <1>2, <1>3, <1>4, <1>5, <1>6, <1>7
<1> QED BY <1>8 DEF x, rest

\* In a sequence without repetition.
LEMMA BeforeIndex ==
    ASSUME NEW s, Distinct(s), NEW i \in DOMAIN s
    PROVE  Before(s, s[i]) = {s[j] : j \in 1..(i - 1)}
BY BeforeMember DEF Distinct

\* A sequence of rows is one of the rows in it.
LEMMA SeqOfItsRows == ASSUME NEW S, NEW s \in Seq(S), NEW T, RowsIn(s) \subseteq T PROVE s \in Seq(T)
<1>1. s = [i \in 1..Len(s) |-> s[i]] /\ Len(s) \in Nat /\ DOMAIN s = 1..Len(s)
  BY LenProperties
<1>2. \A i \in 1..Len(s) : s[i] \in T
  BY <1>1 DEF RowsIn
<1> QED BY <1>1, <1>2, IsASeq

----------------------------------------------------------------------------
(* The writer implements RowDelivery.                                       *)

LEMMA UnsettledType == Types => \A t \in Tables : Unsettled(t) \in Seq(Rows)
BY EmptySeq DEF Types, LoopTypes, Unsettled

\* The rows that wait, and those ahead of one, are a function of the line of each
\* table: a step that leaves the lines alone is a stutter.
LEMMA LinesStay ==
    ASSUME \A t \in Tables : Unsettled(t)' = Unsettled(t), InChannel' = InChannel
    PROVE  Waiting' = Waiting /\ \A r \in Rows : Ahead(r)' = Ahead(r)
<1>1. Waiting' = Waiting
  BY DEF Waiting
<1>2. \A r \in Rows : TableOf[r] \in Tables
  BY RowsAssumption DEF RowsAssumption
<1>3. \A r \in Rows : Line(TableOf[r])' = Line(TableOf[r])
  BY <1>2 DEF Line
<1>4. \A r \in Rows : Ahead(r)' = Ahead(r)
  BY <1>3 DEF Ahead
<1> QED BY <1>1, <1>4

\* A send puts one row at the end of every line; it counts in that of its table,
\* unless it is nil.
LEMMA SendAccepts ==
    ASSUME Types, OnceInv, NEW w \in Writers, WriteSend(w), NEW x, x = Head(pending[w])
    PROVE  /\ x \in Rows /\ x \notin Waiting /\ x \notin Reported
           /\ Waiting' = Waiting \cup ({x} \ NilRows)
           /\ \A r \in Rows \ NilRows :
                 Ahead(r)' = IF r = x THEN {q \in Waiting : TableOf[q] = TableOf[x]} ELSE Ahead(r)
           /\ UNCHANGED <<reports, inClosed>> /\ ~inClosed
<1>1. pending[w] # <<>> /\ pending[w] \in Seq(Rows)
  BY DEF WriteSend, Types, WriteTypes
<1>2. x \in Rows /\ x \in RowsIn(pending[w])
  BY <1>1, HeadTailProperties, TailRow
<1>3. x \notin accepted
  BY <1>2 DEF OnceInv, CallsOnce
<1>4. InChannel' = Append(InChannel, x)
  BY <1>2, SendAppends DEF WriteSend, Types
<1>5. ~inClosed /\ UNCHANGED <<reports, inClosed>> /\ \A t \in Tables : Unsettled(t)' = Unsettled(t)
  BY DEF WriteSend, flushVars, loopVars, Unsettled, Flushing
<1>6. x \notin RowsIn(InChannel) /\ x \notin Reported /\ \A t \in Tables : x \notin RowsIn(Unsettled(t))
  BY <1>3 DEF OnceInv, PlacedOnce
<1>7. InChannel \in Seq(Rows) /\ \A t \in Tables : Unsettled(t) \in Seq(Rows)
  BY ChannelType, UnsettledType DEF Types
<1>8. RowsIn(InChannel') = RowsIn(InChannel) \cup {x}
  BY <1>2, <1>4, <1>7, AppendRow
<1>9. x \notin Waiting /\ Waiting' = Waiting \cup ({x} \ NilRows)
  BY <1>5, <1>6, <1>8 DEF Waiting
<1>10. ASSUME NEW r \in Rows \ NilRows
       PROVE  Ahead(r)' = IF r = x THEN {q \in Waiting : TableOf[q] = TableOf[x]} ELSE Ahead(r)
  <2> DEFINE t == TableOf[r]
             line == Unsettled(t) \o InChannel
  <2>1. t \in Tables
    BY RowsAssumption DEF RowsAssumption
  <2>2. line \in Seq(Rows) /\ RowsIn(line) = RowsIn(Unsettled(t)) \cup RowsIn(InChannel)
    BY <1>7, <2>1, ConcatProperties, ConcatRows
  <2>3. Line(t)' = Append(line, x)
    <3>1. ASSUME NEW u \in Seq(Rows), NEW c \in Seq(Rows)
          PROVE  u \o Append(c, x) = Append(u \o c, x)
      <4>1. /\ <<x>> \in Seq(Rows) /\ u \o c \in Seq(Rows)
            /\ Append(c, x) = c \o <<x>> /\ Append(u \o c, x) = (u \o c) \o <<x>>
        BY <1>2, ConcatProperties, AppendIsConcat
      <4> QED BY <4>1, ConcatAssociative
    <3>2. Line(t)' = Unsettled(t) \o Append(InChannel, x)
      BY <1>4, <1>5, <2>1 DEF Line
    <3> QED BY <1>7, <2>1, <3>1, <3>2
  <2>4. Line(t) = line
    BY DEF Line
  <2>5. x \notin RowsIn(line)
    BY <1>6, <2>1, <2>2
  <2>6. Ahead(r)' = {q \in Before(Line(t)', r) \ NilRows : TableOf[q] = t}
    BY DEF Ahead
  <2>7. Ahead(r) = {q \in Before(Line(t), r) \ NilRows : TableOf[q] = t}
    BY DEF Ahead
  <2>8. \A q \in Waiting : TableOf[q] = t => q \in RowsIn(Unsettled(t)) \cup RowsIn(InChannel)
    BY <2>1 DEF Waiting, OnceInv, PlacedOnce
  <2>9. \A q \in RowsIn(Unsettled(t)) \cup RowsIn(InChannel) : q \notin NilRows => q \in Waiting
    BY <2>1 DEF Waiting
  <2>10. Waiting \cap NilRows = {}
    BY DEF Waiting
  <2> HIDE DEF line
  <2>11. Before(Append(line, x), r) = IF r = x THEN RowsIn(line) ELSE Before(line, r)
    <3>1. ASSUME NEW u \in Seq(Rows), x \notin RowsIn(u)
          PROVE  Before(Append(u, x), r) = IF r = x THEN RowsIn(u) ELSE Before(u, r)
      BY <1>2, <3>1, BeforeAppend
    <3> QED BY <2>2, <2>5, <3>1
  <2>12. CASE r = x
    <3>1. Ahead(r)' = {q \in RowsIn(line) \ NilRows : TableOf[q] = t}
      BY <2>3, <2>6, <2>11, <2>12
    <3> QED BY <2>2, <2>8, <2>9, <2>10, <2>12, <3>1
  <2>13. CASE r # x
    BY <2>3, <2>4, <2>6, <2>7, <2>11, <2>13
  <2> QED BY <2>12, <2>13
<1> QED BY <1>2, <1>5, <1>6, <1>9, <1>10

\* A receive moves a row from the channel to the end of what the map holds for
\* its table: no line changes but for rows of other tables, and nil ones.
LEMMA ReceiveStutters ==
    ASSUME Types, OnceInv, Receive
    PROVE  /\ Waiting' = Waiting
           /\ \A r \in Rows \ NilRows : Ahead(r)' = Ahead(r)
           /\ UNCHANGED <<reports, inClosed>>
<1> DEFINE x == Head(InChannel)
           rest == Tail(InChannel)
           one == <<x>>
<1>1. /\ InChannel # <<>> /\ x \in Rows /\ InChannel' = rest
      /\ UNCHANGED <<reports, inClosed>>
      /\ \A t \in Tables : Unsettled(t)' =
            IF x \notin NilRows /\ TableOf[x] = t THEN Append(Unsettled(t), x) ELSE Unsettled(t)
  BY ReceiveMoves
<1>2. InChannel \in Seq(Rows) /\ \A t \in Tables : Unsettled(t) \in Seq(Rows)
  BY ChannelType, UnsettledType DEF Types
<1>3. /\ RowsIn(InChannel) = {x} \cup RowsIn(rest)
      /\ x \notin RowsIn(rest)
      /\ one \in Seq(Rows) /\ rest \in Seq(Rows) /\ InChannel = one \o rest
  BY <1>1, <1>2, TailRow, HeadTailProperties DEF OnceInv, PlacedOnce
<1>4. \A r \in Rows : TableOf[r] \in Tables
  BY RowsAssumption DEF RowsAssumption
<1>5. \A u \in Seq(Rows) : Append(u, x) = u \o one
  BY <1>1, AppendIsConcat
<1>6. ASSUME NEW r \in Rows \ NilRows
      PROVE  Before(Unsettled(TableOf[r]) \o InChannel, r) \cup {x} =
                Before(Unsettled(TableOf[r]) \o rest, r) \cup {x}
             \/ r = x
  <2> SUFFICES ASSUME r # x
               PROVE  Before(Unsettled(TableOf[r]) \o InChannel, r) \cup {x} =
                         Before(Unsettled(TableOf[r]) \o rest, r) \cup {x}
    OBVIOUS
  <2>1. Unsettled(TableOf[r]) \in Seq(Rows)
    BY <1>2, <1>4
  <2> QED BY <1>1, <1>2, <2>1, BeforeTail
<1> HIDE DEF x, rest, one
<1>7. Waiting' = Waiting
  <2>1. ASSUME NEW u \in Seq(Rows) PROVE RowsIn(Append(u, x)) = RowsIn(u) \cup {x}
    BY <1>1, AppendRow
  <2>2. \A t \in Tables : RowsIn(Unsettled(t)') =
           IF x \notin NilRows /\ TableOf[x] = t THEN RowsIn(Unsettled(t)) \cup {x} ELSE RowsIn(Unsettled(t))
    BY <1>1, <1>2, <2>1
  <2> QED BY <1>1, <1>3, <1>4, <2>2 DEF Waiting
<1>8. ASSUME NEW r \in Rows \ NilRows
      PROVE  Ahead(r)' = Ahead(r)
  <2> DEFINE t == TableOf[r]
  <2>1. t \in Tables /\ Unsettled(t) \in Seq(Rows)
    BY <1>2, <1>4
  <2>2. Ahead(r)' = {q \in Before(Unsettled(t)' \o InChannel', r) \ NilRows : TableOf[q] = t}
    BY DEF Ahead, Line
  <2>3. Ahead(r) = {q \in Before(Unsettled(t) \o InChannel, r) \ NilRows : TableOf[q] = t}
    BY DEF Ahead, Line
  <2>4. CASE x \notin NilRows /\ TableOf[x] = t
    <3>1. Unsettled(t)' = Unsettled(t) \o one
      BY <1>1, <1>5, <2>1, <2>4
    <3>2. \A u \in Seq(Rows) : (u \o one) \o rest = u \o InChannel
      BY <1>3, ConcatAssociative
    <3>3. Unsettled(t)' \o InChannel' = Unsettled(t) \o InChannel
      BY <1>1, <2>1, <3>1, <3>2
    <3> QED BY <2>2, <2>3, <3>3
  <2>5. CASE ~(x \notin NilRows /\ TableOf[x] = t)
    <3>1. r # x
      BY <2>5
    <3>2. Unsettled(t)' = Unsettled(t) /\ InChannel' = rest
      BY <1>1, <2>1, <2>5
    <3>3. Before(Unsettled(t) \o InChannel, r) \cup {x} = Before(Unsettled(t) \o rest, r) \cup {x}
      BY <1>6, <3>1
    <3> QED BY <2>2, <2>3, <2>5, <3>2, <3>3
  <2> QED BY <2>4, <2>5
<1> QED BY <1>1, <1>7, <1>8

\* A report takes the whole batch of one table off the front of its line.
LEMMA ReportTakesFront ==
    ASSUME Types, FlushInv, OnceInv, Report, NEW batch, batch = buffer[table]
    PROVE  /\ table \in Tables /\ batch \in Seq(Rows \ NilRows) /\ batch # <<>>
           /\ \A r \in RowsIn(batch) : TableOf[r] = table
           /\ \A i \in DOMAIN batch :
                 batch[i] \in Waiting /\ Ahead(batch[i]) = {batch[j] : j \in 1..(i - 1)}
           /\ Waiting' = Waiting \ RowsIn(batch)
           /\ \A r \in Rows \ NilRows :
                 Ahead(r)' = IF r \in RowsIn(batch) THEN {} ELSE Ahead(r) \ RowsIn(batch)
<1>1. /\ InChannel' = InChannel
      /\ table \in Tables /\ Unsettled(table) = batch /\ batch # <<>>
      /\ \A t \in Tables : Unsettled(t)' = IF t = table THEN <<>> ELSE Unsettled(t)
  BY ReportSettles
<1>2. InChannel \in Seq(Rows) /\ \A t \in Tables : Unsettled(t) \in Seq(Rows)
  BY ChannelType, UnsettledType DEF Types
<1>3. batch \in Seq(Rows) /\ Distinct(batch) /\ RowsIn(batch) \subseteq Rows
  BY <1>1, <1>2, RowsInType DEF OnceInv, PlacedOnce
<1>4. \A r \in RowsIn(batch) : r \notin NilRows /\ TableOf[r] = table /\ r \notin RowsIn(InChannel)
  BY <1>1 DEF OnceInv, PlacedOnce
<1>5. batch \in Seq(Rows \ NilRows)
  <2>1. RowsIn(batch) \subseteq Rows \ NilRows
    BY <1>3, <1>4
  <2> QED BY <1>3, <2>1, SeqOfItsRows
<1>6. \A t \in Tables : t # table => RowsIn(Unsettled(t)) \cap RowsIn(batch) = {}
  BY <1>4 DEF OnceInv, PlacedOnce
<1>7. Waiting' = Waiting \ RowsIn(batch)
  <2>1. \A t \in Tables : RowsIn(Unsettled(t)') = IF t = table THEN {} ELSE RowsIn(Unsettled(t))
    BY <1>1, RowsInEmpty
  <2> QED BY <1>1, <1>4, <1>6, <2>1 DEF Waiting
\* What stands before a row in the line of its table.
<1>8. ASSUME NEW r \in Rows, NEW u \in Seq(Rows)
      PROVE  Before(u \o InChannel, r) = Before(u, r) \cup
                (IF r \in RowsIn(InChannel) THEN RowsIn(u) \cup Before(InChannel, r) ELSE {})
  BY <1>2, BeforeConcat
<1>9. ASSUME NEW r \in Rows PROVE Before(InChannel, r) \subseteq RowsIn(InChannel)
  BY <1>2, BeforeInRows
<1>10. ASSUME NEW r \in Rows
       PROVE  /\ Before(batch, r) \subseteq RowsIn(batch)
              /\ r \notin RowsIn(batch) => Before(batch, r) = {}
  BY <1>3, BeforeInRows
<1>11. ASSUME NEW i \in DOMAIN batch
       PROVE  batch[i] \in Waiting /\ Ahead(batch[i]) = {batch[j] : j \in 1..(i - 1)}
  <2> DEFINE r == batch[i]
  <2>1. r \in RowsIn(batch) /\ r \in Rows /\ TableOf[r] = table
    BY <1>3, <1>4 DEF RowsIn
  <2>2. r \in Waiting
    BY <1>1, <1>4, <2>1 DEF Waiting
  <2>3. Before(batch, r) = {batch[j] : j \in 1..(i - 1)}
    BY <1>3, BeforeIndex
  <2> HIDE DEF r
  <2>4. Before(batch \o InChannel, r) = Before(batch, r)
    <3>1. Before(batch \o InChannel, r) = Before(batch, r) \cup
                (IF r \in RowsIn(InChannel) THEN RowsIn(batch) \cup Before(InChannel, r) ELSE {})
      BY <1>3, <1>8, <2>1
    <3>2. r \notin RowsIn(InChannel)
      BY <1>4, <2>1
    <3> QED BY <3>1, <3>2
  <2>5. Ahead(r) = {q \in Before(batch \o InChannel, r) \ NilRows : TableOf[q] = table}
    BY <1>1, <2>1 DEF Ahead, Line
  <2>6. Ahead(r) = Before(batch, r)
    BY <1>4, <1>10, <2>1, <2>4, <2>5
  <2> QED BY <2>2, <2>3, <2>6 DEF r
<1>12. ASSUME NEW r \in Rows \ NilRows
       PROVE  Ahead(r)' = IF r \in RowsIn(batch) THEN {} ELSE Ahead(r) \ RowsIn(batch)
  <2> DEFINE t == TableOf[r]
  <2>1. t \in Tables
    BY RowsAssumption DEF RowsAssumption
  <2>2. Ahead(r)' = {q \in Before(Unsettled(t)' \o InChannel', r) \ NilRows : TableOf[q] = t}
    BY DEF Ahead, Line
  <2>3. Ahead(r) = {q \in Before(Unsettled(t) \o InChannel, r) \ NilRows : TableOf[q] = t}
    BY DEF Ahead, Line
  <2>4. CASE t = table
    <3> DEFINE none == <<>>
    <3>1. Unsettled(t)' = none /\ Unsettled(t) = batch
      BY <1>1, <2>1, <2>4
    <3>2. none \in Seq(Rows) /\ RowsIn(none) = {} /\ Before(none, r) = {}
      <4>1. none \in Seq(Rows) /\ RowsIn(none) = {}
        BY RowsInEmpty
      <4>2. r \notin RowsIn(none) => Before(none, r) = {}
        BY <4>1, BeforeInRows
      <4> QED BY <4>1, <4>2
    <3> HIDE DEF none
    <3>3. Before(none \o InChannel, r) = IF r \in RowsIn(InChannel) THEN Before(InChannel, r) ELSE {}
      BY <1>8, <3>2
    <3>4. Before(batch \o InChannel, r) = Before(batch, r) \cup
                (IF r \in RowsIn(InChannel) THEN RowsIn(batch) \cup Before(InChannel, r) ELSE {})
      BY <1>3, <1>8
    <3>5. Ahead(r)' = {q \in Before(none \o InChannel, r) \ NilRows : TableOf[q] = t}
      BY <1>1, <2>2, <3>1
    <3>6. Ahead(r) = {q \in Before(batch \o InChannel, r) \ NilRows : TableOf[q] = t}
      BY <2>3, <3>1
    <3>7. CASE r \in RowsIn(InChannel)
      <4>1. r \notin RowsIn(batch) /\ Before(batch, r) = {}
        BY <1>4, <1>10, <3>7
      <4>2. \A q \in Before(InChannel, r) : q \notin RowsIn(batch)
        BY <1>4, <1>9
      <4> QED BY <3>3, <3>4, <3>5, <3>6, <3>7, <4>1, <4>2
    <3>8. CASE r \notin RowsIn(InChannel)
      BY <1>10, <3>3, <3>4, <3>5, <3>6, <3>8
    <3> QED BY <3>7, <3>8
  <2>5. CASE t # table
    <3>1. Ahead(r)' = Ahead(r)
      BY <1>1, <2>1, <2>2, <2>3, <2>5
    <3>2. Ahead(r) \cap RowsIn(batch) = {}
      BY <1>4, <2>3, <2>5
    <3>3. r \notin RowsIn(batch)
      BY <1>4, <2>5
    <3> QED BY <3>1, <3>2, <3>3
  <2> QED BY <2>4, <2>5
<1> QED BY <1>1, <1>4, <1>5, <1>7, <1>11, <1>12

\* In is closed by Close alone, and stays closed.
LEMMA ClosedForGood ==
    ASSUME [Next]_vars
    PROVE  inClosed' = inClosed \/ inClosed' = TRUE
<1>1. CASE (\E w \in Writers : Write(w)) \/ Start \/ Tick \/ Age \/ Refresher \/ UNCHANGED vars
  BY <1>1 DEF Write, WriteCall, WriteSend, WriteCancelled, WriteFull, WritePanic, WriteEnds, Start,
        Tick, Age, Refresher, RefreshTick, RefreshReturn, RefreshDone, vars, chanVars
<1>2. CASE (\E k \in Closers : Close(k)) \/ PumpStep
  BY <1>2 DEF Close, CloseCAS, CloseSignal, CloseIn, CloseWait, chanVars,
        PumpStep, Pump, PumpReceive, PumpSend, PumpClose
<1>3. CASE Select \/ Drain \/ Flush
  BY <1>3 DEF Select, Drain, LoopReceive, LoopOutClosed, LoopTick, LoopDone, DrainReceive, DrainDefault,
        Flush, FlushPick, InsertAttempt, Report, CallFallback, FlushReturn, chanVars
<1> QED BY <1>1, <1>2, <1>3 DEF Next

LEMMA DeliveryStep ==
    ASSUME Types, FlushInv, OnceInv, [Next]_vars
    PROVE  [Delivery!Next]_(Delivery!vars)
<1> DEFINE ahead == [r \in Rows \ NilRows |-> Ahead(r)]
<1>1. ASSUME Waiting' = Waiting, ahead' = ahead, UNCHANGED <<reports, inClosed>>
      PROVE  UNCHANGED Delivery!vars
  BY <1>1 DEF Delivery!vars
<1>2. ASSUME RowsStay
      PROVE  [Delivery!Next]_(Delivery!vars)
  <2>1. Waiting' = Waiting /\ ahead' = ahead /\ reports' = reports
    BY <1>2, LinesStay DEF RowsStay
  <2>2. CASE inClosed' = inClosed
    BY <1>1, <2>1, <2>2
  <2>3. CASE inClosed' # inClosed
    <3>1. ~inClosed /\ inClosed' = TRUE
      BY <2>3, ClosedForGood DEF Types, ChanTypeOK
    <3>2. Delivery!Shut
      BY <2>1, <3>1 DEF Delivery!Shut
    <3> QED BY <3>2 DEF Delivery!Next
  <2> QED BY <2>2, <2>3
<1>3. ASSUME NEW w \in Writers, WriteSend(w)
      PROVE  [Delivery!Next]_(Delivery!vars)
  <2> DEFINE x == Head(pending[w])
  <2>1. /\ x \in Rows /\ x \notin Waiting /\ x \notin Reported
        /\ Waiting' = Waiting \cup ({x} \ NilRows)
        /\ \A r \in Rows \ NilRows :
              Ahead(r)' = IF r = x THEN {q \in Waiting : TableOf[q] = TableOf[x]} ELSE Ahead(r)
        /\ UNCHANGED <<reports, inClosed>> /\ ~inClosed
    BY <1>3, SendAccepts
  <2> HIDE DEF x
  <2>2. CASE x \in NilRows
    <3>1. Waiting' = Waiting /\ ahead' = ahead
      BY <2>1, <2>2
    <3> QED BY <1>1, <2>1, <3>1
  <2>3. CASE x \notin NilRows
    <3>1. x \in Waiting' \ Waiting /\ x \in Rows \ NilRows /\ Waiting' = Waiting \cup {x}
      BY <2>1, <2>3
    <3>2. \A i \in DOMAIN reports : \A m \in DOMAIN reports[i].rows : reports[i].rows[m] # x
      BY <2>1 DEF Reported, RowsIn
    <3>3. ahead' = [ahead EXCEPT ![x] = {q \in Waiting : TableOf[q] = TableOf[x]}]
      BY <2>1, <3>1
    <3>4. Delivery!Accept
      BY <2>1, <3>1, <3>2, <3>3 DEF Delivery!Accept
    <3> QED BY <3>4 DEF Delivery!Next
  <2> QED BY <2>2, <2>3
<1>4. CASE Receive
  <2>1. Waiting' = Waiting /\ ahead' = ahead /\ UNCHANGED <<reports, inClosed>>
    BY <1>4, ReceiveStutters
  <2> QED BY <1>1, <2>1
<1>5. CASE Report
  <2> DEFINE batch == buffer[table]
             new == [table |-> table, rows |-> batch, err |-> lpc = "reportErr"]
             n == Len(reports) + 1
  <2>1. reports' = Append(reports, new) /\ UNCHANGED inClosed
    BY <1>5, ReportSettles
  <2>2. /\ table \in Tables /\ batch \in Seq(Rows \ NilRows) /\ batch # <<>>
        /\ \A r \in RowsIn(batch) : TableOf[r] = table
        /\ \A i \in DOMAIN batch :
              batch[i] \in Waiting /\ Ahead(batch[i]) = {batch[j] : j \in 1..(i - 1)}
        /\ Waiting' = Waiting \ RowsIn(batch)
        /\ \A r \in Rows \ NilRows :
              Ahead(r)' = IF r \in RowsIn(batch) THEN {} ELSE Ahead(r) \ RowsIn(batch)
    BY <1>5, ReportTakesFront
  <2>3. new \in Delivery!Settlements /\ new.rows = batch /\ new.table = table
    BY <2>2 DEF Delivery!Settlements
  <2>4. /\ DOMAIN reports' = DOMAIN reports \cup {n} /\ n \notin DOMAIN reports
        /\ reports'[n] = new
    <3>1. reports \in Seq([table : Tables, rows : Seq(Rows), err : BOOLEAN])
      BY DEF Types, FlushTypes
    <3>2. new \in [table : Tables, rows : Seq(Rows), err : BOOLEAN]
      BY <1>5, ReportSettles DEF Types, LoopTypes
    <3> HIDE DEF new
    <3> QED BY <2>1, <3>1, <3>2, ReportedGrows
  <2> HIDE DEF new, n, batch
  <2>5. new \in {reports'[i] : i \in DOMAIN reports' \ DOMAIN reports}
    BY <2>4
  <2>6. \A i \in DOMAIN batch : batch[i] \in Rows \ NilRows
    BY <2>2, ElementOfSeq, LenProperties
  <2>7. ahead' = [r \in Rows \ NilRows |-> IF r \in RowsIn(batch) THEN {} ELSE ahead[r] \ RowsIn(batch)]
    BY <2>2
  <2>8. \A i \in DOMAIN batch : batch[i] \in Waiting /\ ahead[batch[i]] = {batch[j] : j \in 1..(i - 1)}
    BY <2>2, <2>6
  <2>9. Delivery!Front(batch)
    BY <2>8 DEF Delivery!Front
  <2> HIDE DEF ahead
  <2>10. Delivery!Settle
    BY <2>1, <2>2, <2>3, <2>5, <2>7, <2>9 DEF Delivery!Settle, RowsIn, ahead
  <2> QED BY <2>10 DEF Delivery!Next
<1> QED BY <1>2, <1>3, <1>4, <1>5, QuietSteps

\* The writer implements RowDelivery, for any number of writers, rows and tables:
\* rows are settled once, in the order of the queue of their table, and only if
\* they were accepted.
THEOREM RowDeliveryImplemented == Spec => ImplementsRowDelivery
<1>1. Init => Delivery!Init
  <2> SUFFICES ASSUME Init PROVE Delivery!Init
    OBVIOUS
  <2>1. InChannel = <<>> /\ reports = <<>> /\ inClosed = FALSE
    BY DEF Init, ChanInit, InChannel
  <2>2. \A t \in Tables : Unsettled(t) = <<>>
    BY DEF Init, Unsettled, Flushing, EmptyBuffer
  <2>3. Waiting = {}
    BY <2>1, <2>2, RowsInEmpty DEF Waiting
  <2>4. \A r \in Rows \ NilRows : Ahead(r) = {}
    <3>1. \A r \in Rows : Line(TableOf[r]) = <<>>
      BY <2>1, <2>2, RowsAssumption DEF RowsAssumption, Line
    <3>2. \A r \in Rows : Before(<<>>, r) = {}
      BY DEF Before
    <3> QED BY <3>1, <3>2 DEF Ahead
  <2> QED BY <2>1, <2>3, <2>4 DEF Delivery!Init
<1>2. Types /\ FlushInv /\ OnceInv /\ [Next]_vars => [Delivery!Next]_(Delivery!vars)
  BY DeliveryStep
<1> QED BY <1>1, <1>2, TypesHold, FlushInvHolds, OnceInvHolds, PTL DEF Spec, ImplementsRowDelivery, Delivery!Spec

----------------------------------------------------------------------------
(* The client and the pipeline: their steps are steps of the writer.        *)

LEMMA PipelineStepsWriter == ASSUME [PipelineNext]_allVars PROVE [Next]_vars
<1>1. CASE WriterStep
  <2>1. CASE ClientFlush
    BY <2>1 DEF ClientFlush, ConnOutcomes, Next, Flush
  <2> QED BY <1>1, <2>1 DEF WriterStep, Next
<1>2. CASE ClientStep
  BY <1>2 DEF ClientStep, QueryCall, QueryReturn, RowsClose, WriterCall, OnceStore, OnceReturn, ClientClose,
        ClientLocked, ClientCloseWriter, ClientCloseConn, Next
<1>3. CASE CallbackReturn
  BY <1>3 DEF CallbackReturn, Next, Flush
<1>4. CASE CallbackRecord \/ CloseRecorder \/ RecorderLoop \/ UNCHANGED allVars
  <2>1. UNCHANGED vars
    BY <1>4 DEF CallbackRecord, CloseRecorder, RecorderLoop, allVars
  <2> QED BY <2>1
<1> QED BY <1>1, <1>2, <1>3, <1>4 DEF PipelineNext

\* Whatever is proved of the writer holds of the writer of a pipeline.
THEOREM PipelineRunsWriter == PipelineSpec => Spec
<1>1. PipelineInit => Init
  BY DEF PipelineInit, ClientInit
<1> QED BY <1>1, PipelineStepsWriter, PTL DEF PipelineSpec, Spec

----------------------------------------------------------------------------
(* The lock of the client.                                                  *)

ClientTypes ==
    /\ clientClosed \in BOOLEAN
    /\ connClosed \in BOOLEAN
    /\ writerRef \in {"nil", "torn", "set"}
    /\ wpc \in [Writers -> {"idle", "once", "making", "got", "refused"}]
    /\ qpc \in [Queriers -> {"idle", "query", "reading"}]
    /\ ccpc \in [Closers -> {"idle", "waiting", "writer", "conn", "returned", "noop", "panic"}]

\* Most steps of the pipeline are not the client's own.
LEMMA OtherSteps ==
    ASSUME [PipelineNext]_allVars, ~ClientStep
    PROVE  UNCHANGED <<clientVars, cpc>>
<1>1. CASE WriterStep
  <2>1. UNCHANGED clientVars
    BY <1>1 DEF WriterStep
  <2>2. CASE \E w \in Writers : Start \/ Write(w)
    BY <2>1, <2>2 DEF Start, Write, WriteCall, WriteSend, WriteCancelled, WriteFull, WritePanic, WriteEnds, closeVars
  <2>3. CASE PumpStep \/ Tick \/ Age \/ Refresher
    BY <2>1, <2>3 DEF PumpStep, Tick, Age, Refresher, RefreshTick, RefreshReturn, RefreshDone, closeVars
  <2>4. CASE Select \/ Drain
    BY <2>1, <2>4 DEF Select, LoopReceive, LoopOutClosed, LoopTick, LoopDone, Drain, DrainReceive, DrainDefault, closeVars
  <2>5. CASE ClientFlush
    BY <2>1, <2>5 DEF ClientFlush, FlushPick, InsertAttempt, Report, FlushReturn, closeVars
  <2> QED BY <1>1, <2>2, <2>3, <2>4, <2>5 DEF WriterStep
<1>2. CASE CallbackReturn
  BY <1>2 DEF CallbackReturn, CallFallback, closeVars
<1>3. CASE CallbackRecord \/ CloseRecorder \/ RecorderLoop \/ UNCHANGED allVars
  BY <1>3 DEF CallbackRecord, CloseRecorder, RecorderLoop, allVars, vars, closeVars
<1> QED BY <1>1, <1>2, <1>3 DEF PipelineNext

LEMMA ClientTypesHold == PipelineSpec => []ClientTypes
<1>1. PipelineInit => ClientTypes
  BY DEF PipelineInit, ClientInit, ClientTypes
<1>2. ASSUME ClientTypes, [PipelineNext]_allVars PROVE ClientTypes'
  <2> USE DEF ClientTypes
  <2>1. CASE ~ClientStep
    BY <1>2, <2>1, OtherSteps DEF clientVars
  <2>2. ASSUME NEW q \in Queriers, QueryCall(q) \/ QueryReturn(q) \/ RowsClose(q) PROVE ClientTypes'
    BY <1>2, <2>2 DEF QueryCall, QueryReturn, RowsClose
  <2>3. ASSUME NEW w \in Writers, WriterCall(w) \/ OnceStore(w) \/ OnceReturn(w) PROVE ClientTypes'
    BY <1>2, <2>3 DEF WriterCall, OnceStore, OnceReturn
  <2>4. ASSUME NEW k \in Closers, ClientLocked(k) PROVE ClientTypes'
    <3>1. PICK next \in {"noop", "conn", "writer", "panic"} : ccpc' = [ccpc EXCEPT ![k] = next]
      BY <1>2, <2>4 DEF ClientLocked, CloseBranch
    <3> QED BY <1>2, <2>4, <3>1 DEF ClientLocked
  <2>5. ASSUME NEW k \in Closers, ClientClose(k) \/ ClientCloseWriter(k) \/ ClientCloseConn(k)
        PROVE  ClientTypes'
    BY <1>2, <2>5 DEF ClientClose, ClientCloseWriter, ClientCloseConn
  <2> QED BY <2>1, <2>2, <2>3, <2>4, <2>5 DEF ClientStep
<1> QED BY <1>1, <1>2, PTL DEF PipelineSpec

\* The variables of the client keep their types, and so do those of its writer.
THEOREM ClientTypeCorrect == PipelineSpec => []ClientTypeOK
<1>1. TypeOK /\ ClientTypes => ClientTypeOK
  BY DEF ClientTypes, ClientTypeOK
<1> QED BY <1>1, PipelineRunsWriter, TypeCorrect, ClientTypesHold, PTL

\* One Close at a time has announced itself, with the lock it keeps readers out,
\* and only there does it run the writer's Close; once it has closed the connection
\* nobody comes that far again.
LockInv ==
    /\ \A j, k \in Closers :
          ccpc[j] \in {"waiting", "writer", "conn"} /\ ccpc[k] \in {"waiting", "writer", "conn"} => j = k
    /\ \A k \in Closers : ccpc[k] \in {"writer", "conn"} => NoReaders /\ ~connClosed
    /\ \A k \in Closers : ccpc[k] \in {"returned", "noop"} => connClosed
    /\ \A k \in Closers : cpc[k] \in {"signal", "closeIn", "wait"} => ccpc[k] = "writer"
    /\ connClosed => clientClosed /\ NoReaders
    /\ clientClosed => connClosed

LEMMA LockInvHolds == PipelineSpec => []LockInv
<1>1. PipelineInit => LockInv
  BY DEF PipelineInit, ClientInit, Init, LockInv, NoReaders
<1>2. ASSUME Types, ClientTypes, LockInv, [PipelineNext]_allVars PROVE LockInv'
  <2> USE DEF LockInv, NoReaders
  <2>1. CASE ~ClientStep
    BY <1>2, <2>1, OtherSteps DEF clientVars
  <2>2. ASSUME NEW q \in Queriers, QueryCall(q) PROVE LockInv'
    <3>1. UNCHANGED <<cpc, ccpc, connClosed, clientClosed>> /\ ~clientClosed
      BY <2>2 DEF QueryCall, vars, closeVars
    <3>2. \A k \in Closers : ccpc[k] \notin {"waiting", "writer", "conn"}
      BY <2>2 DEF QueryCall, CanRLock, Announced
    <3> QED BY <1>2, <3>1, <3>2
  <2>3. ASSUME NEW q \in Queriers, QueryReturn(q) \/ RowsClose(q) PROVE LockInv'
    <3>1. UNCHANGED <<cpc, ccpc, connClosed, clientClosed>>
      BY <2>3 DEF QueryReturn, RowsClose, vars, closeVars
    <3>2. \A p \in Queriers : qpc'[p] # "query" \/ qpc'[p] = qpc[p]
      BY <1>2, <2>3 DEF QueryReturn, RowsClose, ClientTypes
    <3> QED BY <1>2, <3>1, <3>2
  <2>4. ASSUME NEW w \in Writers, WriterCall(w) \/ OnceStore(w) \/ OnceReturn(w) PROVE LockInv'
    BY <1>2, <2>4 DEF WriterCall, OnceStore, OnceReturn, vars, closeVars
  <2>5. ASSUME NEW k \in Closers, ClientClose(k) PROVE LockInv'
    <3>1. UNCHANGED <<cpc, qpc, connClosed, clientClosed>>
      BY <2>5 DEF ClientClose, vars, closeVars
    <3>2. \A j \in Closers : ccpc[j] \notin {"waiting", "writer", "conn"}
      BY <2>5 DEF ClientClose, Announced
    <3>3. \A j \in Closers : ccpc'[j] = IF j = k THEN "waiting" ELSE ccpc[j]
      BY <1>2, <2>5 DEF ClientClose, ClientTypes
    <3> QED BY <1>2, <3>1, <3>2, <3>3
  <2>6. ASSUME NEW k \in Closers, ClientLocked(k) PROVE LockInv'
    <3>1. UNCHANGED <<cpc, qpc, connClosed, clientClosed>> /\ ccpc[k] = "waiting" /\ \A q \in Queriers : qpc[q] # "query"
      BY <2>6 DEF ClientLocked, vars, closeVars
    <3>2. PICK next \in {"noop", "conn", "writer", "panic"} :
             /\ ccpc' = [ccpc EXCEPT ![k] = next]
             /\ clientClosed <=> next = "noop"
      BY <1>2, <2>6 DEF ClientLocked, CloseBranch, ClientTypes
    <3>3. \A j \in Closers : ccpc'[j] = IF j = k THEN next ELSE ccpc[j]
      BY <1>2, <3>2 DEF ClientTypes
    <3> QED BY <1>2, <3>1, <3>2, <3>3
  <2>7. ASSUME NEW k \in Closers, ClientCloseWriter(k) PROVE LockInv'
    <3>1. UNCHANGED <<qpc, connClosed, clientClosed>> /\ ccpc[k] = "writer"
      BY <2>7 DEF ClientCloseWriter
    <3>2. CASE Close(k) /\ UNCHANGED ccpc
      <4>1. \A j \in Closers : j # k => cpc'[j] = cpc[j]
        BY <1>2, <3>2 DEF Close, CloseCAS, CloseSignal, CloseIn, CloseWait, Types, CloseTypes
      <4> QED BY <1>2, <3>1, <3>2, <4>1
    <3>3. CASE WriterReturned(k) /\ ccpc' = [ccpc EXCEPT ![k] = "conn"] /\ UNCHANGED vars
      <4>1. cpc' = cpc /\ cpc[k] \in {"returned", "noop"}
        BY <3>3 DEF WriterReturned, vars, closeVars
      <4>2. \A j \in Closers : ccpc'[j] = IF j = k THEN "conn" ELSE ccpc[j]
        BY <1>2, <3>3 DEF ClientTypes
      <4> QED BY <1>2, <3>1, <4>1, <4>2
    <3> QED BY <2>7, <3>2, <3>3 DEF ClientCloseWriter
  <2>8. ASSUME NEW k \in Closers, ClientCloseConn(k) PROVE LockInv'
    <3>1. UNCHANGED <<cpc, qpc>> /\ ccpc[k] = "conn" /\ connClosed' = TRUE /\ clientClosed' = TRUE
      BY <2>8 DEF ClientCloseConn, vars, closeVars
    <3>2. \A j \in Closers : ccpc'[j] = IF j = k THEN "returned" ELSE ccpc[j]
      BY <1>2, <2>8 DEF ClientCloseConn, ClientTypes
    <3> QED BY <1>2, <3>1, <3>2
  <2> QED BY <2>1, <2>2, <2>3, <2>4, <2>5, <2>6, <2>7, <2>8 DEF ClientStep
<1> QED BY <1>1, <1>2, PipelineRunsWriter, TypesHold, ClientTypesHold, PTL DEF PipelineSpec

\* Once the connection is closed, and if a Client.Close found the writer, the
\* writer is closed too: its Close has returned, or none was needed.
LEMMA ClosedInOrder ==
    ASSUME Types, CloseInv, LockInv, connClosed
    PROVE  Orderly => ~Flushing
<1> SUFFICES ASSUME NEW k \in Closers, cpc[k] \notin {"idle", "noop"}
             PROVE  ~Flushing
  BY DEF Orderly
<1>1. cpc[k] = "returned"
  BY DEF LockInv, Types, CloseTypes
<1>2. CloseReturned
  BY <1>1 DEF CloseReturned
<1> QED BY <1>2 DEF CloseInv, Flushing

\* The connection is closed under no call of Query, QueryRow, Exec or Ping, whose
\* read lock keeps Close out until it returns (client.go:103-170), and under no
\* flush of a writer that was closed in order, whose Close comes first: for any
\* number of queries, writers and Close calls.  It says nothing of the rows the
\* queries returned.
THEOREM ConnOutlivesCallsHolds == PipelineSpec => []ConnOutlivesCalls
<1>1. Types /\ CloseInv /\ LockInv => ConnOutlivesCalls
  BY ClosedInOrder DEF ConnOutlivesCalls, LockInv, NoReaders
<1> QED BY <1>1, LockInvHolds, PipelineRunsWriter, TypesHold, CloseInvHolds, PTL

\* What DlqRecorder_proofs proves, for the recorder of the pipeline.
DP == INSTANCE DlqRecorder_proofs WITH
    Callers <- {Callback}, Closers <- {App}, Payloads <- Rows,
    ch <- dlqCh, done <- dlqDone, closed <- dlqClosed, lpc <- dlqLpc, cpc <- dlqCpc

----------------------------------------------------------------------------
(* The recorder of a pipeline: what the callback and the application do to  *)
(* it are calls of Record and Close.                                        *)

\* Most steps of the pipeline leave the recorder alone.
LEMMA RecorderSteps ==
    ASSUME [PipelineNext]_allVars, ~CallbackRecord, ~CloseRecorder, ~RecorderLoop
    PROVE  UNCHANGED dlqVars
BY DEF PipelineNext, CallbackReturn, allVars

LEMMA PipelineStepsRecorder == ASSUME [PipelineNext]_allVars PROVE [D!Next]_(D!vars)
<1>1. CASE CallbackRecord
  <2>1. PICK c \in {Callback} : D!Record(c)
    BY <1>1 DEF CallbackRecord, D!Record
  <2> QED BY <2>1 DEF D!Next
<1>2. CASE CloseRecorder
  BY <1>2 DEF CloseRecorder, D!Next
<1>3. CASE RecorderLoop
  BY <1>3 DEF RecorderLoop, D!Next
<1>4. CASE UNCHANGED dlqVars
  BY <1>4 DEF dlqVars, D!vars, D!callVars, D!closeVars
<1> QED BY <1>1, <1>2, <1>3, <1>4, RecorderSteps

\* The recorder of a pipeline is the recorder of DlqRecorder: one caller of Record,
\* one caller of Close, the rows as payloads.
THEOREM PipelineRunsRecorder == PipelineSpec => D!Spec
<1>1. PipelineInit => D!Init
  BY DEF PipelineInit
<1> QED BY <1>1, PipelineStepsRecorder, PTL DEF PipelineSpec, D!Spec

LEMMA RecorderAgain == D!Spec => DP!Spec
<1>1. D!Init => DP!Init
  BY DEF D!Init, DP!Init
<1>2. [D!Next]_(D!vars) => [DP!Next]_(DP!vars)
  <2>1. ASSUME UNCHANGED D!vars PROVE UNCHANGED DP!vars
    BY <2>1 DEF D!vars, D!callVars, D!closeVars, DP!vars, DP!callVars, DP!closeVars
  <2>2. ASSUME NEW c \in {Callback}, D!Record(c) PROVE DP!Next
    <3>1. DP!Record(c)
      BY <2>2 DEF D!Record, D!RecordCall, D!RecordSend, D!RecordDone, D!RecordDrop, D!Room, D!closeVars,
            DP!Record, DP!RecordCall, DP!RecordSend, DP!RecordDone, DP!RecordDrop, DP!Room, DP!closeVars
    <3> QED BY <3>1 DEF DP!Next
  <2>3. ASSUME NEW k \in {App}, D!Close(k) PROVE DP!Next
    <3>1. DP!Close(k)
      BY <2>3 DEF D!Close, D!CloseCAS, D!CloseSignal, D!CloseWait, D!CloseProducer, D!LoopEnded, D!callVars,
            DP!Close, DP!CloseCAS, DP!CloseSignal, DP!CloseWait, DP!CloseProducer, DP!LoopEnded, DP!callVars
    <3> QED BY <3>1 DEF DP!Next
  <2>4. ASSUME D!Loop PROVE DP!Loop
    BY <2>4 DEF D!Loop, D!LoopReceive, D!LoopDone, D!LoopReturn, D!Produce, D!WithDrain, D!OversizeCounted,
          D!callVars, D!closeVars,
          DP!Loop, DP!LoopReceive, DP!LoopDone, DP!LoopReturn, DP!Produce, DP!WithDrain, DP!OversizeCounted,
          DP!callVars, DP!closeVars
  <2> QED BY <2>1, <2>2, <2>3, <2>4 DEF D!Next, DP!Next
<1> QED BY <1>1, <1>2, PTL DEF D!Spec, DP!Spec

\* What DlqRecorder_proofs shows of any recorder, shown of this one.
RecorderFacts ==
    /\ DP!TypeOK
    /\ DP!CloseInv
    /\ DP!Accounting

LEMMA RecorderFactsHold == PipelineSpec => []RecorderFacts
<1>1. DP!DlqAssumption
  <2>1. DP!IsFiniteSet({Callback})
    <3>1. IsFiniteSet({Callback})
      BY FS_Singleton
    <3> QED BY <3>1 DEF DP!IsFiniteSet, IsFiniteSet
  <2> QED BY <2>1, AppAssumption DEF AppAssumption, DP!DlqAssumption
<1>2. DP!Spec => []DP!TypeOK /\ []DP!CloseInv /\ []DP!Accounting
  BY <1>1, DP!TypeCorrect, DP!CloseInvHolds, DP!RecordsAccounted, PTL
<1>3. DP!TypeOK /\ DP!CloseInv /\ DP!Accounting => RecorderFacts
  BY DEF RecorderFacts
<1> QED BY <1>2, <1>3, PipelineRunsRecorder, RecorderAgain, PTL

----------------------------------------------------------------------------
(* Shutdown: every failed row is recorded before the recorder closes.       *)

\* The recorder closes after the connection, the callback runs in the fallback
\* only, and outside of it the rows recorded are the rows that failed.
RecordInv ==
    /\ dlqCpc[App] # "idle" => ccpc[App] \in {"returned", "noop"}
    /\ dlqDone => connClosed
    /\ recording[Callback] # NoPayload => lpc = "fallback"
    /\ called \subseteq Failed
    /\ lpc # "fallback" => Failed \subseteq called
    /\ lpc = "fallback" => Failed \subseteq called \cup RowsIn(buffer[table])
    /\ lpc = "fallback" => RowsIn(buffer[table]) \subseteq Failed

\* An orderly shutdown leaves nothing refused and nothing stranded: the callback
\* is over before done is closed.
DrainedInv ==
    /\ ~dlqDone => refused = 0
    /\ Orderly => refused = 0
    /\ Orderly /\ dlqLpc = "exit" => dlqCh = <<>>

\* Most steps of the writer neither report a failure nor touch the fallback.
LEMMA FailuresStay ==
    ASSUME Types, [Next]_vars, ~Report, lpc # "fallback"
    PROVE  reports' = reports /\ lpc' # "fallback"
<1>1. CASE \E w \in Writers : Start \/ Write(w)
  BY <1>1 DEF Start, Write, WriteCall, WriteSend, WriteCancelled, WriteFull, WritePanic, WriteEnds,
        flushVars, loopVars
<1>2. CASE \E k \in Closers : Close(k)
  BY <1>2 DEF Close, CloseCAS, CloseSignal, CloseIn, CloseWait, flushVars, loopVars
<1>3. CASE Start \/ PumpStep \/ Tick \/ Age \/ Refresher \/ UNCHANGED vars
  BY <1>3 DEF Start, PumpStep, Tick, Age, Refresher, RefreshTick, RefreshReturn, RefreshDone, flushVars, loopVars, vars
<1>4. CASE Select \/ Drain
  BY <1>4 DEF Select, LoopReceive, LoopOutClosed, LoopTick, LoopDone, Drain, DrainReceive, DrainDefault,
        BeginFlush, flushVars, loopVars
<1>5. CASE Flush
  BY <1>5 DEF Flush, FlushPick, InsertAttempt, CallFallback, FlushReturn
<1> QED BY <1>1, <1>2, <1>3, <1>4, <1>5 DEF Next

\* While the loop is in the fallback nothing but the callback's return changes
\* what the fallback works on.
LEMMA FallbackStays ==
    ASSUME [PipelineNext]_allVars, lpc = "fallback", ~CallbackReturn
    PROVE  UNCHANGED <<lpc, buffer, table, reports>>
<1>1. CASE \E w \in Writers : Start \/ Write(w)
  BY <1>1 DEF Start, Write, WriteCall, WriteSend, WriteCancelled, WriteFull, WritePanic, WriteEnds, flushVars, loopVars
<1>2. CASE ClientStep
  <2>1. CASE \E k \in Closers : Close(k)
    BY <2>1 DEF Close, CloseCAS, CloseSignal, CloseIn, CloseWait, flushVars, loopVars
  <2>2. CASE UNCHANGED vars
    BY <2>2 DEF vars, flushVars, loopVars
  <2> QED BY <1>2, <2>1, <2>2 DEF ClientStep, QueryCall, QueryReturn, RowsClose, WriterCall, OnceStore, OnceReturn,
             ClientClose, ClientLocked, ClientCloseWriter, ClientCloseConn
<1>3. CASE PumpStep \/ Tick \/ Age \/ Refresher
  BY <1>3 DEF PumpStep, Tick, Age, Refresher, RefreshTick, RefreshReturn, RefreshDone, flushVars, loopVars
<1>4. CASE Select \/ Drain
  BY <1>4 DEF Select, LoopReceive, LoopOutClosed, LoopTick, LoopDone, Drain, DrainReceive, DrainDefault
<1>5. CASE ClientFlush
  BY <1>5 DEF ClientFlush, FlushPick, InsertAttempt, Report, FlushReturn
<1>6. CASE CallbackRecord \/ CloseRecorder \/ RecorderLoop \/ UNCHANGED allVars
  BY <1>6 DEF CallbackRecord, CloseRecorder, RecorderLoop, allVars, vars, flushVars, loopVars
<1> QED BY <1>1, <1>2, <1>3, <1>4, <1>5, <1>6 DEF PipelineNext, WriterStep

\* A report of a failure adds the rows of its batch to the failed rows.
LEMMA ReportFails ==
    ASSUME Types, Report
    PROVE  /\ Failed' = Failed \cup (IF lpc = "reportErr" THEN RowsIn(buffer[table]) ELSE {})
           /\ UNCHANGED <<buffer, table>>
           /\ lpc' = "fallback" <=> lpc = "reportErr"
<1> DEFINE Reports == [table : Tables, rows : Seq(Rows), err : BOOLEAN]
<1> DEFINE new == [table |-> table, rows |-> buffer[table], err |-> lpc = "reportErr"]
<1>1. /\ reports' = Append(reports, new)
      /\ UNCHANGED <<buffer, table>>
      /\ lpc' = "fallback" <=> lpc = "reportErr"
  BY AppAssumption DEF AppAssumption, Report
<1>2. reports \in Seq(Reports) /\ new \in Reports
  BY DEF Types, FlushTypes, LoopTypes, TableChosen, Report
<1>3. new.rows = buffer[table] /\ (new.err <=> lpc = "reportErr")
  OBVIOUS
<1> HIDE DEF new, Reports
<1>4. /\ DOMAIN reports' = DOMAIN reports \cup {Len(reports) + 1}
      /\ \A i \in DOMAIN reports : reports'[i] = reports[i]
      /\ reports'[Len(reports) + 1] = new
  BY <1>1, <1>2, ReportedGrows
<1>5. Failed' = Failed \cup (IF new.err THEN RowsIn(new.rows) ELSE {})
  BY <1>4 DEF Failed
<1> QED BY <1>1, <1>3, <1>5

\* connClosed and the way to it are final.
LEMMA ClosedStays ==
    ASSUME ClientTypes, [PipelineNext]_allVars
    PROVE  /\ connClosed => connClosed'
           /\ \A k \in Closers : ccpc[k] \in {"returned", "noop"} => ccpc'[k] \in {"returned", "noop"}
<1> USE DEF ClientTypes
<1>1. CASE ~ClientStep
  BY <1>1, OtherSteps DEF clientVars
<1>2. ASSUME NEW q \in Queriers, QueryCall(q) \/ QueryReturn(q) \/ RowsClose(q)
      PROVE  UNCHANGED <<connClosed, ccpc>>
  BY <1>2 DEF QueryCall, QueryReturn, RowsClose
<1>3. ASSUME NEW w \in Writers, WriterCall(w) \/ OnceStore(w) \/ OnceReturn(w)
      PROVE  UNCHANGED <<connClosed, ccpc>>
  BY <1>3 DEF WriterCall, OnceStore, OnceReturn
<1>4. ASSUME NEW k \in Closers, ClientClose(k) \/ ClientLocked(k) \/ ClientCloseWriter(k) \/ ClientCloseConn(k)
      PROVE  /\ connClosed => connClosed'
             /\ \A j \in Closers : ccpc[j] \in {"returned", "noop"} => ccpc'[j] = ccpc[j]
  BY <1>4 DEF ClientClose, ClientLocked, ClientCloseWriter, ClientCloseConn
<1> QED BY <1>1, <1>2, <1>3, <1>4 DEF ClientStep

LEMMA RecordInvHolds == PipelineSpec => []RecordInv
<1>1. PipelineInit => RecordInv
  BY AppAssumption DEF AppAssumption, PipelineInit, ClientInit, Init, D!Init, RecordInv, Failed
<1>2. ASSUME Types, ClientTypes, LockInv, RecorderFacts, RecordInv, [PipelineNext]_allVars
      PROVE  RecordInv'
  <2> USE DEF RecordInv
  <2>0. [Next]_vars /\ App \in Closers
    BY <1>2, PipelineStepsWriter, AppAssumption DEF AppAssumption
  <2>1. CASE CallbackRecord
    <3>1. /\ UNCHANGED <<lpc, buffer, table, reports, connClosed, ccpc, dlqCpc, dlqDone>>
          /\ lpc = "fallback"
      BY <2>1 DEF CallbackRecord, vars, loopVars, flushVars, clientVars, D!RecordCall, D!RecordSend, D!RecordDone,
            D!RecordDrop, D!closeVars
    <3>2. \/ called' = called
          \/ \E r \in RowsIn(buffer[table]) : called' = called \cup {r}
      BY <2>1 DEF CallbackRecord, NextRow, RowsIn, D!RecordCall, D!RecordSend, D!RecordDone, D!RecordDrop
    <3>3. Failed' = Failed
      BY <3>1 DEF Failed
    <3> QED BY <1>2, <3>1, <3>2, <3>3
  <2>2. CASE CloseRecorder
    <3>1. UNCHANGED <<lpc, buffer, table, reports, connClosed, ccpc, called, recording>>
      BY <2>2 DEF CloseRecorder, vars, loopVars, flushVars, clientVars, D!Close, D!CloseCAS, D!CloseSignal,
            D!CloseWait, D!CloseProducer, D!callVars
    <3>2. connClosed /\ ccpc[App] \in {"returned", "noop"}
      BY <1>2, <2>0, <2>2 DEF CloseRecorder, LockInv
    <3>3. Failed' = Failed
      BY <3>1 DEF Failed
    <3> QED BY <1>2, <3>1, <3>2, <3>3
  <2>3. CASE RecorderLoop
    <3>1. UNCHANGED <<lpc, buffer, table, reports, connClosed, ccpc, called, recording, dlqCpc, dlqDone>>
      BY <2>3 DEF RecorderLoop, vars, loopVars, flushVars, clientVars, D!Loop, D!LoopReceive, D!LoopDone,
            D!LoopReturn, D!Produce, D!callVars, D!closeVars
    <3>2. Failed' = Failed
      BY <3>1 DEF Failed
    <3> QED BY <1>2, <3>1, <3>2
  <2>4. CASE ~CallbackRecord /\ ~CloseRecorder /\ ~RecorderLoop
    <3>1. UNCHANGED <<dlqCpc, dlqDone, called, recording>>
      BY <1>2, <2>4, RecorderSteps DEF dlqVars
    <3>2. /\ dlqCpc'[App] # "idle" => ccpc'[App] \in {"returned", "noop"}
          /\ dlqDone' => connClosed'
      BY <1>2, <2>0, <3>1, ClosedStays
    <3>3. CASE Report
      <4>1. lpc # "fallback"
        BY <3>3 DEF Report
      <4> QED BY <1>2, <3>1, <3>2, <3>3, <4>1, ReportFails
    <3>4. CASE ~Report /\ lpc # "fallback"
      <4>1. reports' = reports /\ lpc' # "fallback"
        BY <1>2, <2>0, <3>4, FailuresStay
      <4>2. Failed' = Failed
        BY <4>1 DEF Failed
      <4> QED BY <1>2, <3>1, <3>2, <3>4, <4>1, <4>2
    <3>5. CASE CallbackReturn
      <4>1. /\ RowsIn(buffer[table]) \subseteq called /\ recording[Callback] = NoPayload
            /\ lpc = "fallback" /\ lpc' = "flush" /\ reports' = reports
        BY <3>5 DEF CallbackReturn, CallbackDone, CallFallback
      <4>2. Failed' = Failed
        BY <4>1 DEF Failed
      <4> QED BY <1>2, <3>1, <3>2, <4>1, <4>2
    <3>6. CASE ~CallbackReturn /\ lpc = "fallback"
      <4>1. UNCHANGED <<lpc, buffer, table, reports>>
        BY <1>2, <3>6, FallbackStays
      <4>2. Failed' = Failed
        BY <4>1 DEF Failed
      <4> QED BY <1>2, <3>1, <3>2, <3>6, <4>1, <4>2
    <3> QED BY <3>3, <3>4, <3>5, <3>6
  <2> QED BY <2>1, <2>2, <2>3, <2>4
<1> QED BY <1>1, <1>2, PipelineRunsWriter, TypesHold, ClientTypesHold, LockInvHolds, RecorderFactsHold, PTL
      DEF PipelineSpec

\* A Client.Close that becomes orderly has the connection still open.
LEMMA OrderlyBegins ==
    ASSUME Types, LockInv, [PipelineNext]_allVars, Orderly', ~Orderly
    PROVE  ~connClosed
<1>1. PICK k \in Closers : cpc'[k] \notin {"idle", "noop"}
  BY DEF Orderly
<1>2. cpc' # cpc
  BY <1>1 DEF Orderly
<1>3. PICK j \in Closers : ClientClose(j) \/ ClientLocked(j) \/ ClientCloseWriter(j) \/ ClientCloseConn(j)
  BY <1>2, OtherSteps DEF ClientStep, QueryCall, QueryReturn, RowsClose, WriterCall, OnceStore, OnceReturn, vars, closeVars
<1>4. ClientCloseWriter(j)
  BY <1>2, <1>3 DEF ClientClose, ClientLocked, ClientCloseConn, vars, closeVars
<1> QED BY <1>4 DEF ClientCloseWriter, LockInv

LEMMA DrainedInvHolds == PipelineSpec => []DrainedInv
<1>1. PipelineInit => DrainedInv
  BY DEF PipelineInit, ClientInit, Init, D!Init, DrainedInv, Orderly
<1>2. ASSUME Types, CloseInv, LockInv, RecorderFacts, RecordInv, DrainedInv, [PipelineNext]_allVars
      PROVE  DrainedInv'
  <2> USE DEF DrainedInv
  <2>1. dlqDone => connClosed
    BY <1>2 DEF RecordInv
  <2>2. dlqLpc \in {"drain", "exit"} => dlqDone
    BY <1>2 DEF RecorderFacts, DP!CloseInv
  <2>3. Orderly' => Orderly \/ ~dlqDone
    BY <1>2, <2>1, OrderlyBegins
  <2>4. CASE CallbackRecord
    <3>1. UNCHANGED <<dlqDone, dlqLpc, cpc>> /\ lpc = "fallback"
      BY <2>4 DEF CallbackRecord, vars, closeVars, D!RecordCall, D!RecordSend, D!RecordDone, D!RecordDrop, D!closeVars
    <3>2. Orderly' => ~dlqDone
      BY <1>2, <2>1, <2>3, <3>1, ClosedInOrder DEF Flushing
    <3>3. ~dlqDone => refused' = refused
      BY <2>4 DEF CallbackRecord, D!RecordCall, D!RecordSend, D!RecordDone, D!RecordDrop
    <3> QED BY <1>2, <2>2, <3>1, <3>2, <3>3
  <2>5. CASE CloseRecorder
    <3>1. UNCHANGED <<refused, dlqLpc, dlqCh>> /\ (dlqDone => dlqDone')
      BY <2>5 DEF CloseRecorder, D!Close, D!CloseCAS, D!CloseSignal, D!CloseWait, D!CloseProducer, D!callVars
    <3>2. Orderly' <=> Orderly
      BY <2>5 DEF CloseRecorder, vars, closeVars, Orderly
    <3> QED BY <1>2, <3>1, <3>2
  <2>6. CASE RecorderLoop
    <3>1. /\ UNCHANGED <<refused, dlqDone>>
          /\ dlqLpc' = "exit" => dlqCh' = <<>> \/ (dlqLpc = "exit" /\ dlqCh' = dlqCh)
      BY <1>2, <2>6 DEF RecorderLoop, D!Loop, D!LoopReceive, D!LoopDone, D!LoopReturn, D!Produce, D!WithDrain,
            D!callVars, D!closeVars
    <3>2. Orderly' <=> Orderly
      BY <2>6 DEF RecorderLoop, vars, closeVars, Orderly
    <3> QED BY <1>2, <3>1, <3>2
  <2>7. CASE ~CallbackRecord /\ ~CloseRecorder /\ ~RecorderLoop
    <3>1. UNCHANGED <<dlqDone, refused, dlqLpc, dlqCh>>
      BY <1>2, <2>7, RecorderSteps DEF dlqVars
    <3> QED BY <1>2, <2>2, <2>3, <3>1
  <2> QED BY <2>4, <2>5, <2>6, <2>7
<1> QED BY <1>1, <1>2, PipelineRunsWriter, TypesHold, CloseInvHolds, LockInvHolds, RecorderFactsHold,
           RecordInvHolds, PTL DEF PipelineSpec

\* When an orderly shutdown is over every row whose insert failed was handed
\* to the recorder and is in Kafka or in a counter (safeOnPermanentFailure calls
\* the application on the writer's goroutine, Client.Close waits for the writer,
\* the recorder closes last), for any number of rows, writers, queries and Close
\* calls and any buffer size.
THEOREM FailedRowsRecordedHolds == PipelineSpec => []FailedRowsRecorded
<1>1. ASSUME Types, CloseInv, LockInv, RecorderFacts, RecordInv, DrainedInv
      PROVE  FailedRowsRecorded
  <2> SUFFICES ASSUME Orderly, dlqCpc[App] \in {"returned", "panic"}
               PROVE  /\ called = Failed
                      /\ refused = 0 /\ dlqCh = <<>> /\ hold = NoPayload
                      /\ Cardinality(Failed) = Len(produced) + dropped + produceErrors
    BY DEF FailedRowsRecorded
  <2>1. dlqLpc = "exit" /\ hold = NoPayload /\ dlqDone
    BY <1>1 DEF RecorderFacts, DP!CloseInv
  <2>2. lpc # "fallback"
    BY <1>1, <2>1, ClosedInOrder DEF RecordInv, Flushing
  <2>3. called = Failed /\ recording[Callback] = NoPayload
    BY <1>1, <2>2 DEF RecordInv
  <2>4. refused = 0 /\ dlqCh = <<>>
    BY <1>1, <2>1 DEF DrainedInv
  <2>5. {c \in {Callback} : recording[c] # NoPayload} = {}
    BY <2>3
  <2>6. DP!Cardinality(called) =
           DP!Cardinality({c \in {Callback} : recording[c] # NoPayload}) + Len(dlqCh)
           + (IF hold = NoPayload THEN 0 ELSE 1) + Len(produced) + dropped + produceErrors + refused
    BY <1>1 DEF RecorderFacts, DP!Accounting
  <2>7. \A S : DP!Cardinality(S) = Cardinality(S)
    BY DEF DP!Cardinality, Cardinality
  <2>8. Cardinality(called) = 0 + Len(dlqCh) + 0 + Len(produced) + dropped + produceErrors + 0
    BY <2>1, <2>4, <2>5, <2>6, <2>7, FS_EmptySet
  <2>9. Len(dlqCh) = 0 /\ Len(produced) \in Nat /\ dropped \in Nat /\ produceErrors \in Nat
    <3>1. produced \in Seq(Rows) /\ dropped \in Nat /\ produceErrors \in Nat
      BY <1>1 DEF RecorderFacts, DP!TypeOK
    <3> QED BY <2>4, <3>1, LenProperties
  <2> QED BY <2>1, <2>3, <2>4, <2>8, <2>9
<1> QED BY <1>1, PipelineRunsWriter, TypesHold, CloseInvHolds, LockInvHolds, RecorderFactsHold, RecordInvHolds,
           DrainedInvHolds, PTL

----------------------------------------------------------------------------
(* Shutdown: nobody waits in a circle.                                      *)

\* writer.Close closes done before it waits for the loops.
DoneInv == \A k \in Closers : cpc[k] \in {"closeIn", "wait"} => done

\* Only Close moves Close.
LEMMA StepsOutsideClose ==
    ASSUME [Next]_vars, \A k \in Closers : ~Close(k)
    PROVE  UNCHANGED closeVars
<1>1. CASE Start \/ \E w \in Writers : Write(w)
  BY <1>1 DEF Start, Write, WriteCall, WriteSend, WriteCancelled, WriteFull, WritePanic, WriteEnds
<1>2. CASE PumpStep \/ Tick \/ Age \/ Refresher
  BY <1>2 DEF PumpStep, Tick, Age, Refresher, RefreshTick, RefreshReturn, RefreshDone
<1>3. CASE Select \/ Drain
  BY <1>3 DEF Select, LoopReceive, LoopOutClosed, LoopTick, LoopDone, Drain, DrainReceive, DrainDefault
<1>4. CASE Flush
  BY <1>4 DEF Flush, FlushPick, InsertAttempt, Report, CallFallback, FlushReturn
<1>5. CASE UNCHANGED vars
  BY <1>5 DEF vars
<1> QED BY <1>1, <1>2, <1>3, <1>4, <1>5 DEF Next

LEMMA DoneInvHolds == Spec => []DoneInv
<1>1. Init => DoneInv
  BY DEF Init, DoneInv
<1>2. ASSUME Types, DoneInv, [Next]_vars PROVE DoneInv'
  <2> USE DEF DoneInv
  <2>1. ASSUME NEW k \in Closers, Close(k) PROVE DoneInv'
    <3>1. ASSUME NEW j \in Closers \ {k} PROVE cpc'[j] = cpc[j]
      BY <1>2, <2>1 DEF Close, CloseCAS, CloseSignal, CloseIn, CloseWait, Types, CloseTypes
    <3>2. done => done'
      BY <2>1 DEF Close, CloseCAS, CloseSignal, CloseIn, CloseWait
    <3>3. cpc'[k] \in {"closeIn", "wait"} => done'
      BY <1>2, <2>1 DEF Close, CloseCAS, CloseSignal, CloseIn, CloseWait, Types, CloseTypes
    <3> QED BY <1>2, <3>1, <3>2, <3>3
  <2>2. CASE \A k \in Closers : ~Close(k)
    <3>1. UNCHANGED <<cpc, done>>
      BY <1>2, <2>2, StepsOutsideClose DEF closeVars
    <3> QED BY <1>2, <3>1
  <2> QED BY <2>1, <2>2
<1> QED BY <1>1, <1>2, TypesHold, PTL DEF Spec

\* As long as the callback has rows left it has a next one, the first of them.
LEMMA RowsLeft ==
    ASSUME Types, lpc = "fallback", ~(RowsIn(buffer[table]) \subseteq called)
    PROVE  \E r \in Rows : NextRow(r)
<1> DEFINE batch == buffer[table]
           Left == {i \in DOMAIN batch : batch[i] \notin called}
           R == OpToRel(<, Nat)
<1>1. batch \in Seq(Rows)
  BY DEF Types, TableChosen, LoopTypes
<1>2. DOMAIN batch = 1..Len(batch) /\ Len(batch) \in Nat
  BY <1>1
<1>3. Left \subseteq Nat /\ Left # {}
  BY <1>2 DEF RowsIn
<1>4. IsWellFoundedOn(R, Nat)
  BY NatLessThanWellFounded
<1> HIDE DEF Left, R
<1>5. PICK i \in Left : \A j \in Left : <<j, i>> \notin R
  BY <1>3, <1>4, WFMin
<1>6. \A j \in Left : ~(j < i)
  BY <1>3, <1>5 DEF R, OpToRel
<1>7. i \in DOMAIN batch /\ batch[i] \notin called
  BY <1>5 DEF Left
<1>8. ASSUME NEW j \in 1..(i - 1) PROVE batch[j] \in called
  <2>1. j \in DOMAIN batch /\ j < i
    BY <1>2, <1>7
  <2> QED BY <1>6, <2>1 DEF Left
<1>9. batch[i] \in Rows
  BY <1>1, <1>2, <1>7
<1> QED BY <1>7, <1>8, <1>9 DEF NextRow

\* Shutdown cannot deadlock: whoever a Close waits for can go on, in every instance.
\* client.Close runs under the client's lock and waits for the writer's loop, which
\* calls OnPermanentFailure, which calls Record: none of them needs the lock.
THEOREM CloseNotDeadlockedHolds == PipelineSpec => []CloseNotDeadlocked
<1>1. ASSUME Types, DoneInv, RecorderFacts PROVE CloseNotDeadlocked
  <2>1. ASSUME NEW k \in Closers, cpc[k] = "wait" PROVE ~LoopBlocked /\ ~RefresherBlocked
    <3>1. done
      BY <1>1, <2>1 DEF DoneInv
    <3>2. ASSUME lpc = "fallback", recording[Callback] = NoPayload, ~CallbackDone
          PROVE  \E r \in Rows : NextRow(r)
      BY <1>1, <3>2, RowsLeft DEF CallbackDone
    <3> QED BY <3>1, <3>2 DEF LoopBlocked, RefresherBlocked
  <2>2. ASSUME dlqCpc[App] = "wait" PROVE ~RecorderBlocked
    BY <1>1, <2>2 DEF RecorderFacts, DP!CloseInv, RecorderBlocked
  <2> QED BY <2>1, <2>2 DEF CloseNotDeadlocked
<1> QED BY <1>1, PipelineRunsWriter, TypesHold, DoneInvHolds, RecorderFactsHold, PTL
=============================================================================
