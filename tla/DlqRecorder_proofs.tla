------------------------- MODULE DlqRecorder_proofs -------------------------
(***************************************************************************)
(* Proofs about DlqRecorder, for any number of callers, closers and        *)
(* payloads and any buffer size.                                           *)
(***************************************************************************)
EXTENDS DlqRecorder, FiniteSetTheorems, SequenceTheorems, TLAPS

\* The variables keep their types; above all, the buffer never outgrows the
\* capacity make(chan, BufferSize) gives it and the counters stay naturals.
THEOREM TypeCorrect == Spec => []TypeOK
<1> USE DlqAssumption DEF DlqAssumption
<1>1. Init => TypeOK
  <2> SUFFICES ASSUME Init PROVE TypeOK
    OBVIOUS
  <2>1. ch \in Seq(Payloads) /\ Len(ch) <= BufferSize /\ produced \in Seq(Payloads)
    BY EmptySeq DEF Init
  <2>2. recording \in [Callers -> Payloads \cup {NoPayload}]
    BY DEF Init
  <2>3. QED
    BY <2>1, <2>2 DEF Init, TypeOK
<1>2. TypeOK /\ [Next]_vars => TypeOK'
  <2> SUFFICES ASSUME TypeOK, [Next]_vars
               PROVE  TypeOK'
    OBVIOUS
  <2>1. ASSUME NEW c \in Callers, NEW p \in Payloads, RecordCall(c, p)
        PROVE  TypeOK'
    BY <2>1 DEF TypeOK, RecordCall, closeVars
  <2>2. ASSUME NEW c \in Callers, RecordSend(c)
        PROVE  TypeOK'
    <3>1. ch' \in Seq(Payloads) /\ Len(ch') <= BufferSize
      BY <2>2 DEF TypeOK, RecordSend, Room
    <3>2. QED
      BY <2>2, <3>1 DEF TypeOK, RecordSend, closeVars
  <2>3. ASSUME NEW c \in Callers, RecordDone(c) \/ RecordDrop(c)
        PROVE  TypeOK'
    BY <2>3 DEF TypeOK, RecordDone, RecordDrop, closeVars
  <2>4. CASE LoopReceive
    <3>1. /\ Head(ch) \in Payloads
          /\ Tail(ch) \in Seq(Payloads)
          /\ Len(Tail(ch)) <= BufferSize
      BY <2>4, HeadTailProperties DEF TypeOK, LoopReceive
    <3>2. QED
      BY <2>4, <3>1 DEF TypeOK, LoopReceive, callVars, closeVars
  <2>5. CASE LoopDone \/ LoopReturn
    BY <2>5 DEF TypeOK, LoopDone, LoopReturn, WithDrain, callVars, closeVars
  <2>6. CASE Produce
    <3>1. produced' \in Seq(Payloads)
      BY <2>6 DEF TypeOK, Produce, OversizeCounted, callVars, closeVars
    <3>2. hold' = NoPayload /\ dropped' \in Nat /\ produceErrors' \in Nat
      BY <2>6 DEF TypeOK, Produce, OversizeCounted, callVars, closeVars
    <3>3. QED
      BY <2>6, <3>1, <3>2 DEF TypeOK, Produce, callVars, closeVars
  <2>7. ASSUME NEW k \in Closers, Close(k)
        PROVE  TypeOK'
    BY <2>7 DEF TypeOK, Close, CloseCAS, CloseSignal, CloseWait, CloseProducer, callVars
  <2>8. CASE UNCHANGED vars
    BY <2>8 DEF TypeOK, vars, callVars, closeVars
  <2>9. QED
    BY <2>1, <2>2, <2>3, <2>4, <2>5, <2>6, <2>7, <2>8 DEF Next, Record, Loop
<1>3. QED
  BY <1>1, <1>2, PTL DEF Spec

----------------------------------------------------------------------------
(* One Close call does the work, and it closes the producer last.           *)

\* What ProducerOutlivesLoop needs to be inductive: how far the winning Close
\* call and the loop can be, seen from each other.
CloseInv ==
    /\ \A k \in Closers : cpc[k] # "idle" => closed
    /\ \A k \in Closers : cpc[k] \in {"wait", "producer", "returned", "panic"} => done
    /\ \A k \in Closers : cpc[k] \in {"producer", "returned", "panic"} => lpc = "exit"
    /\ lpc \in {"drain", "exit"} => done
    /\ lpc = "exit" => hold = NoPayload
    /\ producerClosed => lpc = "exit"
    /\ \A j, k \in Closers :
          cpc[j] \notin {"idle", "noop"} /\ cpc[k] \notin {"idle", "noop"} => j = k

LEMMA CloseInvHolds == Spec => []CloseInv
<1> USE DlqAssumption DEF DlqAssumption
<1>1. Init => CloseInv
  BY DEF Init, CloseInv
<1>2. TypeOK /\ CloseInv /\ [Next]_vars => CloseInv'
  <2> SUFFICES ASSUME TypeOK, CloseInv, [Next]_vars
               PROVE  CloseInv'
    OBVIOUS
  <2>1. ASSUME NEW c \in Callers, Record(c)
        PROVE  CloseInv'
    BY <2>1 DEF CloseInv, Record, RecordCall, RecordSend, RecordDone, RecordDrop, closeVars
  <2>2. CASE LoopReceive
    BY <2>2 DEF CloseInv, LoopReceive, callVars, closeVars
  <2>3. CASE LoopDone
    BY <2>3 DEF CloseInv, LoopDone, WithDrain, callVars, closeVars
  <2>4. CASE LoopReturn
    BY <2>4 DEF CloseInv, LoopReturn, callVars, closeVars
  <2>5. CASE Produce
    BY <2>5 DEF CloseInv, Produce, callVars, closeVars
  <2>6. ASSUME NEW k \in Closers, CloseCAS(k)
        PROVE  CloseInv'
    BY <2>6 DEF TypeOK, CloseInv, CloseCAS, callVars
  <2>7. ASSUME NEW k \in Closers, CloseSignal(k)
        PROVE  CloseInv'
    BY <2>7 DEF TypeOK, CloseInv, CloseSignal, callVars
  <2>8. ASSUME NEW k \in Closers, CloseWait(k)
        PROVE  CloseInv'
    BY <2>8 DEF TypeOK, CloseInv, CloseWait, LoopEnded, callVars
  <2>9. ASSUME NEW k \in Closers, CloseProducer(k)
        PROVE  CloseInv'
    BY <2>9 DEF TypeOK, CloseInv, CloseProducer, callVars
  <2>10. CASE UNCHANGED vars
    BY <2>10 DEF CloseInv, vars, callVars, closeVars
  <2>11. QED
    BY <2>1, <2>2, <2>3, <2>4, <2>5, <2>6, <2>7, <2>8, <2>9, <2>10 DEF Next, Loop, Close
<1>3. QED
  BY <1>1, <1>2, TypeCorrect, PTL DEF Spec

\* The loop never works on a payload once the producer is closed, and only the
\* Close call that won the CompareAndSwap closes it (recorder.go Close).
THEOREM ProducerClosedLast == Spec => []ProducerOutlivesLoop
<1>1. CloseInv => ProducerOutlivesLoop
  BY DEF CloseInv, ProducerOutlivesLoop
<1>2. QED
  BY <1>1, CloseInvHolds, PTL

----------------------------------------------------------------------------
(* Every Record call is accounted for.                                      *)

\* The callers inside Record, past its first check.
Recording == {c \in Callers : recording[c] # NoPayload}

\* 1 while produce() works on a payload.
Held == IF hold = NoPayload THEN 0 ELSE 1

\* Where Record calls can be, and how many are there.
Places == Cardinality(Recording) + Len(ch) + Held + Len(produced) + dropped + produceErrors + refused

AccountingInv ==
    /\ IsFiniteSet(called)
    /\ Cardinality(called) = Places

\* A caller leaves Record: one fewer is inside.
LEMMA LeaveRecord ==
  ASSUME DlqAssumption, TypeOK, NEW c \in Callers,
         recording[c] # NoPayload,
         recording' = [recording EXCEPT ![c] = NoPayload]
  PROVE  /\ Cardinality(Recording) \in Nat
         /\ Cardinality(Recording)' = Cardinality(Recording) - 1
<1>1. IsFiniteSet(Recording)
  BY FS_Subset DEF DlqAssumption, Recording
<1>2. Recording' = Recording \ {c}
  BY DEF TypeOK, Recording
<1>3. c \in Recording
  BY DEF Recording
<1>4. QED
  BY <1>1, <1>2, <1>3, FS_RemoveElement, FS_CardinalityType

\* Without a step of Record nothing changes.
LEMMA SameRecording == UNCHANGED recording => Cardinality(Recording)' = Cardinality(Recording)
  BY DEF Recording

LEMMA PlacesAreNumbers ==
  ASSUME DlqAssumption, TypeOK
  PROVE  /\ Cardinality(Recording) \in Nat /\ Len(ch) \in Nat /\ Held \in Nat
         /\ Len(produced) \in Nat /\ dropped \in Nat /\ produceErrors \in Nat /\ refused \in Nat
<1>1. IsFiniteSet(Recording)
  BY FS_Subset DEF DlqAssumption, Recording
<1>2. Cardinality(Recording) \in Nat
  BY <1>1, FS_CardinalityType
<1>3. QED
  BY <1>2, LenProperties DEF TypeOK, Held

LEMMA AccountingInvHolds == Spec => []AccountingInv
<1> USE DlqAssumption
<1>1. Init => AccountingInv
  <2> SUFFICES ASSUME Init PROVE AccountingInv
    OBVIOUS
  <2>1. called = {} /\ Recording = {} /\ Held = 0 /\ dropped = 0 /\ produceErrors = 0 /\ refused = 0
    BY DEF Init, Recording, Held
  <2>2. Cardinality({}) = 0 /\ IsFiniteSet({})
    BY FS_EmptySet
  <2>3. Len(ch) = 0 /\ Len(produced) = 0
    BY DEF Init
  <2>4. QED
    BY <2>1, <2>2, <2>3 DEF AccountingInv, Places
<1>2. TypeOK /\ AccountingInv /\ [Next]_vars => AccountingInv'
  <2> SUFFICES ASSUME TypeOK, AccountingInv, [Next]_vars
               PROVE  AccountingInv'
    OBVIOUS
  <2>1. /\ Cardinality(Recording) \in Nat /\ Len(ch) \in Nat /\ Held \in Nat
        /\ Len(produced) \in Nat /\ dropped \in Nat /\ produceErrors \in Nat /\ refused \in Nat
    BY PlacesAreNumbers
  <2>2. IsFiniteSet(called) /\ Cardinality(called) = Places
    BY DEF AccountingInv
  <2>3. ASSUME NEW c \in Callers, NEW p \in Payloads, RecordCall(c, p)
        PROVE  AccountingInv'
    <3>1. IsFiniteSet(called') /\ Cardinality(called') = Cardinality(called) + 1
      BY <2>2, <2>3, FS_AddElement DEF RecordCall
    <3>2. /\ Len(ch)' = Len(ch) /\ Held' = Held /\ Len(produced)' = Len(produced)
          /\ dropped' = dropped /\ produceErrors' = produceErrors
      BY <2>3 DEF RecordCall, Held
    <3>3. CASE done
      <4>1. refused' = refused + 1 /\ recording' = recording
        BY <2>3, <3>3 DEF RecordCall
      <4>2. Cardinality(Recording)' = Cardinality(Recording)
        BY <4>1, SameRecording
      <4>3. Places' = Places + 1
        <5>1. Places' = Cardinality(Recording) + Len(ch) + Held + Len(produced)
                          + dropped + produceErrors + (refused + 1)
          BY <3>2, <4>1, <4>2 DEF Places
        <5>2. Places = Cardinality(Recording) + Len(ch) + Held + Len(produced)
                         + dropped + produceErrors + refused
          BY DEF Places
        <5>3. QED
          BY <2>1, <5>1, <5>2
      <4>4. QED
        BY <2>2, <3>1, <4>3 DEF AccountingInv
    <3>4. CASE ~done
      <4>1. refused' = refused /\ Recording' = Recording \cup {c} /\ c \notin Recording
        BY <2>3, <3>4 DEF RecordCall, Recording, TypeOK, DlqAssumption
      <4>2. IsFiniteSet(Recording)
        BY FS_Subset DEF DlqAssumption, Recording
      <4>3. Cardinality(Recording)' = Cardinality(Recording) + 1
        BY <4>1, <4>2, FS_AddElement
      <4>4. QED
        BY <2>1, <2>2, <3>1, <3>2, <4>1, <4>3 DEF AccountingInv, Places
    <3>5. QED
      BY <3>3, <3>4
  <2>4. ASSUME NEW c \in Callers, RecordSend(c)
        PROVE  AccountingInv'
    <3>1. Len(ch)' = Len(ch) + 1
      BY <2>4, AppendProperties DEF RecordSend, TypeOK
    <3>2. Cardinality(Recording)' = Cardinality(Recording) - 1
      BY <2>4, LeaveRecord DEF RecordSend
    <3>3. /\ called' = called /\ refused' = refused /\ Held' = Held
          /\ Len(produced)' = Len(produced) /\ dropped' = dropped /\ produceErrors' = produceErrors
      BY <2>4 DEF RecordSend, Held
    <3>4. QED
      BY <2>1, <2>2, <3>1, <3>2, <3>3 DEF AccountingInv, Places
  <2>5. ASSUME NEW c \in Callers, RecordDone(c) \/ RecordDrop(c)
        PROVE  AccountingInv'
    <3>1. Cardinality(Recording)' = Cardinality(Recording) - 1
      BY <2>5, LeaveRecord DEF RecordDone, RecordDrop
    <3>2. /\ called' = called /\ Len(ch)' = Len(ch) /\ Held' = Held
          /\ Len(produced)' = Len(produced) /\ produceErrors' = produceErrors
      BY <2>5 DEF RecordDone, RecordDrop, Held
    <3>3. \/ refused' = refused + 1 /\ dropped' = dropped
          \/ refused' = refused /\ dropped' = dropped + 1
      BY <2>5 DEF RecordDone, RecordDrop
    <3>4. QED
      BY <2>1, <2>2, <3>1, <3>2, <3>3 DEF AccountingInv, Places
  <2>6. CASE LoopReceive
    <3>1. Len(ch)' = Len(ch) - 1 /\ Head(ch) \in Payloads
      BY <2>6, HeadTailProperties DEF LoopReceive, TypeOK
    <3>2. Held = 0 /\ Held' = 1
      BY <2>6, <3>1 DEF LoopReceive, DlqAssumption, Held
    <3>3. /\ called' = called /\ recording' = recording /\ refused' = refused
          /\ Len(produced)' = Len(produced) /\ dropped' = dropped /\ produceErrors' = produceErrors
      BY <2>6 DEF LoopReceive, callVars
    <3>4. Cardinality(Recording)' = Cardinality(Recording)
      BY <3>3, SameRecording
    <3>5. QED
      BY <2>1, <2>2, <3>1, <3>2, <3>3, <3>4 DEF AccountingInv, Places
  <2>7. CASE Produce
    <3>1. Held = 1 /\ Held' = 0
      BY <2>7 DEF Produce, Held
    <3>2. called' = called /\ recording' = recording /\ refused' = refused /\ Len(ch)' = Len(ch)
      BY <2>7 DEF Produce, callVars
    <3>3. hold \in Payloads /\ Len(Append(produced, hold)) = Len(produced) + 1
      BY <2>7, AppendProperties DEF Produce, TypeOK
    <3>4. \/ Len(produced)' = Len(produced) + 1 /\ dropped' = dropped /\ produceErrors' = produceErrors
          \/ dropped' = dropped + 1 /\ Len(produced)' = Len(produced) /\ produceErrors' = produceErrors
          \/ produceErrors' = produceErrors + 1 /\ Len(produced)' = Len(produced) /\ dropped' = dropped
      BY <2>7, <3>3 DEF Produce, OversizeCounted
    <3>5. Cardinality(Recording)' = Cardinality(Recording)
      BY <3>2, SameRecording
    <3>6. Places' = Places
      <4>1. CASE Len(produced)' = Len(produced) + 1 /\ dropped' = dropped /\ produceErrors' = produceErrors
        <5>1. Places' = Cardinality(Recording) + Len(ch) + 0 + (Len(produced) + 1)
                          + dropped + produceErrors + refused
          BY <3>1, <3>2, <3>5, <4>1 DEF Places
        <5>2. Places = Cardinality(Recording) + Len(ch) + Held + Len(produced)
                         + dropped + produceErrors + refused
          BY DEF Places
        <5>3. QED
          BY <2>1, <3>1, <5>1, <5>2
      <4>2. CASE dropped' = dropped + 1 /\ Len(produced)' = Len(produced) /\ produceErrors' = produceErrors
        <5>1. Places' = Cardinality(Recording) + Len(ch) + 0 + Len(produced)
                          + (dropped + 1) + produceErrors + refused
          BY <3>1, <3>2, <3>5, <4>2 DEF Places
        <5>2. Places = Cardinality(Recording) + Len(ch) + Held + Len(produced)
                         + dropped + produceErrors + refused
          BY DEF Places
        <5>3. QED
          BY <2>1, <3>1, <5>1, <5>2
      <4>3. CASE produceErrors' = produceErrors + 1 /\ Len(produced)' = Len(produced) /\ dropped' = dropped
        <5>1. Places' = Cardinality(Recording) + Len(ch) + 0 + Len(produced)
                          + dropped + (produceErrors + 1) + refused
          BY <3>1, <3>2, <3>5, <4>3 DEF Places
        <5>2. Places = Cardinality(Recording) + Len(ch) + Held + Len(produced)
                         + dropped + produceErrors + refused
          BY DEF Places
        <5>3. QED
          BY <2>1, <3>1, <5>1, <5>2
      <4>4. QED
        BY <3>4, <4>1, <4>2, <4>3
    <3>7. QED
      BY <2>2, <3>2, <3>6 DEF AccountingInv
  <2>8. ASSUME LoopDone \/ LoopReturn \/ UNCHANGED vars \/ \E k \in Closers : Close(k)
        PROVE  AccountingInv'
    <3>1. UNCHANGED <<called, recording, refused, ch, hold, produced, dropped, produceErrors>>
      BY <2>8 DEF LoopDone, LoopReturn, vars, callVars, Close, CloseCAS, CloseSignal, CloseWait, CloseProducer
    <3>2. Cardinality(Recording)' = Cardinality(Recording)
      BY <3>1, SameRecording
    <3>3. Held' = Held
      BY <3>1 DEF Held
    <3>4. QED
      BY <2>2, <3>1, <3>2, <3>3 DEF AccountingInv, Places
  <2>9. QED
    BY <2>3, <2>4, <2>5, <2>6, <2>7, <2>8 DEF Next, Record, Loop
<1>3. QED
  BY <1>1, <1>2, TypeCorrect, PTL DEF Spec

\* No Record call disappears: each is running, its payload is buffered, in
\* produce(), produced or counted, or it was refused (dlq.Stats' counters).
THEOREM RecordsAccounted == Spec => []Accounting
<1>1. AccountingInv => Accounting
  BY DEF AccountingInv, Places, Accounting, Recording, Held
<1>2. QED
  BY <1>1, AccountingInvHolds, PTL

----------------------------------------------------------------------------
(* What was buffered in time is drained.                                    *)

\* The places a payload passes are disjoint and hold it once: it is in one
\* of them only after Record was called with it.
OnceInv ==
    /\ \A i, j \in DOMAIN ch : ch[i] = ch[j] => i = j
    /\ \A i, j \in DOMAIN produced : produced[i] = produced[j] => i = j
    /\ \A i \in DOMAIN produced, j \in DOMAIN ch : produced[i] # ch[j]
    /\ \A i \in DOMAIN ch : ch[i] \in called /\ ch[i] # hold
    /\ \A i \in DOMAIN produced : produced[i] \in called /\ produced[i] # hold
    /\ hold # NoPayload => hold \in called
    /\ \A c \in Callers : recording[c] # NoPayload =>
          /\ recording[c] \in called
          /\ recording[c] # hold
          /\ \A i \in DOMAIN ch : ch[i] # recording[c]
          /\ \A i \in DOMAIN produced : produced[i] # recording[c]
          /\ \A d \in Callers : recording[d] = recording[c] => c = d

LEMMA OnceInvHolds == Spec => []OnceInv
<1> USE DlqAssumption DEF DlqAssumption
<1>1. Init => OnceInv
  BY DEF Init, OnceInv
<1>2. TypeOK /\ OnceInv /\ [Next]_vars => OnceInv'
  <2> SUFFICES ASSUME TypeOK, OnceInv, [Next]_vars
               PROVE  OnceInv'
    OBVIOUS
  <2>1. ASSUME NEW c \in Callers, NEW p \in Payloads, RecordCall(c, p)
        PROVE  OnceInv'
    BY <2>1 DEF TypeOK, OnceInv, RecordCall
  <2>2. ASSUME NEW c \in Callers, RecordSend(c)
        PROVE  OnceInv'
    <3>1. /\ DOMAIN ch = 1 .. Len(ch)
          /\ DOMAIN ch' = 1 .. Len(ch) + 1
          /\ Len(ch) \in Nat
          /\ \A i \in 1 .. Len(ch) : ch'[i] = ch[i]
          /\ ch'[Len(ch) + 1] = recording[c]
      BY <2>2 DEF TypeOK, RecordSend
    <3>2. QED
      BY <2>2, <3>1 DEF TypeOK, OnceInv, RecordSend
  <2>3. ASSUME NEW c \in Callers, RecordDone(c) \/ RecordDrop(c)
        PROVE  OnceInv'
    BY <2>3 DEF TypeOK, OnceInv, RecordDone, RecordDrop
  <2>4. CASE LoopReceive
    <3>1. /\ DOMAIN ch = 1 .. Len(ch)
          /\ DOMAIN ch' = 1 .. Len(ch) - 1
          /\ Len(ch) \in Nat /\ Len(ch) > 0
          /\ \A i \in 1 .. Len(ch) - 1 : ch'[i] = ch[i + 1]
          /\ hold' = ch[1] /\ hold' \in Payloads
      BY <2>4 DEF TypeOK, LoopReceive
    <3>2. hold = NoPayload
      BY <2>4 DEF LoopReceive
    <3>3. produced' = produced /\ called' = called /\ recording' = recording
      BY <2>4 DEF LoopReceive, callVars
    <3>4. \A i \in DOMAIN ch' : i + 1 \in DOMAIN ch /\ ch'[i] = ch[i + 1]
      BY <3>1
    <3>5. 1 \in DOMAIN ch /\ \A i \in DOMAIN ch' : i \in Nat /\ i + 1 # 1
      BY <3>1
    <3>6. \A i, j \in DOMAIN ch' : ch'[i] = ch'[j] => i = j
      BY <3>1, <3>4 DEF OnceInv
    <3>7. \A i \in DOMAIN ch' : ch'[i] \in called /\ ch'[i] # hold'
      BY <3>1, <3>4, <3>5 DEF OnceInv
    <3>8. /\ hold' \in called
          /\ \A i \in DOMAIN produced : produced[i] # hold' /\ produced[i] \in called
      BY <3>1, <3>5 DEF OnceInv
    <3>9. \A i \in DOMAIN produced, j \in DOMAIN ch' : produced[i] # ch'[j]
      BY <3>4 DEF OnceInv
    <3>10. ASSUME NEW c \in Callers, recording[c] # NoPayload
           PROVE  recording[c] # hold' /\ \A i \in DOMAIN ch' : ch'[i] # recording[c]
      BY <3>1, <3>4, <3>5, <3>10 DEF OnceInv
    <3>11. \A i, j \in DOMAIN produced : produced[i] = produced[j] => i = j
      BY DEF OnceInv
    <3>12. \A c \in Callers : recording[c] # NoPayload =>
              /\ recording[c] \in called
              /\ \A i \in DOMAIN produced : produced[i] # recording[c]
              /\ \A d \in Callers : recording[d] = recording[c] => c = d
      BY DEF OnceInv
    <3>13. \A c \in Callers : recording'[c] # NoPayload =>
              /\ recording'[c] \in called'
              /\ recording'[c] # hold'
              /\ \A i \in DOMAIN ch' : ch'[i] # recording'[c]
              /\ \A i \in DOMAIN produced' : produced'[i] # recording'[c]
              /\ \A d \in Callers : recording'[d] = recording'[c] => c = d
      BY <3>3, <3>10, <3>12
    <3>14. /\ \A i, j \in DOMAIN produced' : produced'[i] = produced'[j] => i = j
           /\ \A i \in DOMAIN produced', j \in DOMAIN ch' : produced'[i] # ch'[j]
           /\ \A i \in DOMAIN ch' : ch'[i] \in called' /\ ch'[i] # hold'
           /\ \A i \in DOMAIN produced' : produced'[i] \in called' /\ produced'[i] # hold'
           /\ hold' \in called'
      BY <3>3, <3>7, <3>8, <3>9, <3>11
    <3>15. QED
      BY <3>6, <3>13, <3>14 DEF OnceInv
  <2>5. CASE Produce
    <3>1. CASE produced' = Append(produced, hold)
      <4>1. /\ DOMAIN produced = 1 .. Len(produced)
            /\ DOMAIN produced' = 1 .. Len(produced) + 1
            /\ Len(produced) \in Nat
            /\ \A i \in 1 .. Len(produced) : produced'[i] = produced[i]
            /\ produced'[Len(produced) + 1] = hold
            /\ hold' = NoPayload
        BY <2>5, <3>1 DEF TypeOK, Produce
      <4>2. /\ hold # NoPayload /\ hold \in called
            /\ ch' = ch /\ called' = called /\ recording' = recording
        BY <2>5 DEF OnceInv, Produce, callVars
      <4>3. \A i \in DOMAIN produced' :
               \/ i \in DOMAIN produced /\ produced'[i] = produced[i]
               \/ i = Len(produced) + 1 /\ produced'[i] = hold
        BY <4>1
      <4>4. \A i, j \in DOMAIN produced' : produced'[i] = produced'[j] => i = j
        BY <4>3 DEF OnceInv
      <4>5. \A i \in DOMAIN produced', j \in DOMAIN ch' : produced'[i] # ch'[j]
        BY <4>2, <4>3 DEF OnceInv
      <4>6. \A i \in DOMAIN produced' : produced'[i] \in called' /\ produced'[i] # hold'
        BY <4>1, <4>2, <4>3 DEF TypeOK, OnceInv
      <4>7. \A c \in Callers : recording'[c] # NoPayload =>
              \A i \in DOMAIN produced' : produced'[i] # recording'[c]
        BY <4>2, <4>3 DEF OnceInv
      <4>8. \A i \in DOMAIN ch' : ch'[i] # hold'
        BY <4>1, <4>2 DEF TypeOK
      <4>9. QED
        BY <4>1, <4>2, <4>4, <4>5, <4>6, <4>7, <4>8 DEF OnceInv
    <3>2. CASE produced' = produced
      BY <2>5, <3>2 DEF TypeOK, OnceInv, Produce, callVars
    <3>3. QED
      BY <2>5, <3>1, <3>2 DEF Produce
  <2>6. ASSUME LoopDone \/ LoopReturn \/ UNCHANGED vars \/ \E k \in Closers : Close(k)
        PROVE  OnceInv'
    <3>1. UNCHANGED <<called, recording, ch, hold, produced>>
      BY <2>6 DEF LoopDone, LoopReturn, vars, callVars, Close, CloseCAS, CloseSignal, CloseWait, CloseProducer
    <3>2. QED
      BY <3>1 DEF OnceInv
  <2>7. QED
    BY <2>1, <2>2, <2>3, <2>4, <2>5, <2>6 DEF Next, Record, Loop
<1>3. QED
  BY <1>1, <1>2, TypeCorrect, PTL DEF Spec

\* What a payload that was buffered in time carries with it from then on: no
\* Record call can put it in the buffer again, and the loop has not left it there.
InTime(p) ==
    /\ p \in called
    /\ \A c \in Callers : recording[c] # p
    /\ lpc = "exit" => p \notin Entries(ch)

LEMMA InTimeStarts ==
    ASSUME NEW p \in Payloads, TypeOK, CloseInv, OnceInv, ~done, p \in Entries(ch)
    PROVE  InTime(p)
<1> USE DlqAssumption DEF DlqAssumption
<1>1. PICK i \in DOMAIN ch : ch[i] = p
  BY DEF Entries
<1>2. p \in called /\ \A c \in Callers : recording[c] # p
  BY <1>1 DEF OnceInv
<1>3. lpc # "exit"
  BY DEF CloseInv
<1> QED BY <1>2, <1>3 DEF InTime

LEMMA InTimeStays ==
    ASSUME NEW p \in Payloads, TypeOK, InTime(p), [Next]_vars PROVE InTime(p)'
<1> USE DlqAssumption DEF DlqAssumption
<1>1. ASSUME NEW c \in Callers, NEW q \in Payloads, RecordCall(c, q) PROVE InTime(p)'
  BY <1>1 DEF InTime, RecordCall, TypeOK
<1>2. ASSUME NEW c \in Callers, RecordSend(c) PROVE InTime(p)'
  <2>1. /\ DOMAIN ch = 1 .. Len(ch) /\ DOMAIN ch' = 1 .. Len(ch) + 1 /\ Len(ch) \in Nat
        /\ \A i \in 1 .. Len(ch) : ch'[i] = ch[i]
        /\ ch'[Len(ch) + 1] = recording[c]
    BY <1>2 DEF TypeOK, RecordSend
  <2>2. recording[c] # p
    BY DEF InTime
  <2>3. \A i \in DOMAIN ch' : i \in DOMAIN ch \/ i = Len(ch) + 1
    BY <2>1
  <2>4. p \in Entries(ch') => p \in Entries(ch)
    BY <2>1, <2>2, <2>3 DEF Entries
  <2> QED BY <1>2, <2>4 DEF InTime, RecordSend, TypeOK
<1>3. ASSUME NEW c \in Callers, RecordDone(c) \/ RecordDrop(c) PROVE InTime(p)'
  BY <1>3 DEF InTime, RecordDone, RecordDrop, TypeOK
<1>4. CASE LoopReceive
  BY <1>4 DEF InTime, LoopReceive, callVars
<1>5. CASE LoopDone
  BY <1>5 DEF InTime, LoopDone, WithDrain, callVars
<1>6. CASE LoopReturn
  BY <1>6 DEF InTime, LoopReturn, Entries, callVars
<1>7. CASE UNCHANGED <<ch, callVars, lpc>>
  BY <1>7 DEF InTime, callVars
<1>8. ASSUME Produce \/ UNCHANGED vars \/ \E k \in Closers : Close(k)
      PROVE  UNCHANGED <<ch, callVars, lpc>>
  BY <1>8 DEF Produce, vars, Close, CloseCAS, CloseSignal, CloseWait, CloseProducer
<1> QED BY <1>1, <1>2, <1>3, <1>4, <1>5, <1>6, <1>7, <1>8 DEF Next, Record, Loop

\* A payload in the buffer before Close signals done is not stranded: once the
\* loop has ended it is not in the buffer, now or later (recorder.go loop).
THEOREM DrainsBufferedHolds == Spec => DrainsBuffered
<1> DEFINE Kept(p) == []((~done /\ p \in Entries(ch)) => [](lpc = "exit" => p \notin Entries(ch)))
<1>1. ASSUME NEW p \in Payloads PROVE Spec => Kept(p)
  <2> DEFINE Seen == ~done /\ p \in Entries(ch)
             Gone == lpc = "exit" => p \notin Entries(ch)
             J == InTime(p)
  <2>1. TypeOK /\ CloseInv /\ OnceInv /\ Seen => J
    BY InTimeStarts
  <2>2. TypeOK /\ J /\ [Next]_vars => J'
    BY InTimeStays
  <2>3. J => Gone
    BY DEF InTime
  <2> HIDE DEF Seen, Gone, J
  <2>4. Spec => [](Seen => []Gone)
    BY <2>1, <2>2, <2>3, TypeCorrect, CloseInvHolds, OnceInvHolds, PTL DEF Spec
  <2> QED BY <2>4 DEF Seen, Gone
<1> HIDE DEF Kept
<1>2. Spec => \A p \in Payloads : Kept(p)
  BY <1>1
<1> QED BY <1>2 DEF DrainsBuffered, Kept
=============================================================================
