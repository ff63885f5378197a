------------------------ MODULE KafkaProducer_proofs ------------------------
(***************************************************************************)
(* Proofs about KafkaProducer, for every set of messages and of closers:   *)
(* the types, that the callback and the metrics hook agree (which rests on *)
(* a message being reported once), and that Close has seen the last call   *)
(* of the hook.                                                            *)
(***************************************************************************)
EXTENDS KafkaProducer, SequenceTheorems, TLAPS

\* What the handler reads of an event.
LEMMA EventFields ==
    /\ Down \in Events /\ Down.kind = "down" /\ NoEvent.kind = "none"
    /\ \A m \in Messages, ok \in BOOLEAN :
          /\ Delivery(m, ok) \in Events
          /\ Delivery(m, ok).kind = "report"
          /\ Delivery(m, ok).msg = m
    /\ \A e \in Events \cup {NoEvent} :
          e.kind = "report" => e.msg \in Messages /\ e.ok \in BOOLEAN
<1>1. Down \in Events /\ Down.kind = "down" /\ NoEvent.kind = "none"
  BY DEF Events, Down, NoEvent
<1>2. ASSUME NEW m \in Messages, NEW ok \in BOOLEAN
      PROVE  /\ Delivery(m, ok) \in Events
             /\ Delivery(m, ok).kind = "report"
             /\ Delivery(m, ok).msg = m
             /\ Delivery(m, ok).ok = ok
  BY DEF Events, Delivery
<1>3. ASSUME NEW e \in Events \cup {NoEvent}, e.kind = "report"
      PROVE  e.msg \in Messages /\ e.ok \in BOOLEAN
  <2>1. PICK m \in Messages, ok \in BOOLEAN : e = Delivery(m, ok)
    BY <1>1, <1>3 DEF Events
  <2> QED BY <1>2, <2>1
<1> QED BY <1>1, <1>2, <1>3

----------------------------------------------------------------------------
(* Types.                                                                   *)

LEMMA InitTypeOK == Init => TypeOK
<1> SUFFICES ASSUME Init PROVE TypeOK
  OBVIOUS
<1>1. events \in Seq(Events) /\ hooked \in Seq([msg : Messages, ok : BOOLEAN])
  BY DEF Init
<1> QED BY <1>1 DEF Init, TypeOK

\* Between the callback's start and the hook the handler holds a failed delivery.
HookInv == hpc = "hook" => ev.kind = "report" /\ ~ev.ok

LEMMA InitHookInv == Init => HookInv
  BY DEF Init, HookInv

LEMMA NextHookInv == HookInv /\ [Next]_vars => HookInv'
  BY DEF HookInv, Next, Library, Handler, Produce, Deliver, AllBrokersDown, RunCallback, HandlerDone,
     HandlerReceive, NotifyDeliveryFailure, NotifyDelivery, HandleDown, Close, CloseDone, CloseWait,
     CloseFlush, CloseLib, vars, libVars, handlerVars

LEMMA NextTypeOK == TypeOK /\ HookInv /\ [Next]_vars => TypeOK'
<1> SUFFICES ASSUME TypeOK, HookInv, [Next]_vars PROVE TypeOK'
  OBVIOUS
<1> USE ProducerAssumption DEF ProducerAssumption
<1>1. ASSUME NEW m \in Messages, Produce(m) PROVE TypeOK'
  BY <1>1 DEF Produce, TypeOK, handlerVars
<1>2. ASSUME NEW m \in Messages, RunCallback(m) PROVE TypeOK'
  BY <1>2 DEF RunCallback, CallbackMessage, TypeOK, libVars
<1>3. ASSUME NEW m \in Messages, NEW ok \in BOOLEAN, Deliver(m, ok) PROVE TypeOK'
  <2>1. events' \in Seq(Events)
    BY <1>3, EventFields DEF Deliver, TypeOK
  <2> QED BY <1>3, <2>1 DEF Deliver, TypeOK, handlerVars
<1>4. CASE AllBrokersDown
  <2>1. events' \in Seq(Events)
    BY <1>4, EventFields DEF AllBrokersDown, TypeOK
  <2> QED BY <1>4, <2>1 DEF AllBrokersDown, TypeOK, handlerVars
<1>5. CASE HandlerDone
  BY <1>5 DEF HandlerDone, TypeOK, libVars
<1>6. CASE HandlerReceive
  <2>1. Head(events) \in Events /\ Tail(events) \in Seq(Events)
    BY <1>6, HeadTailProperties DEF HandlerReceive, TypeOK
  <2> QED BY <1>6, <2>1 DEF HandlerReceive, TypeOK
<1>7. CASE NotifyDeliveryFailure
  <2>1. ev.msg \in Messages
    BY <1>7, EventFields DEF NotifyDeliveryFailure, TypeOK
  <2>2. spawned' \subseteq Messages
    BY <1>7, <2>1 DEF NotifyDeliveryFailure, SpawnFor, TypeOK
  <2> QED BY <1>7, <2>2 DEF NotifyDeliveryFailure, TypeOK, libVars
<1>11. CASE NotifyDelivery
  <2>1. ev.msg \in Messages /\ ev.ok \in BOOLEAN
    BY <1>11, EventFields DEF NotifyDelivery, TypeOK, HookInv
  <2>2. hooked' \in Seq([msg : Messages, ok : BOOLEAN])
    <3>1. [msg |-> ev.msg, ok |-> ev.ok] \in [msg : Messages, ok : BOOLEAN]
      BY <2>1
    <3> QED BY <1>11, <3>1 DEF NotifyDelivery, TypeOK
  <2> QED BY <1>11, <2>2 DEF NotifyDelivery, TypeOK, libVars
<1>8. CASE HandleDown
  BY <1>8 DEF HandleDown, TypeOK, libVars
<1>9. ASSUME NEW k \in Closers, Close(k) PROVE TypeOK'
  BY <1>9 DEF Close, CloseDone, CloseWait, CloseFlush, CloseLib, TypeOK, libVars, handlerVars
<1>10. CASE UNCHANGED vars
  BY <1>10 DEF TypeOK, vars, libVars, handlerVars
<1> QED BY <1>1, <1>2, <1>3, <1>4, <1>5, <1>6, <1>7, <1>8, <1>9, <1>10, <1>11 DEF Next, Library, Handler

\* For any messages and closers, and callbacks or none, the variables keep their
\* types (producer.go).
THEOREM TypeCorrect == Spec => []TypeOK
  BY InitTypeOK, NextTypeOK, InitHookInv, NextHookInv, PTL DEF Spec

----------------------------------------------------------------------------
(* A message is in one place: outstanding, in Events, in the handler, or    *)
(* seen by the hook.                                                        *)

\* Message m is reported by event e.
Reports(e, m) == e.kind = "report" /\ e.msg = m

\* A message is reported once: the places exclude each other, two reports in
\* Events are of two messages, and only messages of Produce are anywhere.
OnceInv ==
    /\ outq \subseteq used
    /\ \A m \in Messages :
          /\ \A i \in DOMAIN events : Reports(events[i], m) => m \in used \ outq
          /\ \A i, j \in DOMAIN events : Reports(events[i], m) /\ Reports(events[j], m) => i = j
          /\ Reports(ev, m) =>
                /\ m \in used \ outq
                /\ \A i \in DOMAIN events : ~Reports(events[i], m)
          /\ \A h \in DOMAIN hooked : hooked[h].msg = m =>
                /\ m \in used \ outq
                /\ ~Reports(ev, m)
                /\ \A i \in DOMAIN events : ~Reports(events[i], m)
                /\ \A g \in DOMAIN hooked : hooked[g].msg = m => g = h

LEMMA InitOnceInv == Init => OnceInv
  BY DEF Init, OnceInv, NoEvent, Reports

\* One more event in Events, which reports only what has just left outq.
LEMMA AppendKeepsOnceInv ==
    ASSUME TypeOK, OnceInv, NEW e \in Events,
           \A m \in Messages : Reports(e, m) => m \in outq,
           outq' = outq \ {m \in Messages : Reports(e, m)},
           events' = Append(events, e),
           UNCHANGED <<used, ev, hooked>>
    PROVE  OnceInv'
<1>1. /\ Len(events) \in Nat /\ DOMAIN events = 1..Len(events)
      /\ DOMAIN events' = 1..(Len(events) + 1)
      /\ events'[Len(events) + 1] = e
      /\ \A i \in DOMAIN events : events'[i] = events[i]
  BY DEF TypeOK
<1>2. \A i \in DOMAIN events' : i \in DOMAIN events \/ (i = Len(events) + 1 /\ i \notin DOMAIN events)
  BY <1>1
<1>3. ASSUME NEW i \in DOMAIN events', NEW m \in Messages, Reports(events'[i], m)
      PROVE  \/ m \in outq /\ i = Len(events) + 1
             \/ i \in DOMAIN events /\ Reports(events[i], m) /\ m \notin outq
  BY <1>1, <1>2, <1>3 DEF OnceInv
<1>4. \A m \in Messages : m \in outq' => m \in outq
  OBVIOUS
<1>5. ASSUME NEW m \in Messages
      PROVE  \A i, j \in DOMAIN events' : Reports(events'[i], m) /\ Reports(events'[j], m) => i = j
  BY <1>3 DEF OnceInv
<1>6. ASSUME NEW m \in Messages, NEW i \in DOMAIN events', Reports(events'[i], m)
      PROVE  m \in used \ outq'
  <2>1. CASE m \in outq /\ i = Len(events) + 1
    <3>1. m \in used
      BY <2>1 DEF OnceInv
    <3>2. Reports(e, m)
      BY <1>1, <1>6, <2>1
    <3> QED BY <3>1, <3>2
  <2>2. CASE i \in DOMAIN events /\ Reports(events[i], m)
    BY <2>2, <1>4 DEF OnceInv
  <2> QED BY <1>3, <1>6, <2>1, <2>2
<1>7. ASSUME NEW m \in Messages, Reports(ev, m)
      PROVE  m \in used \ outq' /\ \A i \in DOMAIN events' : ~Reports(events'[i], m)
  BY <1>3, <1>4, <1>7 DEF OnceInv
<1>8. ASSUME NEW m \in Messages, NEW h \in DOMAIN hooked, hooked[h].msg = m
      PROVE  /\ m \in used \ outq' /\ ~Reports(ev, m)
             /\ \A i \in DOMAIN events' : ~Reports(events'[i], m)
             /\ \A g \in DOMAIN hooked : hooked[g].msg = m => g = h
  BY <1>3, <1>4, <1>8 DEF OnceInv
<1> QED BY <1>5, <1>6, <1>7, <1>8 DEF OnceInv, Reports

LEMMA NextOnceInv == TypeOK /\ HookInv /\ OnceInv /\ [Next]_vars => OnceInv'
<1> SUFFICES ASSUME TypeOK, HookInv, OnceInv, [Next]_vars PROVE OnceInv'
  OBVIOUS
<1>1. ASSUME NEW m \in Messages, Produce(m) PROVE OnceInv'
  <2>1. m \notin used /\ used' = used \cup {m} /\ outq' = outq \cup {m}
    BY <1>1 DEF Produce
  <2>2. UNCHANGED <<events, ev, hooked>>
    BY <1>1 DEF Produce, handlerVars
  <2> QED BY <2>1, <2>2 DEF OnceInv, Reports
<1>2. ASSUME NEW m \in Messages, NEW ok \in BOOLEAN, Deliver(m, ok) PROVE OnceInv'
  <2>1. \A n \in Messages : Reports(Delivery(m, ok), n) <=> n = m
    BY EventFields DEF Reports
  <2>2. {n \in Messages : Reports(Delivery(m, ok), n)} = {m}
    BY <2>1
  <2> QED BY <1>2, <2>1, <2>2, EventFields, AppendKeepsOnceInv DEF Deliver, handlerVars
<1>3. CASE AllBrokersDown
  <2>1. \A n \in Messages : ~Reports(Down, n)
    BY EventFields DEF Reports
  <2>2. outq' = outq \ {n \in Messages : Reports(Down, n)}
    BY <1>3, <2>1 DEF AllBrokersDown
  <2> QED BY <1>3, <2>1, <2>2, EventFields, AppendKeepsOnceInv DEF AllBrokersDown, handlerVars
<1>4. CASE HandlerReceive
  <2>1. /\ Len(events) \in Nat /\ Len(events) > 0 /\ DOMAIN events = 1..Len(events)
        /\ DOMAIN events' = 1..(Len(events) - 1)
        /\ \A i \in DOMAIN events' : events'[i] = events[i + 1]
        /\ ev' = events[1]
    BY <1>4, HeadTailProperties DEF HandlerReceive, TypeOK
  <2>2. \A i \in DOMAIN events' : i + 1 \in DOMAIN events /\ i + 1 # 1
    BY <2>1
  <2>3. 1 \in DOMAIN events
    BY <2>1
  <2>4. UNCHANGED <<used, outq, hooked>>
    BY <1>4 DEF HandlerReceive
  <2>5. ASSUME NEW m \in Messages, Reports(ev', m)
        PROVE  m \in used \ outq /\ \A i \in DOMAIN events' : ~Reports(events'[i], m)
    BY <2>1, <2>2, <2>3, <2>5 DEF OnceInv
  <2>6. ASSUME NEW m \in Messages, NEW i \in DOMAIN events', NEW j \in DOMAIN events',
               Reports(events'[i], m), Reports(events'[j], m)
        PROVE  i = j
    <3>1. i + 1 = j + 1
      BY <2>1, <2>2, <2>6 DEF OnceInv
    <3> QED BY <3>1, <2>1
  <2>7. ASSUME NEW m \in Messages, NEW i \in DOMAIN events', Reports(events'[i], m)
        PROVE  m \in used \ outq
    BY <2>1, <2>2, <2>7 DEF OnceInv
  <2>8. ASSUME NEW m \in Messages, NEW h \in DOMAIN hooked, hooked[h].msg = m
        PROVE  /\ m \in used \ outq /\ ~Reports(ev', m)
               /\ \A i \in DOMAIN events' : ~Reports(events'[i], m)
               /\ \A g \in DOMAIN hooked : hooked[g].msg = m => g = h
    BY <2>1, <2>2, <2>3, <2>8 DEF OnceInv
  <2> QED BY <2>4, <2>5, <2>6, <2>7, <2>8 DEF OnceInv, Reports
<1>5. CASE NotifyDelivery
  <2>1. ev.msg \in Messages /\ Reports(ev, ev.msg)
    BY <1>5, EventFields DEF NotifyDelivery, TypeOK, HookInv, Reports
  <2>2. \A m \in Messages : ~Reports(ev', m)
    BY <1>5, EventFields DEF NotifyDelivery, Reports
  <2>3. /\ Len(hooked) \in Nat /\ DOMAIN hooked = 1..Len(hooked)
        /\ DOMAIN hooked' = 1..(Len(hooked) + 1)
        /\ hooked'[Len(hooked) + 1] = [msg |-> ev.msg, ok |-> ev.ok]
        /\ \A h \in DOMAIN hooked : hooked'[h] = hooked[h]
    BY <1>5 DEF NotifyDelivery, TypeOK
  <2>4. \A h \in DOMAIN hooked' :
           \/ h \in DOMAIN hooked /\ hooked'[h].msg = hooked[h].msg /\ hooked[h].msg # ev.msg
           \/ h = Len(hooked) + 1 /\ hooked'[h].msg = ev.msg
    BY <2>1, <2>3 DEF OnceInv
  <2>5. UNCHANGED <<used, outq, events>>
    BY <1>5 DEF NotifyDelivery, libVars
  <2>6. ASSUME NEW m \in Messages, NEW h \in DOMAIN hooked', hooked'[h].msg = m
        PROVE  /\ m \in used \ outq
               /\ \A i \in DOMAIN events : ~Reports(events[i], m)
               /\ \A g \in DOMAIN hooked' : hooked'[g].msg = m => g = h
    BY <2>1, <2>4, <2>6 DEF OnceInv
  <2> QED BY <2>2, <2>5, <2>6 DEF OnceInv, Reports
<1>6. CASE HandleDown
  <2>1. \A m \in Messages : ~Reports(ev', m)
    BY <1>6, EventFields DEF HandleDown, Reports
  <2> QED BY <1>6, <2>1 DEF HandleDown, OnceInv, Reports, libVars
<1>7. CASE UNCHANGED <<libVars, ev, hooked>>
  BY <1>7 DEF OnceInv, Reports, libVars
<1>8. \/ \E m \in Messages : Produce(m) \/ \E ok \in BOOLEAN : Deliver(m, ok)
      \/ AllBrokersDown \/ HandlerReceive \/ NotifyDelivery \/ HandleDown
      \/ UNCHANGED <<libVars, ev, hooked>>
  BY DEF Next, Library, Handler, HandlerDone, NotifyDeliveryFailure, RunCallback, Close, CloseDone,
     CloseWait, CloseFlush, CloseLib, vars, handlerVars
<1> QED BY <1>1, <1>2, <1>3, <1>4, <1>5, <1>6, <1>7, <1>8

----------------------------------------------------------------------------
(* Hook and callback.                                                       *)

\* The messages the callback belongs to, with a message of their own each: the
\* ones the hook saw are past the event in hand.
LEMMA FailedSeenOfHooked ==
    ASSUME TypeOK, OnceInv, NEW m \in Messages, Reports(ev, m) PROVE m \notin FailedSeen
  BY DEF OnceInv, FailedSeen

\* What a report adds to what the hook saw fail.
LEMMA HookAddsFailure ==
    ASSUME TypeOK, HookInv, NotifyDelivery
    PROVE  FailedSeen' = FailedSeen \cup (IF ev.ok THEN {} ELSE {ev.msg})
<1>1. /\ Len(hooked) \in Nat /\ DOMAIN hooked = 1..Len(hooked)
      /\ DOMAIN hooked' = 1..(Len(hooked) + 1)
      /\ hooked'[Len(hooked) + 1].msg = ev.msg
      /\ hooked'[Len(hooked) + 1].ok = ev.ok
      /\ \A h \in DOMAIN hooked : hooked'[h] = hooked[h]
  BY DEF NotifyDelivery, TypeOK
<1>2. \A h \in DOMAIN hooked' : h \in DOMAIN hooked \/ h = Len(hooked) + 1
  BY <1>1
<1>3. DOMAIN hooked \subseteq DOMAIN hooked' /\ Len(hooked) + 1 \in DOMAIN hooked'
  BY <1>1
<1> QED BY <1>1, <1>2, <1>3 DEF FailedSeen

\* Every message the metrics hook saw fail has exactly one callback, run or about
\* to run, and nothing else has one, although the callback goroutines run before
\* or after the hook and while the loop is at other events (producer.go:98-171).
THEOREM CallbackAgreesHolds == Spec => []CallbackAgrees
<1>1. Init => CallbackAgrees
  BY DEF Init, CallbackAgrees, FailedSeen, FailedPending
<1>2. TypeOK /\ HookInv /\ OnceInv /\ CallbackAgrees /\ [Next]_vars => CallbackAgrees'
  <2> SUFFICES ASSUME TypeOK, HookInv, OnceInv, CallbackAgrees, Callback, [Next]_vars
               PROVE  /\ spawned' \cap calledBack' = {}
                      /\ spawned' \cup calledBack' = FailedSeen' \cup FailedPending'
    BY DEF CallbackAgrees
  <2>0. spawned \cap calledBack = {} /\ spawned \cup calledBack = FailedSeen \cup FailedPending
    BY DEF CallbackAgrees
  <2>1. CASE NotifyDeliveryFailure
    <3>1. ev.msg \in Messages /\ Reports(ev, ev.msg)
      BY <2>1, EventFields DEF NotifyDeliveryFailure, TypeOK, Reports
    <3>2. ev.msg \notin FailedSeen /\ FailedPending = {} /\ FailedPending' = {ev.msg}
      BY <2>1, <3>1, FailedSeenOfHooked DEF NotifyDeliveryFailure, FailedPending
    <3>3. FailedSeen' = FailedSeen
      BY <2>1 DEF NotifyDeliveryFailure, FailedSeen
    <3>4. spawned' = spawned \cup {ev.msg} /\ calledBack' = calledBack
      BY <2>1 DEF NotifyDeliveryFailure, SpawnFor
    <3> QED BY <2>0, <3>2, <3>3, <3>4
  <2>2. CASE NotifyDelivery
    <3>1. FailedSeen' = FailedSeen \cup (IF ev.ok THEN {} ELSE {ev.msg})
      BY <2>2, HookAddsFailure
    <3>2. FailedPending = (IF ev.ok THEN {} ELSE {ev.msg}) /\ FailedPending' = {}
      BY <2>2 DEF NotifyDelivery, FailedPending, HookInv
    <3> QED BY <2>0, <2>2, <3>1, <3>2 DEF NotifyDelivery
  <2>3. ASSUME NEW m \in Messages, RunCallback(m)
        PROVE  /\ spawned' \cap calledBack' = {}
               /\ spawned' \cup calledBack' = FailedSeen' \cup FailedPending'
    <3>1. FailedSeen' = FailedSeen /\ FailedPending' = FailedPending
      BY <2>3 DEF RunCallback, FailedSeen, FailedPending
    <3> QED BY <2>0, <2>3, <3>1 DEF RunCallback, CallbackMessage
  <2>4. CASE UNCHANGED <<hooked, spawned, calledBack>> /\ FailedPending' = FailedPending
    BY <2>0, <2>4 DEF FailedSeen
  <2>5. CASE HandlerDone \/ HandlerReceive \/ HandleDown
    BY <2>4, <2>5 DEF HandlerDone, HandlerReceive, HandleDown, FailedPending
  <2>6. CASE UNCHANGED <<handlerVars, calledBack>>
    BY <2>4, <2>6 DEF FailedPending, handlerVars
  <2> QED
    BY <2>1, <2>2, <2>3, <2>5, <2>6 DEF Next, Library, Handler, Produce, Deliver, AllBrokersDown,
       Close, CloseDone, CloseWait, CloseFlush, CloseLib, vars
<1> QED BY <1>1, <1>2, InitTypeOK, NextTypeOK, InitHookInv, NextHookInv, InitOnceInv, NextOnceInv, PTL DEF Spec

----------------------------------------------------------------------------
(* Close.                                                                   *)

\* A Close that flushes has waited for the handler, which does not come back.
EndInv == (\E k \in Closers : cpc[k] \in {"flush", "close", "returned"}) => HandlerEnded

\* Once Close flushes, the metrics hook has been called for the last time: the
\* handler it waited for is gone (producer.go:233-244).
THEOREM QuietAfterCloseHolds == Spec => QuietAfterClose
<1>1. Init => EndInv
  BY DEF Init, EndInv
<1>2. TypeOK /\ EndInv /\ [Next]_vars => EndInv'
  <2> SUFFICES ASSUME TypeOK, EndInv, [Next]_vars PROVE EndInv'
    OBVIOUS
  <2>1. HandlerEnded => HandlerEnded'
    BY DEF HandlerEnded, Next, Library, Handler, Produce, Deliver, AllBrokersDown, RunCallback, HandlerDone,
       HandlerReceive, NotifyDeliveryFailure, NotifyDelivery, HandleDown, Close, CloseDone, CloseWait, CloseFlush, CloseLib,
       vars, libVars, handlerVars
  <2>2. ASSUME NEW k \in Closers, Close(k) PROVE EndInv'
    BY <2>1, <2>2 DEF Close, CloseDone, CloseWait, CloseFlush, CloseLib, TypeOK, EndInv
  <2>3. CASE cpc' = cpc
    BY <2>1, <2>3 DEF EndInv
  <2> QED
    BY <2>2, <2>3 DEF Next, Library, Handler, Produce, Deliver, AllBrokersDown, RunCallback,
       HandlerDone, HandlerReceive, NotifyDeliveryFailure, NotifyDelivery, HandleDown, vars
<1>3. EndInv /\ [Next]_vars =>
        [(\E k \in Closers : cpc[k] \in {"flush", "close", "returned"}) => UNCHANGED hooked]_vars
  BY DEF EndInv, HandlerEnded, Next, Library, Handler, Produce, Deliver, AllBrokersDown, RunCallback,
     HandlerDone, HandlerReceive, NotifyDeliveryFailure, NotifyDelivery, HandleDown, Close, CloseDone, CloseWait, CloseFlush, CloseLib,
     vars, handlerVars
<1> QED BY <1>1, <1>2, <1>3, InitTypeOK, NextTypeOK, InitHookInv, NextHookInv, PTL DEF Spec, QuietAfterClose
=============================================================================
