--------------------------- MODULE KafkaProducer ---------------------------
(***************************************************************************)
(* The Kafka producer, src/kafka/producer.go: Produce hands messages to    *)
(* librdkafka, one goroutine (handleDeliveryReports) reads the Events      *)
(* channel and calls the metrics hook and, on a goroutine of its own, the  *)
(* OnDeliveryFailure callback, Close signals that goroutine through done   *)
(* and then flushes librdkafka.                                            *)
(*                                                                         *)
(* librdkafka is external: it delivers an outstanding message or fails it, *)
(* and puts the report, or an ErrAllBrokersDown event, on Events.  A       *)
(* message is one Produce call.                                            *)
(***************************************************************************)
EXTENDS Naturals, Sequences, FiniteSets

CONSTANTS
    Messages,       \* the messages
    Closers,        \* goroutines that call Close
    Callback        \* ProducerConfig.OnDeliveryFailure # nil

ASSUME ProducerAssumption == Callback \in BOOLEAN

NoEvent == [kind |-> "none"]
Down == [kind |-> "down"]
Delivery(m, ok) == [kind |-> "report", msg |-> m, ok |-> ok]
Events == {Down} \cup {Delivery(m, ok) : m \in Messages, ok \in BOOLEAN}

VARIABLES
    used,       \* messages Produce was called with
    outq,       \* messages librdkafka has not delivered or failed
    events,     \* contents of the Events channel
    down,       \* ErrAllBrokersDown was emitted
    done,       \* the done channel is closed
    hpc,        \* program counter of handleDeliveryReports
    ev,         \* the event it handles
    hooked,     \* calls of MetricsHook.OnDelivery, in order
    spawned,    \* callback goroutines that have not run yet
    calledBack, \* messages OnDeliveryFailure was called with
    cpc,        \* [Closers -> program counter inside Close]
    up          \* the process runs

libVars == <<used, outq, events, down>>
handlerVars == <<hpc, ev, hooked, spawned>>
vars == <<libVars, done, handlerVars, calledBack, cpc, up>>

TypeOK ==
    /\ used \subseteq Messages
    /\ outq \subseteq Messages
    /\ events \in Seq(Events)
    /\ down \in BOOLEAN
    /\ done \in BOOLEAN
    /\ hpc \in {"select", "handle", "hook", "exit", "panic"}
    /\ ev \in Events \cup {NoEvent}
    /\ hooked \in Seq([msg : Messages, ok : BOOLEAN])
    /\ spawned \subseteq Messages
    /\ calledBack \subseteq Messages
    /\ cpc \in [Closers -> {"idle", "wait", "flush", "close", "returned", "panic"}]
    /\ up \in BOOLEAN

Init ==
    /\ used = {}
    /\ outq = {}
    /\ events = <<>>
    /\ down = FALSE
    /\ done = FALSE
    /\ hpc = "select"
    /\ ev = NoEvent
    /\ hooked = <<>>
    /\ spawned = {}
    /\ calledBack = {}
    /\ cpc = [k \in Closers |-> "idle"]
    /\ up = TRUE

\* p.Close() of librdkafka was reached: it emits no more events.
LibClosed == \E k \in Closers : cpc[k] = "returned"

----------------------------------------------------------------------------
\* Produce with a topic and a value; the two ErrInvalidConfig returns change
\* nothing.  Callers do not use a producer that was closed.
Produce(m) ==
    /\ up
    /\ m \notin used
    /\ ~LibClosed
    /\ used' = used \cup {m}
    /\ outq' = outq \cup {m}
    /\ UNCHANGED <<events, down, done, handlerVars, calledBack, cpc, up>>

\* librdkafka delivers or gives up on a message and reports it.
Deliver(m, ok) ==
    /\ up
    /\ m \in outq
    /\ ~LibClosed
    /\ outq' = outq \ {m}
    /\ events' = Append(events, Delivery(m, ok))
    /\ UNCHANGED <<used, down, done, handlerVars, calledBack, cpc, up>>

AllBrokersDown ==
    /\ up
    /\ ~down
    /\ ~LibClosed
    /\ down' = TRUE
    /\ events' = Append(events, Down)
    /\ UNCHANGED <<used, outq, done, handlerVars, calledBack, cpc, up>>

----------------------------------------------------------------------------
\* select: done, or an event; Go picks one if both are ready.
HandlerDone ==
    /\ up
    /\ hpc = "select"
    /\ done
    /\ hpc' = "exit"
    /\ UNCHANGED <<libVars, done, ev, hooked, spawned, calledBack, cpc, up>>

HandlerReceive ==
    /\ up
    /\ hpc = "select"
    /\ events # <<>>
    /\ hpc' = "handle"
    /\ ev' = Head(events)
    /\ events' = Tail(events)
    /\ UNCHANGED <<used, outq, down, done, hooked, spawned, calledBack, cpc, up>>

\* The reports that start a callback.  SpawnNever forgets notifyDeliveryFailure.
SpawnNever(e) == {}
SpawnFor(e) == IF Callback THEN {e.msg} ELSE {}

\* A failed delivery: notifyDeliveryFailure starts the callback goroutine, which
\* may run before or after the hook is called.
NotifyDeliveryFailure ==
    /\ up
    /\ hpc = "handle"
    /\ ev.kind = "report"
    /\ ~ev.ok
    /\ spawned' = spawned \cup SpawnFor(ev)
    /\ hpc' = "hook"
    /\ UNCHANGED <<libVars, done, ev, hooked, calledBack, cpc, up>>

\* notifyDelivery, for a delivered message at once: the metrics hook, inline.
NotifyDelivery ==
    /\ up
    /\ hpc = "hook" \/ (hpc = "handle" /\ ev.kind = "report" /\ ev.ok)
    /\ hooked' = Append(hooked, [msg |-> ev.msg, ok |-> ev.ok])
    /\ hpc' = "select"
    /\ ev' = NoEvent
    /\ UNCHANGED <<libVars, done, spawned, calledBack, cpc, up>>

\* ErrAllBrokersDown: close(kp.done).  If Close has closed it, it panics; nothing
\* recovers on this goroutine, so the process ends.
HandleDown ==
    /\ up
    /\ hpc = "handle"
    /\ ev.kind = "down"
    /\ hpc' = IF done THEN "panic" ELSE "exit"
    /\ up' = ~done
    /\ done' = TRUE
    /\ ev' = NoEvent
    /\ UNCHANGED <<libVars, hooked, spawned, calledBack, cpc>>

\* routine.Go: the callback runs some time later, with the message captured when
\* it was started.  MessageOfLoop reads the event the loop has reached by then.
MessageOfLoop(m) == IF ev.kind = "report" THEN ev.msg ELSE m
CallbackMessage(m) == m

RunCallback(m) ==
    /\ up
    /\ m \in spawned
    /\ spawned' = spawned \ {m}
    /\ calledBack' = calledBack \cup {CallbackMessage(m)}
    /\ UNCHANGED <<libVars, done, hpc, ev, hooked, cpc, up>>

----------------------------------------------------------------------------
\* Close, first step: close(kp.done) panics on a channel that is closed, in the
\* caller, who may recover or not.
CloseDone(k) ==
    /\ up
    /\ cpc[k] = "idle"
    /\ cpc' = [cpc EXCEPT ![k] = IF done THEN "panic" ELSE "wait"]
    /\ up' \in (IF done THEN BOOLEAN ELSE {TRUE})
    /\ done' = TRUE
    /\ UNCHANGED <<libVars, handlerVars, calledBack>>

\* kp.wg.Wait().  NotWaited is a Close that does not wait.
NotWaited == TRUE
HandlerEnded == hpc = "exit"

CloseWait(k) ==
    /\ up
    /\ cpc[k] = "wait"
    /\ HandlerEnded
    /\ cpc' = [cpc EXCEPT ![k] = "flush"]
    /\ UNCHANGED <<libVars, done, handlerVars, calledBack, up>>

\* p.Flush(10000) returns when nothing is outstanding and Events is empty, or
\* after ten seconds.  FlushForever has no time limit.
FlushForever == outq = {} /\ events = <<>>
FlushReturns == TRUE

CloseFlush(k) ==
    /\ up
    /\ cpc[k] = "flush"
    /\ FlushReturns
    /\ cpc' = [cpc EXCEPT ![k] = "close"]
    /\ UNCHANGED <<libVars, done, handlerVars, calledBack, up>>

\* p.Close()
CloseLib(k) ==
    /\ up
    /\ cpc[k] = "close"
    /\ cpc' = [cpc EXCEPT ![k] = "returned"]
    /\ UNCHANGED <<libVars, done, handlerVars, calledBack, up>>

----------------------------------------------------------------------------
Handler ==
    HandlerDone \/ HandlerReceive \/ NotifyDeliveryFailure \/ NotifyDelivery \/ HandleDown
Close(k) == CloseDone(k) \/ CloseWait(k) \/ CloseFlush(k) \/ CloseLib(k)
Library == AllBrokersDown \/ \E m \in Messages, ok \in BOOLEAN : Deliver(m, ok)

Next ==
    \/ \E m \in Messages : Produce(m) \/ RunCallback(m)
    \/ Library
    \/ Handler
    \/ \E k \in Closers : Close(k)

Spec == Init /\ [][Next]_vars

\* The goroutines run; a select whose done case stays ready takes it; librdkafka
\* reports every message in the end (message.timeout.ms).
Fairness ==
    /\ WF_vars(Handler) /\ SF_vars(HandlerDone)
    /\ \A m \in Messages : WF_vars(RunCallback(m)) /\ WF_vars(\E ok \in BOOLEAN : Deliver(m, ok))
    /\ \A k \in Closers : WF_vars(CloseWait(k) \/ CloseFlush(k) \/ CloseLib(k))

FairSpec == Spec /\ Fairness

----------------------------------------------------------------------------
(* Properties.                                                              *)

\* Messages the metrics hook saw fail, and the one it is about to see fail.
FailedSeen == {hooked[i].msg : i \in {j \in DOMAIN hooked : ~hooked[j].ok}}
FailedPending == IF hpc = "hook" THEN {ev.msg} ELSE {}

\* Hook and callback agree: every message the hook saw fail has one callback, run
\* or waiting to run, and nothing else has one, whatever the loop has reached
\* when a callback goroutine runs.
CallbackAgrees ==
    Callback =>
        /\ spawned \cap calledBack = {}
        /\ spawned \cup calledBack = FailedSeen \cup FailedPending

\* When Close returns, the metrics hook has been called for the last time; so the
\* registry it feeds may go away.  (Callback goroutines may still be running.)
QuietAfterClose == [][(\E k \in Closers : cpc[k] \in {"flush", "close", "returned"}) => UNCHANGED hooked]_vars

\* While the producer is open, a failed delivery reaches the callback.
FailureCalledBack ==
    Callback => \A m \in Messages :
        (\E j \in DOMAIN events : events[j] = Delivery(m, FALSE)) ~> (m \in calledBack \/ done)

\* A Close that got past close(done) returns, unless the process ends under it.
CloseReturns == \A k \in Closers : cpc[k] = "wait" ~> (cpc[k] = "returned" \/ ~up)

\* Not kept, see README.  "invoked when a produced message fails delivery"
\* (kafka/config.go:194): the reports that arrive after done are never read.
NoFailureLost ==
    Callback /\ LibClosed =>
        ~ \E j \in DOMAIN events : events[j].kind = "report" /\ ~events[j].ok

\* "On ErrAllBrokersDown: auto-close producer", "On Close(): flush pending
\* messages" (docs/architecture/kafka.md): the two together panic.
CloseNeverPanics == \A k \in Closers : cpc[k] # "panic"
=============================================================================
