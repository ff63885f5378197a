--------------------------- MODULE KafkaConsumer ---------------------------
(***************************************************************************)
(* The Kafka consumer, src/kafka/consumer.go and consume.go: Start gives   *)
(* each instance a goroutine that polls, calls the handler up to           *)
(* MaxRetries times and commits by hand; Close closes the instances one    *)
(* after the other; cancelling the context is the other way to stop.       *)
(*                                                                         *)
(* Each instance owns one partition, a log of messages 0, 1, ...; its      *)
(* group never rebalances.  A crash takes the whole program down; a        *)
(* restarted consumer resumes every partition at its committed offset, or, *)
(* while nothing is committed, where auto.offset.reset puts it.  librdkafka*)
(* and the broker are external.                                            *)
(***************************************************************************)
EXTENDS Integers, Sequences, FiniteSets

CONSTANTS
    Instances,      \* consumer instances (InstanceNum of them)
    LogEnd,         \* bound: messages a partition ever holds
    MaxRetries,     \* ConsumerConfig.MaxRetries
    Crashes         \* bound: how often the program crashes

ASSUME ConsumerAssumption ==
    /\ LogEnd \in Nat
    /\ MaxRetries \in Nat       \* Validate accepts 0 and applies no default
    /\ Crashes \in Nat

VARIABLES
    autoCommit, \* ConsumerConfig.EnableAutoCommit, the same for all instances
    reset,      \* ConsumerConfig.AutoOffsetReset: "earliest" or "latest"
    end,        \* [Instances -> messages in the partition]
    committed,  \* [Instances -> committed offset, the next to consume, or NoOffset]
    origin,     \* [Instances -> offset at which the reset policy last started]
    pos,        \* [Instances -> next offset Poll returns]
    ipc,        \* [Instances -> program counter of consumeLoop]
    tries,      \* [Instances -> handler calls for the current message]
    calls,      \* [Instances -> offsets the handler was called with, in order]
    handled,    \* [Instances -> offsets the handler returned nil for]
    outcomes,   \* [Instances -> calls of OnConsume, in order]
    open,       \* [Instances -> the kafka client is open]
    cancelled,  \* the context passed to Start
    cpc,        \* program counter of Close: "idle", "closing", "returned"
    crashes     \* crashes so far

brokerVars == <<autoCommit, reset, end, committed, origin>>
loopVars == <<pos, ipc, tries>>
logVars == <<calls, handled, outcomes>>
ctlVars == <<open, cancelled, cpc, crashes>>
vars == <<brokerVars, loopVars, logVars, ctlVars>>

Offsets == 0..LogEnd
NoOffset == -1      \* nothing was ever committed

TypeOK ==
    /\ autoCommit \in BOOLEAN
    /\ reset \in {"earliest", "latest"}
    /\ end \in [Instances -> Offsets]
    /\ committed \in [Instances -> Offsets \cup {NoOffset}]
    /\ origin \in [Instances -> Offsets]
    /\ pos \in [Instances -> Offsets]
    /\ ipc \in [Instances -> {"check", "poll", "handle", "commit", "failed", "exit", "down"}]
    /\ tries \in [Instances -> Nat]
    /\ calls \in [Instances -> Seq(Offsets)]
    /\ handled \in [Instances -> SUBSET Offsets]
    /\ outcomes \in [Instances -> Seq([offset : Offsets, ok : BOOLEAN])]
    /\ open \in [Instances -> BOOLEAN]
    /\ cancelled \in BOOLEAN
    /\ cpc \in {"idle", "closing", "returned"}
    /\ crashes \in 0..Crashes

Init ==
    /\ autoCommit \in BOOLEAN
    /\ reset \in {"earliest", "latest"}
    /\ end = [i \in Instances |-> 0]
    /\ committed = [i \in Instances |-> NoOffset]
    /\ origin = [i \in Instances |-> 0]
    /\ pos = [i \in Instances |-> 0]
    /\ ipc = [i \in Instances |-> "check"]
    /\ tries = [i \in Instances |-> 0]
    /\ calls = [i \in Instances |-> <<>>]
    /\ handled = [i \in Instances |-> {}]
    /\ outcomes = [i \in Instances |-> <<>>]
    /\ open = [i \in Instances |-> TRUE]
    /\ cancelled = FALSE
    /\ cpc = "idle"
    /\ crashes = 0

Goto(i, pc) == ipc' = [ipc EXCEPT ![i] = pc]

\* The message handlerMessage works on: the last one Poll returned.
Current(i) == pos[i] - 1

----------------------------------------------------------------------------
(* The environment.                                                         *)

Arrive(i) ==
    /\ end[i] < LogEnd
    /\ end' = [end EXCEPT ![i] = @ + 1]
    /\ UNCHANGED <<autoCommit, reset, committed, origin, loopVars, logVars, ctlVars>>

Cancel ==
    /\ ~cancelled
    /\ cancelled' = TRUE
    /\ UNCHANGED <<brokerVars, loopVars, logVars, open, cpc, crashes>>

\* Without a committed offset auto.offset.reset decides.
StartOffset(i) ==
    IF committed[i] # NoOffset THEN committed[i]
    ELSE IF reset = "latest" THEN end[i] ELSE 0

Crash ==
    /\ crashes < Crashes
    /\ crashes' = crashes + 1
    /\ pos' = [i \in Instances |-> StartOffset(i)]
    /\ origin' = [i \in Instances |-> IF committed[i] = NoOffset THEN StartOffset(i) ELSE origin[i]]
    /\ ipc' = [i \in Instances |-> "check"]
    /\ tries' = [i \in Instances |-> 0]
    /\ open' = [i \in Instances |-> TRUE]
    /\ cancelled' = FALSE
    /\ cpc' = "idle"
    /\ UNCHANGED <<autoCommit, reset, end, committed, logVars>>

\* enable.auto.commit: librdkafka commits what Poll has returned.
AutoCommitTick(i) ==
    /\ autoCommit
    /\ open[i]
    /\ pos[i] > origin[i]
    /\ committed' = [committed EXCEPT ![i] = pos[i]]
    /\ UNCHANGED <<autoCommit, reset, end, origin, loopVars, logVars, ctlVars>>

----------------------------------------------------------------------------
(* consumeLoop.                                                             *)

\* select { case <-ctx.Done(): return; default: } before each Poll.
CheckContext(i) ==
    /\ ipc[i] = "check"
    /\ Goto(i, IF cancelled THEN "exit" ELSE "poll")
    /\ UNCHANGED <<brokerVars, pos, tries, logVars, ctlVars>>

\* With MaxRetries = 0 the retry loop has no round and err stays nil.
FirstStep == IF MaxRetries = 0 THEN "commit" ELSE "handle"

\* Poll(-1) returns the next message.
PollMessage(i) ==
    /\ ipc[i] = "poll"
    /\ open[i]
    /\ pos[i] < end[i]
    /\ pos' = [pos EXCEPT ![i] = @ + 1]
    /\ tries' = [tries EXCEPT ![i] = 0]
    /\ Goto(i, FirstStep)
    /\ UNCHANGED <<brokerVars, logVars, ctlVars>>

\* Poll(-1) returns nil, as it does on a closed client.
PollNil(i) ==
    /\ ipc[i] = "poll"
    /\ ~open[i]
    /\ Goto(i, "check")
    /\ UNCHANGED <<brokerVars, pos, tries, logVars, ctlVars>>

\* An ErrAllBrokersDown event ends the loop; other events change nothing.
PollDown(i) ==
    /\ ipc[i] = "poll"
    /\ open[i]
    /\ Goto(i, "down")
    /\ UNCHANGED <<brokerVars, pos, tries, logVars, ctlVars>>

----------------------------------------------------------------------------
(* handlerMessage.                                                          *)

\* Where a failed handler call leads.  GivesUpLate tries once too often,
\* CommitsAnyway ignores the error.
GivesUpLate(n) == IF n > MaxRetries THEN "failed" ELSE "handle"
CommitsAnyway(n) == IF n = MaxRetries THEN "commit" ELSE "handle"
AfterFailure(n) == IF n = MaxRetries THEN "failed" ELSE "handle"

HandlerOk(i) ==
    /\ ipc[i] = "handle"
    /\ calls' = [calls EXCEPT ![i] = Append(@, Current(i))]
    /\ handled' = [handled EXCEPT ![i] = @ \cup {Current(i)}]
    /\ tries' = [tries EXCEPT ![i] = @ + 1]
    /\ Goto(i, "commit")
    /\ UNCHANGED <<brokerVars, pos, outcomes, ctlVars>>

HandlerFails(i) ==
    /\ ipc[i] = "handle"
    /\ calls' = [calls EXCEPT ![i] = Append(@, Current(i))]
    /\ tries' = [tries EXCEPT ![i] = @ + 1]
    /\ Goto(i, AfterFailure(tries[i] + 1))
    /\ UNCHANGED <<brokerVars, pos, handled, outcomes, ctlVars>>

\* The deferred hook call, then back to the loop whatever the outcome.
\* FinishOkOnly does not report failures, FinishOrStop ends the loop on one.
FinishOkOnly(i, ok) ==
    /\ outcomes' = IF ok THEN [outcomes EXCEPT ![i] = Append(@, [offset |-> Current(i), ok |-> ok])]
                   ELSE outcomes
    /\ Goto(i, "check")

FinishOrStop(i, ok) ==
    /\ outcomes' = [outcomes EXCEPT ![i] = Append(@, [offset |-> Current(i), ok |-> ok])]
    /\ Goto(i, IF ok THEN "check" ELSE "exit")

Finish(i, ok) ==
    /\ outcomes' = [outcomes EXCEPT ![i] = Append(@, [offset |-> Current(i), ok |-> ok])]
    /\ Goto(i, "check")

ReturnError(i) ==
    /\ ipc[i] = "failed"
    /\ Finish(i, FALSE)
    /\ UNCHANGED <<brokerVars, pos, tries, calls, handled, ctlVars>>

\* The offset CommitMessage commits for a message.
CommitOffset(m) == m + 1

\* CommitMessage(msg), unless commits are automatic.
CommitOk(i) ==
    /\ ipc[i] = "commit"
    /\ autoCommit \/ open[i]
    /\ committed' = IF autoCommit THEN committed
                    ELSE [committed EXCEPT ![i] = CommitOffset(Current(i))]
    /\ Finish(i, TRUE)
    /\ UNCHANGED <<autoCommit, reset, end, origin, pos, tries, calls, handled, ctlVars>>

CommitFails(i) ==
    /\ ipc[i] = "commit"
    /\ ~autoCommit
    /\ Finish(i, FALSE)
    /\ UNCHANGED <<brokerVars, pos, tries, calls, handled, ctlVars>>

----------------------------------------------------------------------------
(* Close: the instances one after the other; it does not wait for loops.    *)

CloseBegin ==
    /\ cpc = "idle"
    /\ cpc' = "closing"
    /\ UNCHANGED <<brokerVars, loopVars, logVars, open, cancelled, crashes>>

CloseInstance(i) ==
    /\ cpc = "closing"
    /\ open[i]
    /\ open' = [open EXCEPT ![i] = FALSE]
    /\ UNCHANGED <<brokerVars, loopVars, logVars, cancelled, cpc, crashes>>

CloseReturn ==
    /\ cpc = "closing"
    /\ \A i \in Instances : ~open[i]
    /\ cpc' = "returned"
    /\ UNCHANGED <<brokerVars, loopVars, logVars, open, cancelled, crashes>>

----------------------------------------------------------------------------
Loop(i) ==
    \/ CheckContext(i) \/ PollMessage(i) \/ PollNil(i)
    \/ HandlerOk(i) \/ HandlerFails(i) \/ ReturnError(i)
    \/ CommitOk(i) \/ CommitFails(i)

Next ==
    \/ \E i \in Instances : Arrive(i) \/ AutoCommitTick(i) \/ Loop(i) \/ PollDown(i) \/ CloseInstance(i)
    \/ Cancel \/ Crash \/ CloseBegin \/ CloseReturn

Spec == Init /\ [][Next]_vars

\* Every instance's goroutine runs (handlers and commits return) and Close
\* makes progress; messages need not arrive, brokers need not fail,
\* nothing need be cancelled.
Fairness ==
    /\ \A i \in Instances : WF_vars(Loop(i))
    /\ WF_vars(CloseReturn \/ \E i \in Instances : CloseInstance(i))

FairSpec == Spec /\ Fairness

----------------------------------------------------------------------------
(* Properties.                                                              *)

\* A message that is committed by name was processed: the handler returned nil
\* for the message just below the committed offset (consume.go:183-204).
CommittedWasHandled ==
    ~autoCommit => \A i \in Instances : committed[i] > 0 => committed[i] - 1 \in handled[i]

\* What the commit passes over without processing was reported as a failure, in
\* spite of crashes: of the messages from the group's starting offset on none is
\* skipped silently.  A "latest" reset may move that offset past messages when
\* the program crashes before its first commit; see RestartSkipsNothing.
SkipsAreReported ==
    ~autoCommit => \A i \in Instances : \A m \in 0..LogEnd :
        origin[i] <= m /\ m < committed[i] /\ m \notin handled[i] =>
            \E j \in DOMAIN outcomes[i] : outcomes[i][j] = [offset |-> m, ok |-> FALSE]

\* The handler sees a partition in order: a call repeats its predecessor's
\* message or goes on to the next one, except after a restart; and a message is
\* tried MaxRetries times for each time it is delivered.
CallsInOrder ==
    \A i \in Instances :
        /\ Cardinality({j \in 1..(Len(calls[i]) - 1) :
                 calls[i][j + 1] \notin {calls[i][j], calls[i][j] + 1}}) <= crashes
        /\ \A m \in 0..LogEnd :
              Cardinality({j \in DOMAIN calls[i] : calls[i][j] = m}) <= MaxRetries * (crashes + 1)

\* While the consumer is up, every message gets an OnConsume outcome: a message
\* that fails does not stop the partition, and a crash loses none, unless commits
\* are automatic and run ahead of the handler or a "latest" reset passes over it
\* because nothing was committed before the crash.
EveryMessageFinishes ==
    \A i \in Instances : \A m \in 0..(LogEnd - 1) :
        m < end[i] ~> \/ \E j \in DOMAIN outcomes[i] : outcomes[i][j].offset = m
                      \/ cancelled \/ cpc # "idle" \/ ipc[i] = "down"
                      \/ autoCommit /\ crashes > 0
                      \/ reset = "latest" /\ m < origin[i]

\* Not kept, see README.  "messages are only committed after successful
\* processing" (kafka/README.md:501): a later success commits past a failure.
CommittedAllHandled ==
    \A i \in Instances : \A m \in 0..LogEnd : m < committed[i] => m \in handled[i]

\* Not kept under the default AutoOffsetReset "latest" (config.go:26-30, 72): what
\* was waiting or under way at a crash before the first commit is passed over.
RestartSkipsNothing ==
    ~autoCommit => \A i \in Instances : \A m \in 0..LogEnd : m < origin[i] =>
        \E j \in DOMAIN outcomes[i] : outcomes[i][j].offset = m

\* "Context cancellation propagates to all instances for graceful shutdown"
\* (docs/architecture/kafka.md): not while Poll(-1) waits for a message.
CancelStops == \A i \in Instances : cancelled ~> ipc[i] \in {"exit", "down"} \/ ~cancelled
=============================================================================
