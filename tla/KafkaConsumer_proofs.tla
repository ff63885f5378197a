------------------------ MODULE KafkaConsumer_proofs ------------------------
(***************************************************************************)
(* Proofs about KafkaConsumer, for any number of instances, messages,      *)
(* retries and crashes: the types; with at least one attempt configured,   *)
(* what an explicit commit stands for; and the order and the number of the *)
(* handler calls.                                                          *)
(***************************************************************************)
EXTENDS KafkaConsumer, SequenceTheorems, FiniteSetTheorems, TLAPS

----------------------------------------------------------------------------
(* Types.                                                                   *)

\* handlerMessage has a message: Poll has returned one.
HasMessage == \A i \in Instances : ipc[i] \in {"handle", "commit", "failed"} => pos[i] > 0

TypeInv == TypeOK /\ HasMessage

LEMMA InitTypeInv == Init => TypeInv
<1> USE ConsumerAssumption DEF ConsumerAssumption
<1> SUFFICES ASSUME Init PROVE TypeInv
  OBVIOUS
<1>1. /\ calls \in [Instances -> Seq(Offsets)]
      /\ outcomes \in [Instances -> Seq([offset : Offsets, ok : BOOLEAN])]
  <2>1. <<>> \in Seq(Offsets) /\ <<>> \in Seq([offset : Offsets, ok : BOOLEAN])
    OBVIOUS
  <2> QED BY <2>1 DEF Init
<1>2. 0 \in Offsets /\ NoOffset \in Offsets \cup {NoOffset} /\ crashes \in 0..Crashes
  BY DEF Offsets, Init
<1> QED BY <1>1, <1>2 DEF Init, TypeInv, TypeOK, HasMessage

LEMMA NextTypeInv == TypeInv /\ [Next]_vars => TypeInv'
<1> USE ConsumerAssumption DEF ConsumerAssumption
<1> SUFFICES ASSUME TypeInv, [Next]_vars PROVE TypeInv'
  OBVIOUS
<1>1. ASSUME NEW i \in Instances, Arrive(i) PROVE TypeInv'
  <2>1. end[i] + 1 \in Offsets
    BY <1>1 DEF Arrive, TypeInv, TypeOK, Offsets
  <2> QED BY <1>1, <2>1 DEF Arrive, TypeInv, TypeOK, HasMessage, loopVars, logVars, ctlVars
<1>2. CASE Cancel
  BY <1>2 DEF Cancel, TypeInv, TypeOK, HasMessage, brokerVars, loopVars, logVars
<1>3. CASE Crash
  <2>1. crashes' \in 0..Crashes
    BY <1>3 DEF Crash, TypeInv, TypeOK
  <2>2. \A i \in Instances : StartOffset(i) \in Offsets
    BY DEF StartOffset, TypeInv, TypeOK, Offsets
  <2>3. pos' \in [Instances -> Offsets] /\ origin' \in [Instances -> Offsets]
    BY <1>3, <2>2 DEF Crash, TypeInv, TypeOK
  <2> QED BY <1>3, <2>1, <2>3 DEF Crash, TypeInv, TypeOK, HasMessage, logVars
<1>4. ASSUME NEW i \in Instances, AutoCommitTick(i) PROVE TypeInv'
  BY <1>4 DEF AutoCommitTick, TypeInv, TypeOK, HasMessage, loopVars, logVars, ctlVars
<1>5. ASSUME NEW i \in Instances, CheckContext(i) \/ PollNil(i) \/ PollDown(i) PROVE TypeInv'
  BY <1>5 DEF CheckContext, PollNil, PollDown, Goto, TypeInv, TypeOK, HasMessage, brokerVars, logVars, ctlVars
<1>6. ASSUME NEW i \in Instances, PollMessage(i) PROVE TypeInv'
  <2>1. pos[i] + 1 \in Offsets /\ pos[i] + 1 > 0
    BY <1>6 DEF PollMessage, TypeInv, TypeOK, Offsets
  <2>2. /\ pos' = [pos EXCEPT ![i] = pos[i] + 1]
        /\ ipc' = [ipc EXCEPT ![i] = FirstStep]
        /\ FirstStep \in {"commit", "handle"}
    BY <1>6 DEF PollMessage, Goto, FirstStep
  <2> QED BY <1>6, <2>1, <2>2 DEF PollMessage, TypeInv, TypeOK, HasMessage, brokerVars, logVars, ctlVars
<1>7. ASSUME NEW i \in Instances, HandlerOk(i) \/ HandlerFails(i) PROVE TypeInv'
  <2>1. Current(i) \in Offsets
    BY <1>7 DEF HandlerOk, HandlerFails, Current, TypeInv, TypeOK, HasMessage, Offsets
  <2>2. calls' \in [Instances -> Seq(Offsets)]
    <3>1. Append(calls[i], Current(i)) \in Seq(Offsets)
      BY <2>1 DEF TypeInv, TypeOK
    <3> QED BY <1>7, <3>1 DEF HandlerOk, HandlerFails, TypeInv, TypeOK
  <2>3. handled' \in [Instances -> SUBSET Offsets] /\ tries' \in [Instances -> Nat]
    <3>1. tries[i] + 1 \in Nat /\ handled[i] \cup {Current(i)} \in SUBSET Offsets
      BY <2>1 DEF TypeInv, TypeOK
    <3>2. tries' = [tries EXCEPT ![i] = tries[i] + 1]
      BY <1>7 DEF HandlerOk, HandlerFails
    <3>3. handled' = handled \/ handled' = [handled EXCEPT ![i] = handled[i] \cup {Current(i)}]
      BY <1>7 DEF HandlerOk, HandlerFails
    <3> QED BY <3>1, <3>2, <3>3 DEF TypeInv, TypeOK
  <2>4. /\ ipc' \in [Instances -> {"check", "poll", "handle", "commit", "failed", "exit", "down"}]
        /\ ipc[i] = "handle"
        /\ \A j \in Instances : j # i => ipc'[j] = ipc[j]
    BY <1>7 DEF HandlerOk, HandlerFails, AfterFailure, Goto, TypeInv, TypeOK
  <2>5. HasMessage'
    BY <1>7, <2>4 DEF HandlerOk, HandlerFails, TypeInv, TypeOK, HasMessage
  <2> QED
    BY <1>7, <2>2, <2>3, <2>4, <2>5 DEF HandlerOk, HandlerFails, TypeInv, TypeOK, brokerVars, ctlVars
<1>8. ASSUME NEW i \in Instances, ReturnError(i) \/ CommitOk(i) \/ CommitFails(i) PROVE TypeInv'
  <2>1. Current(i) \in Offsets /\ CommitOffset(Current(i)) \in Offsets
    <3>1. ipc[i] \in {"commit", "failed"}
      BY <1>8 DEF ReturnError, CommitOk, CommitFails
    <3>2. pos[i] \in 0..LogEnd /\ pos[i] > 0
      BY <3>1 DEF TypeInv, TypeOK, HasMessage, Offsets
    <3> QED BY <3>2 DEF Current, CommitOffset, Offsets
  <2>2. PICK ok \in BOOLEAN : Finish(i, ok)
    BY <1>8 DEF ReturnError, CommitOk, CommitFails
  <2>3. outcomes' \in [Instances -> Seq([offset : Offsets, ok : BOOLEAN])]
    <3> DEFINE e == [offset |-> Current(i), ok |-> ok]
    <3>1. e \in [offset : Offsets, ok : BOOLEAN]
      BY <2>1
    <3>2. outcomes' = [outcomes EXCEPT ![i] = Append(outcomes[i], e)]
      BY <2>2 DEF Finish
    <3> HIDE DEF e
    <3>3. outcomes[i] \in Seq([offset : Offsets, ok : BOOLEAN])
      BY DEF TypeInv, TypeOK
    <3>4. Append(outcomes[i], e) \in Seq([offset : Offsets, ok : BOOLEAN])
      BY <3>1, <3>3
    <3> QED BY <3>2, <3>4 DEF TypeInv, TypeOK
  <2>4. committed' \in [Instances -> Offsets \cup {NoOffset}]
    BY <1>8, <2>1 DEF ReturnError, CommitOk, CommitFails, TypeInv, TypeOK, brokerVars
  <2>5. ipc' = [ipc EXCEPT ![i] = "check"]
    BY <2>2 DEF Finish, Goto
  <2>6. UNCHANGED <<autoCommit, reset, end, origin, pos, tries, calls, handled, ctlVars>>
    BY <1>8 DEF ReturnError, CommitOk, CommitFails, brokerVars
  <2> QED BY <2>3, <2>4, <2>5, <2>6 DEF TypeInv, TypeOK, HasMessage, ctlVars
<1>9. CASE CloseBegin \/ CloseReturn
  BY <1>9 DEF CloseBegin, CloseReturn, TypeInv, TypeOK, HasMessage, brokerVars, loopVars, logVars
<1>10. ASSUME NEW i \in Instances, CloseInstance(i) PROVE TypeInv'
  BY <1>10 DEF CloseInstance, TypeInv, TypeOK, HasMessage, brokerVars, loopVars, logVars
<1>11. CASE UNCHANGED vars
  BY <1>11 DEF vars, TypeInv, TypeOK, HasMessage, brokerVars, loopVars, logVars, ctlVars
<1> QED BY <1>1, <1>2, <1>3, <1>4, <1>5, <1>6, <1>7, <1>8, <1>9, <1>10, <1>11 DEF Next, Loop

\* For any instances, messages, retries and crashes the variables keep their
\* types; offsets stay within the log (consume.go).
THEOREM TypeCorrect == Spec => []TypeOK
<1>1. TypeInv => TypeOK
  BY DEF TypeInv
<1> QED BY <1>1, InitTypeInv, NextTypeInv, PTL DEF Spec

----------------------------------------------------------------------------
(* Commits.                                                                 *)

\* The message was processed, or the hook was told that it was not.
Settled(i, m) ==
    \/ m \in handled[i]
    \/ \E j \in DOMAIN outcomes[i] : outcomes[i][j] = [offset |-> m, ok |-> FALSE]

\* The messages from the group's starting offset on.
From(i) == {m \in Offsets : origin[i] <= m}

\* CommittedWasHandled and SkipsAreReported made inductive.  What Poll has
\* returned before the current message is settled, and a message reaches the
\* commit only through a handler call that returned nil.
CommitInv ==
    ~autoCommit => \A i \in Instances :
        /\ ipc[i] = "commit" => Current(i) \in handled[i]
        /\ committed[i] > 0 => committed[i] - 1 \in handled[i]
        /\ \A m \in From(i) : m < committed[i] => Settled(i, m)
        /\ \A m \in From(i) : m < pos[i] - 1 => Settled(i, m)
        /\ ipc[i] \in {"check", "poll"} => \A m \in From(i) : m < pos[i] => Settled(i, m)

LEMMA InitCommitInv == Init => CommitInv
  BY DEF Init, CommitInv, Offsets, From, NoOffset

\* No step forgets what was processed or reported.
LEMMA SettledStays ==
    ASSUME TypeOK, [Next]_vars, NEW i \in Instances, NEW m, Settled(i, m)
    PROVE  Settled(i, m)'
<1>1. /\ outcomes[i] \in Seq([offset : Offsets, ok : BOOLEAN])
      /\ Len(outcomes[i]) \in Nat /\ DOMAIN outcomes[i] = 1..Len(outcomes[i])
  <2>1. outcomes[i] \in Seq([offset : Offsets, ok : BOOLEAN])
    BY DEF TypeOK
  <2> QED BY <2>1, LenProperties
<1>2. ASSUME NEW o \in Instances, NEW ok \in BOOLEAN, Finish(o, ok), handled' = handled
      PROVE  Settled(i, m)'
  <2>1. CASE o = i
    <3> DEFINE e == [offset |-> Current(i), ok |-> ok]
    <3>1. outcomes'[i] = Append(outcomes[i], e)
      BY <1>2, <2>1 DEF Finish, TypeOK
    <3>2. \A j \in DOMAIN outcomes[i] : j \in DOMAIN outcomes'[i] /\ outcomes'[i][j] = outcomes[i][j]
      <4> HIDE DEF e
      <4> QED BY <1>1, <3>1
    <3> QED BY <1>2, <3>2 DEF Settled
  <2>2. CASE o # i
    <3>1. outcomes'[i] = outcomes[i]
      BY <1>2, <2>2 DEF Finish, TypeOK
    <3> QED BY <1>2, <3>1 DEF Settled
  <2> QED BY <2>1, <2>2
<1>3. ASSUME NEW o \in Instances, HandlerOk(o) PROVE Settled(i, m)'
  BY <1>3 DEF HandlerOk, Settled, TypeOK
<1>4. CASE UNCHANGED <<handled, outcomes>>
  BY <1>4 DEF Settled
<1> QED
  BY <1>2, <1>3, <1>4 DEF Next, Loop, Arrive, Cancel, Crash, AutoCommitTick, CheckContext, PollNil, PollDown,
     PollMessage, HandlerFails, ReturnError, CommitOk, CommitFails, CloseBegin, CloseInstance, CloseReturn,
     vars, logVars

LEMMA HandledStays ==
    ASSUME TypeOK, [Next]_vars, NEW i \in Instances
    PROVE  handled[i] \subseteq handled'[i]
<1>1. ASSUME NEW o \in Instances, HandlerOk(o) PROVE handled[i] \subseteq handled'[i]
  BY <1>1 DEF HandlerOk, TypeOK
<1>2. CASE handled' = handled
  BY <1>2
<1>3. handled' = handled \/ \E o \in Instances : HandlerOk(o)
  BY DEF Next, Loop, Arrive, Cancel, Crash, AutoCommitTick, CheckContext, PollNil, PollDown,
     PollMessage, HandlerFails, ReturnError, CommitOk, CommitFails, CloseBegin, CloseInstance,
     CloseReturn, vars, logVars
<1> QED BY <1>1, <1>2, <1>3

LEMMA ModeStays == [Next]_vars => autoCommit' = autoCommit
<1> SUFFICES ASSUME [Next]_vars PROVE autoCommit' = autoCommit
  OBVIOUS
<1>1. ASSUME NEW i \in Instances, Loop(i) PROVE autoCommit' = autoCommit
  BY <1>1 DEF Loop, CheckContext, PollNil, PollMessage, HandlerOk, HandlerFails, ReturnError, CommitOk,
     CommitFails, brokerVars
<1>2. ASSUME NEW i \in Instances, Arrive(i) \/ AutoCommitTick(i) \/ PollDown(i) \/ CloseInstance(i)
      PROVE  autoCommit' = autoCommit
  BY <1>2 DEF Arrive, AutoCommitTick, PollDown, CloseInstance, brokerVars
<1>3. ASSUME Cancel \/ Crash \/ CloseBegin \/ CloseReturn PROVE autoCommit' = autoCommit
  BY <1>3 DEF Cancel, Crash, CloseBegin, CloseReturn, brokerVars
<1>4. CASE UNCHANGED vars
  BY <1>4 DEF vars, brokerVars
<1> QED BY <1>1, <1>2, <1>3, <1>4 DEF Next

LEMMA NextCommitInv ==
    ASSUME MaxRetries > 0 PROVE TypeInv /\ CommitInv /\ [Next]_vars => CommitInv'
<1> USE ConsumerAssumption DEF ConsumerAssumption
<1> SUFFICES ASSUME TypeInv, CommitInv, [Next]_vars, ~autoCommit, NEW i \in Instances
             PROVE  /\ ipc'[i] = "commit" => Current(i)' \in handled'[i]
                    /\ committed'[i] > 0 => committed'[i] - 1 \in handled'[i]
                    /\ \A m \in From(i)' : m < committed'[i] => Settled(i, m)'
                    /\ \A m \in From(i)' : m < pos'[i] - 1 => Settled(i, m)'
                    /\ ipc'[i] \in {"check", "poll"} => \A m \in From(i)' : m < pos'[i] => Settled(i, m)'
  BY ModeStays DEF CommitInv
<1> DEFINE Goal == /\ ipc'[i] = "commit" => Current(i)' \in handled'[i]
                   /\ committed'[i] > 0 => committed'[i] - 1 \in handled'[i]
                   /\ \A m \in From(i)' : m < committed'[i] => Settled(i, m)'
                   /\ \A m \in From(i)' : m < pos'[i] - 1 => Settled(i, m)'
                   /\ ipc'[i] \in {"check", "poll"} => \A m \in From(i)' : m < pos'[i] => Settled(i, m)'
<1>1. /\ ipc[i] = "commit" => Current(i) \in handled[i]
      /\ committed[i] > 0 => committed[i] - 1 \in handled[i]
      /\ \A m \in From(i) : m < committed[i] => Settled(i, m)
      /\ \A m \in From(i) : m < pos[i] - 1 => Settled(i, m)
      /\ ipc[i] \in {"check", "poll"} => \A m \in From(i) : m < pos[i] => Settled(i, m)
  BY DEF CommitInv
<1>2. /\ \A m \in From(i) : Settled(i, m) => Settled(i, m)'
      /\ handled[i] \subseteq handled'[i]
  BY SettledStays, HandledStays DEF TypeInv, From
<1>3. pos[i] \in Nat /\ committed[i] \in Int
  BY DEF TypeInv, TypeOK, Offsets, NoOffset
<1>a. \A m \in From(i) : m \in Int
  BY DEF From, Offsets
<1>b. (origin' = origin) => From(i)' = From(i)
  BY DEF From
<1>4. CASE /\ UNCHANGED <<committed, pos, origin>>
           /\ ipc'[i] = "commit" => ipc[i] = "commit"
           /\ ipc'[i] \in {"check", "poll"} => ipc[i] \in {"check", "poll"}
  BY <1>1, <1>2, <1>4, <1>b DEF Current
<1>5. CASE Crash
  <2>1. ipc'[i] = "check" /\ committed' = committed /\ pos'[i] = StartOffset(i)
        /\ origin'[i] = IF committed[i] = NoOffset THEN StartOffset(i) ELSE origin[i]
    BY <1>5 DEF Crash
  <2>2. CASE committed[i] = NoOffset
    <3>1. pos'[i] = origin'[i] /\ committed'[i] = -1 /\ pos'[i] \in Nat
      BY <2>1, <2>2 DEF NoOffset, StartOffset, TypeInv, TypeOK, Offsets
    <3>2. \A m \in From(i)' : m \in Nat /\ pos'[i] <= m
      BY <3>1 DEF From, Offsets
    <3> QED BY <2>1, <3>1, <3>2
  <2>3. CASE committed[i] # NoOffset
    <3>1. pos'[i] = committed[i] /\ From(i)' = From(i)
      BY <2>1, <2>3 DEF StartOffset, From
    <3> QED BY <1>1, <1>2, <1>3, <1>a, <2>1, <3>1
  <2> QED BY <2>2, <2>3
<1>6. ASSUME PollMessage(i) PROVE Goal
  <2>1. ipc'[i] = "handle" /\ pos'[i] = pos[i] + 1 /\ committed' = committed /\ ipc[i] = "poll"
        /\ From(i)' = From(i)
    BY <1>6, <1>b DEF PollMessage, FirstStep, Goto, TypeInv, TypeOK, brokerVars
  <2> QED BY <1>1, <1>2, <1>3, <1>a, <2>1
<1>7. ASSUME HandlerOk(i) PROVE Goal
  <2>1. ipc'[i] = "commit" /\ Current(i) \in handled'[i] /\ UNCHANGED <<pos, committed>> /\ From(i)' = From(i)
    BY <1>7, <1>b DEF HandlerOk, Goto, TypeInv, TypeOK, brokerVars
  <2> QED BY <1>1, <1>2, <2>1 DEF Current
<1>8. ASSUME HandlerFails(i) PROVE Goal
  <2>1. ipc'[i] \in {"handle", "failed"} /\ UNCHANGED <<pos, committed>> /\ From(i)' = From(i)
    BY <1>8, <1>b DEF HandlerFails, AfterFailure, Goto, TypeInv, TypeOK, brokerVars
  <2> QED BY <1>1, <1>2, <2>1
<1>9. ASSUME ReturnError(i) PROVE Goal
  <2>1. ipc'[i] = "check" /\ UNCHANGED <<pos, committed>> /\ From(i)' = From(i)
    BY <1>9, <1>b DEF ReturnError, Finish, Goto, TypeInv, TypeOK, brokerVars
  <2>2. Settled(i, Current(i))'
    <3> DEFINE e == [offset |-> Current(i), ok |-> FALSE]
    <3>1. /\ outcomes[i] \in Seq([offset : Offsets, ok : BOOLEAN])
          /\ outcomes'[i] = Append(outcomes[i], e)
      BY <1>9 DEF ReturnError, Finish, TypeInv, TypeOK
    <3>2. Len(outcomes[i]) + 1 \in DOMAIN outcomes'[i] /\ outcomes'[i][Len(outcomes[i]) + 1] = e
      <4> HIDE DEF e
      <4> QED BY <3>1
    <3> QED BY <3>2, <2>1 DEF Settled, Current
  <2>3. \A m \in From(i) : m < pos[i] => m < pos[i] - 1 \/ m = Current(i)
    BY <1>3, <1>a DEF Current
  <2>4. \A m \in From(i) : m < pos[i] => Settled(i, m)'
    <3>1. Current(i)' = Current(i)
      BY <2>1 DEF Current
    <3> QED BY <1>1, <1>2, <2>2, <2>3, <3>1
  <2> QED BY <1>1, <1>2, <2>1, <2>4
<1>10. ASSUME CommitOk(i) \/ CommitFails(i) PROVE Goal
  <2>1. /\ ipc[i] = "commit" /\ ipc'[i] = "check" /\ pos' = pos /\ From(i)' = From(i)
        /\ committed'[i] = committed[i] \/ committed'[i] = CommitOffset(Current(i))
    BY <1>10, <1>b DEF CommitOk, CommitFails, Finish, Goto, TypeInv, TypeOK, brokerVars
  <2>2. CommitOffset(Current(i)) = pos[i] /\ pos[i] - 1 \in handled'[i]
    BY <1>1, <1>2, <1>3, <2>1 DEF CommitOffset, Current
  <2>3. \A m \in From(i) : m < pos[i] => m < pos[i] - 1 \/ m = pos[i] - 1
    BY <1>3, <1>a
  <2>4. \A m \in From(i) : m < pos[i] => Settled(i, m)'
    BY <1>1, <1>2, <2>2, <2>3 DEF Settled
  <2> QED BY <1>1, <1>2, <1>3, <1>a, <2>1, <2>2, <2>4
<1>11. \/ /\ UNCHANGED <<committed, pos, origin>>
          /\ ipc'[i] = "commit" => ipc[i] = "commit"
          /\ ipc'[i] \in {"check", "poll"} => ipc[i] \in {"check", "poll"}
       \/ Crash
       \/ PollMessage(i) \/ HandlerOk(i) \/ HandlerFails(i) \/ ReturnError(i) \/ CommitOk(i) \/ CommitFails(i)
       \/ \E o \in Instances \ {i} : Loop(o)
  BY DEF Next, Loop, Arrive, Cancel, AutoCommitTick, CheckContext, PollNil, PollDown, CloseBegin,
     CloseInstance, CloseReturn, Goto, TypeInv, TypeOK, vars, brokerVars, loopVars
<1>12. ASSUME NEW o \in Instances \ {i}, Loop(o) PROVE Goal
  <2>1. ipc'[i] = ipc[i] /\ pos'[i] = pos[i] /\ committed'[i] = committed[i]
        /\ From(i)' = From(i)
    BY <1>12, <1>b DEF Loop, CheckContext, PollMessage, PollNil, HandlerOk, HandlerFails, ReturnError, CommitOk,
       CommitFails, Finish, Goto, TypeInv, TypeOK, brokerVars
  <2> QED BY <1>1, <1>2, <2>1 DEF Current
<1> QED BY <1>4, <1>5, <1>6, <1>7, <1>8, <1>9, <1>10, <1>11, <1>12

\* With at least one attempt configured, the message just below an explicitly
\* committed offset was processed, for every number of instances, retries and
\* crashes (consume.go:188-204).
THEOREM CommittedWasHandledHolds ==
    ASSUME MaxRetries > 0 PROVE Spec => []CommittedWasHandled
<1>1. CommitInv => CommittedWasHandled
  BY DEF CommitInv, CommittedWasHandled
<1> QED BY <1>1, InitTypeInv, NextTypeInv, InitCommitInv, NextCommitInv, PTL DEF Spec

\* With at least one attempt configured, what a commit passes over unprocessed was
\* reported to the hook as a failure, of all messages from the group's starting
\* offset on.  A crash leaves that offset alone once something is committed; before
\* that the reset policy sets it anew, and "latest" may set it past messages.
THEOREM SkipsAreReportedHolds ==
    ASSUME MaxRetries > 0 PROVE Spec => []SkipsAreReported
<1>1. CommitInv => SkipsAreReported
  BY DEF CommitInv, SkipsAreReported, Settled, Offsets, From
<1> QED BY <1>1, InitTypeInv, NextTypeInv, InitCommitInv, NextCommitInv, PTL DEF Spec

----------------------------------------------------------------------------
(* The handler calls.                                                       *)

\* The calls that neither repeat their predecessor's message nor go on to the next
\* one, whether a call of m would be one, and the calls of m.
Jumps(s) == {j \in 1..(Len(s) - 1) : s[j + 1] \notin {s[j], s[j] + 1}}
IsJump(s, m) == s # <<>> /\ m \notin {s[Len(s)], s[Len(s)] + 1}
CallsOf(s, m) == {j \in DOMAIN s : s[j] = m}

LEMMA JumpsAppend ==
    ASSUME NEW s \in Seq(Offsets), NEW x \in Offsets
    PROVE  /\ Cardinality(Jumps(s)) \in Nat
           /\ Cardinality(Jumps(Append(s, x))) =
                 Cardinality(Jumps(s)) + (IF IsJump(s, x) THEN 1 ELSE 0)
<1> DEFINE a == Append(s, x)
<1>1. /\ Len(s) \in Nat /\ Len(a) = Len(s) + 1
      /\ a[Len(s) + 1] = x /\ \A j \in 1..Len(s) : a[j] = s[j]
  BY AppendProperties, LenProperties
<1>2. s # <<>> <=> Len(s) > 0
  BY EmptySeq, LenProperties
<1>3. IsFiniteSet(Jumps(s)) /\ Len(s) \notin Jumps(s)
  <2>1. IsFiniteSet(1..(Len(s) - 1)) /\ Jumps(s) \subseteq 1..(Len(s) - 1)
    BY <1>1, FS_Interval DEF Jumps
  <2>2. Len(s) \notin 1..(Len(s) - 1)
    BY <1>1
  <2> QED BY <2>1, <2>2, FS_Subset
<1> HIDE DEF a
<1>4. \A j \in 1..Len(s) : j \in Jumps(a) <=> a[j + 1] \notin {s[j], s[j] + 1}
  BY <1>1 DEF Jumps
<1>5. ASSUME NEW j \in 1..(Len(s) - 1) PROVE j \in Jumps(a) <=> j \in Jumps(s)
  <2>1. j \in 1..Len(s) /\ j + 1 \in 1..Len(s)
    BY <1>1
  <2>2. a[j + 1] = s[j + 1]
    BY <1>1, <2>1
  <2> QED BY <1>4, <2>1, <2>2 DEF Jumps
<1>6. Len(s) > 0 => (Len(s) \in Jumps(a) <=> IsJump(s, x))
  <2> SUFFICES ASSUME Len(s) > 0 PROVE Len(s) \in Jumps(a) <=> IsJump(s, x)
    OBVIOUS
  <2>1. Len(s) \in 1..Len(s)
    BY <1>1
  <2> QED BY <1>1, <1>2, <1>4, <2>1 DEF IsJump
<1>7. Jumps(a) \subseteq 1..Len(s)
  BY <1>1 DEF Jumps
<1>8. Jumps(s) \subseteq 1..(Len(s) - 1)
  BY DEF Jumps
<1>9. \A j \in 1..Len(s) : j \in 1..(Len(s) - 1) \/ (j = Len(s) /\ Len(s) > 0)
  BY <1>1
<1>10. IsJump(s, x) => Len(s) > 0
  BY <1>2 DEF IsJump
<1>11. Jumps(a) = IF IsJump(s, x) THEN Jumps(s) \cup {Len(s)} ELSE Jumps(s)
  <2>1. \A j \in Jumps(a) : j \in Jumps(s) \/ (j = Len(s) /\ IsJump(s, x))
    BY <1>5, <1>6, <1>7, <1>9
  <2>2. \A j \in Jumps(s) : j \in Jumps(a)
    BY <1>5, <1>8
  <2>3. IsJump(s, x) => Len(s) \in Jumps(a)
    BY <1>6, <1>10
  <2>4. Jumps(a) \subseteq (IF IsJump(s, x) THEN Jumps(s) \cup {Len(s)} ELSE Jumps(s))
    BY <2>1
  <2>5. (IF IsJump(s, x) THEN Jumps(s) \cup {Len(s)} ELSE Jumps(s)) \subseteq Jumps(a)
    BY <2>2, <2>3
  <2> QED BY <2>4, <2>5
<1>12. Cardinality(Jumps(s)) \in Nat
  BY <1>3, FS_CardinalityType
<1>13. Cardinality(Jumps(s) \cup {Len(s)}) = Cardinality(Jumps(s)) + 1
  BY <1>3, FS_AddElement
<1>14. Cardinality(Jumps(a)) = Cardinality(Jumps(s)) + (IF IsJump(s, x) THEN 1 ELSE 0)
  BY <1>11, <1>12, <1>13
<1> QED BY <1>12, <1>14 DEF a

LEMMA CallsOfAppend ==
    ASSUME NEW s \in Seq(Offsets), NEW x \in Offsets, NEW m
    PROVE  /\ Cardinality(CallsOf(s, m)) \in Nat
           /\ Cardinality(CallsOf(Append(s, x), m)) =
                 Cardinality(CallsOf(s, m)) + (IF x = m THEN 1 ELSE 0)
<1> DEFINE a == Append(s, x)
           n == Len(s)
<1>1. /\ n \in Nat /\ DOMAIN a = 1..(n + 1) /\ DOMAIN s = 1..n
      /\ a[n + 1] = x /\ \A j \in 1..n : a[j] = s[j]
  BY AppendProperties, LenProperties
<1>2. IsFiniteSet(CallsOf(s, m)) /\ n + 1 \notin CallsOf(s, m)
  <2>1. IsFiniteSet(1..n) /\ CallsOf(s, m) \subseteq 1..n
    BY <1>1, FS_Interval DEF CallsOf
  <2>2. n + 1 \notin 1..n
    BY <1>1
  <2> QED BY <2>1, <2>2, FS_Subset
<1> HIDE DEF a, n
<1>3. CallsOf(a, m) = IF x = m THEN CallsOf(s, m) \cup {n + 1} ELSE CallsOf(s, m)
  <2>1. DOMAIN a = DOMAIN s \cup {n + 1} /\ n + 1 \notin DOMAIN s
    BY <1>1
  <2> QED BY <1>1, <2>1 DEF CallsOf
<1>4. Cardinality(CallsOf(s, m)) \in Nat
  BY <1>2, FS_CardinalityType
<1>5. Cardinality(CallsOf(s, m) \cup {n + 1}) = Cardinality(CallsOf(s, m)) + 1
  BY <1>2, FS_AddElement
<1>6. Cardinality(CallsOf(a, m)) = Cardinality(CallsOf(s, m)) + (IF x = m THEN 1 ELSE 0)
  BY <1>3, <1>4, <1>5
<1> QED BY <1>4, <1>6 DEF a

\* The message of the next handler call, unless the program crashes first, and the
\* calls that this delivery of a message has used up.
NextCall(i) == IF ipc[i] = "handle" THEN Current(i) ELSE pos[i]

UsedUp(i, m) ==
    IF m >= pos[i] THEN 0
    ELSE IF ipc[i] = "handle" /\ m = Current(i) THEN tries[i] ELSE MaxRetries

\* CallsInOrder made inductive: the next call counts as made, and each message
\* has, on top of what crashes allow, no more calls than this delivery has used up.
CallsInv ==
    \A i \in Instances :
        /\ ipc[i] = "handle" => tries[i] < MaxRetries
        /\ MaxRetries = 0 => calls[i] = <<>>
        /\ Cardinality(Jumps(calls[i])) + (IF IsJump(calls[i], NextCall(i)) THEN 1 ELSE 0) <= crashes
        /\ \A m \in Offsets :
              Cardinality(CallsOf(calls[i], m)) <= MaxRetries * crashes + UsedUp(i, m)

LEMMA InitCallsInv == Init => CallsInv
<1> SUFFICES ASSUME Init, NEW i \in Instances
             PROVE  /\ ipc[i] = "handle" => tries[i] < MaxRetries
                    /\ MaxRetries = 0 => calls[i] = <<>>
                    /\ Cardinality(Jumps(calls[i])) + (IF IsJump(calls[i], NextCall(i)) THEN 1 ELSE 0) <= crashes
                    /\ \A m \in Offsets :
                          Cardinality(CallsOf(calls[i], m)) <= MaxRetries * crashes + UsedUp(i, m)
  BY DEF CallsInv
<1>1. calls[i] = <<>> /\ ipc[i] = "check" /\ pos[i] = 0 /\ crashes = 0
  BY DEF Init
<1>2. Jumps(calls[i]) = {} /\ ~IsJump(calls[i], NextCall(i)) /\ \A m \in Offsets : CallsOf(calls[i], m) = {}
  BY <1>1 DEF Jumps, IsJump, CallsOf
<1>3. Cardinality({}) = 0
  BY FS_EmptySet
<1>4. \A m \in Offsets : UsedUp(i, m) = 0
  BY <1>1 DEF UsedUp, Offsets
<1>5. MaxRetries * crashes = 0
  BY <1>1, ConsumerAssumption DEF ConsumerAssumption
<1>6. Cardinality(Jumps(calls[i])) + (IF IsJump(calls[i], NextCall(i)) THEN 1 ELSE 0) <= crashes
  <2>1. Cardinality(Jumps(calls[i])) = 0
    BY <1>2, <1>3
  <2>2. (IF IsJump(calls[i], NextCall(i)) THEN 1 ELSE 0) = 0
    BY <1>2
  <2> QED BY <1>1, <2>1, <2>2
<1>7. ASSUME NEW m \in Offsets
      PROVE  Cardinality(CallsOf(calls[i], m)) <= MaxRetries * crashes + UsedUp(i, m)
  BY <1>2, <1>3, <1>4, <1>5
<1>8. ipc[i] # "handle"
  BY <1>1
<1> QED BY <1>1, <1>6, <1>7, <1>8

LEMMA NextCallsInv == TypeInv /\ CallsInv /\ [Next]_vars => CallsInv'
<1> SUFFICES ASSUME TypeInv, CallsInv, [Next]_vars, NEW i \in Instances
             PROVE  /\ ipc'[i] = "handle" => tries'[i] < MaxRetries
                    /\ MaxRetries = 0 => calls'[i] = <<>>
                    /\ Cardinality(Jumps(calls'[i])) + (IF IsJump(calls'[i], NextCall(i)') THEN 1 ELSE 0) <= crashes'
                    /\ \A m \in Offsets :
                          Cardinality(CallsOf(calls'[i], m)) <= MaxRetries * crashes' + UsedUp(i, m)'
  BY DEF CallsInv
<1> DEFINE Goal == /\ ipc'[i] = "handle" => tries'[i] < MaxRetries
                   /\ MaxRetries = 0 => calls'[i] = <<>>
                   /\ Cardinality(Jumps(calls'[i])) + (IF IsJump(calls'[i], NextCall(i)') THEN 1 ELSE 0) <= crashes'
                   /\ \A m \in Offsets :
                         Cardinality(CallsOf(calls'[i], m)) <= MaxRetries * crashes' + UsedUp(i, m)'
<1>1. /\ ipc[i] = "handle" => tries[i] < MaxRetries
      /\ MaxRetries = 0 => calls[i] = <<>>
      /\ Cardinality(Jumps(calls[i])) + (IF IsJump(calls[i], NextCall(i)) THEN 1 ELSE 0) <= crashes
      /\ \A m \in Offsets : Cardinality(CallsOf(calls[i], m)) <= MaxRetries * crashes + UsedUp(i, m)
  BY DEF CallsInv
<1>2. /\ calls[i] \in Seq(Offsets) /\ pos[i] \in Nat /\ tries[i] \in Nat
      /\ crashes \in Nat /\ MaxRetries \in Nat /\ MaxRetries * crashes \in Nat
      /\ MaxRetries * (crashes + 1) = MaxRetries * crashes + MaxRetries
  <2>1. MaxRetries \in Nat /\ crashes \in Nat
    BY ConsumerAssumption DEF TypeInv, TypeOK, ConsumerAssumption
  <2>2. MaxRetries * crashes \in Nat /\ MaxRetries * (crashes + 1) = MaxRetries * crashes + MaxRetries
    BY <2>1
  <2> QED BY <2>1, <2>2 DEF TypeInv, TypeOK, Offsets
<1>3. \A m \in Offsets : m \in Nat
  BY DEF Offsets
<1>4. CASE UNCHANGED <<calls, pos, tries, crashes>> /\ (ipc'[i] = ipc[i] \/ (ipc[i] # "handle" /\ ipc'[i] # "handle"))
  <2>1. NextCall(i)' = NextCall(i)
    BY <1>4 DEF NextCall, Current
  <2>2. \A m \in Offsets : UsedUp(i, m)' = UsedUp(i, m)
    BY <1>4 DEF UsedUp, Current
  <2> QED BY <1>1, <1>4, <2>1, <2>2
\* The next call may be anything after a crash, and each message may be tried anew.
<1>5. CASE Crash
  <2>1. ipc'[i] # "handle" /\ calls' = calls /\ crashes' = crashes + 1
    BY <1>5 DEF Crash, logVars
  <2>2. Cardinality(Jumps(calls[i])) \in Nat
    <3>1. 0 \in Offsets
      BY ConsumerAssumption DEF ConsumerAssumption, Offsets
    <3> QED BY <1>2, <3>1, JumpsAppend
  <2>3. ASSUME NEW m \in Offsets
        PROVE  Cardinality(CallsOf(calls'[i], m)) <= MaxRetries * crashes' + UsedUp(i, m)'
    <3>1. Cardinality(CallsOf(calls[i], m)) \in Nat
      BY <1>2, CallsOfAppend
    <3>2. UsedUp(i, m) <= MaxRetries /\ UsedUp(i, m) \in Nat
      BY <1>1, <1>2 DEF UsedUp
    <3>3. UsedUp(i, m)' \in Nat
      BY <1>2, <2>1 DEF UsedUp
    <3>4. Cardinality(CallsOf(calls[i], m)) <= MaxRetries * crashes + UsedUp(i, m)
      BY <1>1
    <3>5. MaxRetries * crashes' = MaxRetries * crashes + MaxRetries
      BY <1>2, <2>1
    <3> HIDE DEF UsedUp
    <3> QED BY <1>2, <2>1, <3>1, <3>2, <3>3, <3>4, <3>5
  <2>4. Cardinality(Jumps(calls'[i])) + (IF IsJump(calls'[i], NextCall(i)') THEN 1 ELSE 0) <= crashes'
    <3>1. Cardinality(Jumps(calls[i])) <= crashes
      BY <1>1, <1>2, <2>2
    <3> QED BY <1>2, <2>1, <2>2, <3>1
  <2> QED BY <1>1, <2>1, <2>3, <2>4
\* A delivery uses up nothing yet, and the next call is of the message it brings.
<1>6. CASE PollMessage(i)
  <2>1. /\ ipc[i] = "poll" /\ pos'[i] = pos[i] + 1 /\ tries'[i] = 0 /\ UNCHANGED <<calls, crashes>>
        /\ ipc'[i] = (IF MaxRetries = 0 THEN "commit" ELSE "handle")
    BY <1>6 DEF PollMessage, FirstStep, Goto, TypeInv, TypeOK, logVars, ctlVars
  <2>2. CASE MaxRetries = 0
    <3>1. calls'[i] = calls[i] /\ calls[i] = <<>> /\ ipc'[i] # "handle"
      BY <1>1, <2>1, <2>2
    <3>2. ~IsJump(calls[i], NextCall(i)) /\ ~IsJump(calls'[i], NextCall(i)')
      BY <3>1 DEF IsJump
    <3>3. \A m \in Offsets : UsedUp(i, m) = 0 /\ UsedUp(i, m)' = 0
      BY <2>1, <2>2, <3>1 DEF UsedUp
    <3> QED BY <1>1, <2>1, <3>1, <3>2, <3>3
  <2>3. CASE MaxRetries # 0
    <3>1. NextCall(i)' = NextCall(i)
      BY <1>2, <2>1, <2>3 DEF NextCall, Current
    <3>2. \A m \in Offsets : UsedUp(i, m)' = UsedUp(i, m)
      BY <1>2, <1>3, <2>1, <2>3 DEF UsedUp, Current
    <3>3. tries'[i] < MaxRetries
      BY <1>2, <2>1, <2>3
    <3> QED BY <1>1, <2>1, <2>3, <3>1, <3>2, <3>3
  <2> QED BY <2>2, <2>3
\* A call is the next call, and uses up one try of its message.
<1>7. CASE HandlerOk(i) \/ HandlerFails(i)
  <2> DEFINE x == Current(i)
  <2>1. /\ ipc[i] = "handle" /\ UNCHANGED <<pos, crashes>>
        /\ calls'[i] = Append(calls[i], x) /\ tries'[i] = tries[i] + 1
        /\ ipc'[i] = "handle" => tries[i] + 1 # MaxRetries
    BY <1>7 DEF HandlerOk, HandlerFails, AfterFailure, Goto, TypeInv, TypeOK, ctlVars
  <2>2. x \in Offsets /\ x \in Nat /\ pos[i] = x + 1
    <3>1. pos[i] > 0 /\ pos[i] \in 0..LogEnd
      BY <2>1 DEF TypeInv, TypeOK, HasMessage, Offsets
    <3> QED BY <3>1, ConsumerAssumption DEF Current, Offsets, ConsumerAssumption
  <2>3. NextCall(i) = x /\ (NextCall(i)' = x \/ NextCall(i)' = x + 1)
    BY <2>1, <2>2 DEF NextCall, Current
  <2>4. tries[i] < MaxRetries /\ MaxRetries # 0
    BY <1>1, <1>2, <2>1
  <2>5. ipc'[i] = "handle" => tries'[i] < MaxRetries
    <3>1. tries[i] \in Nat /\ MaxRetries \in Nat /\ tries[i] < MaxRetries
      BY <1>2, <2>4
    <3>2. tries[i] + 1 # MaxRetries => tries[i] + 1 < MaxRetries
      BY <3>1
    <3> QED BY <2>1, <3>2
  <2>6. \A m \in Offsets : UsedUp(i, m) = IF m > x THEN 0 ELSE IF m = x THEN tries[i] ELSE MaxRetries
    BY <1>3, <2>1, <2>2 DEF UsedUp, Current
  <2>7. \A m \in Offsets : UsedUp(i, m)' = IF m > x THEN 0
                                           ELSE IF m = x /\ ipc'[i] = "handle" THEN tries[i] + 1 ELSE MaxRetries
    <3>1. pos'[i] = x + 1 /\ Current(i)' = x /\ tries'[i] = tries[i] + 1
      BY <2>1, <2>2 DEF Current
    <3> HIDE DEF x
    <3>2. \A m \in Offsets : m >= x + 1 <=> m > x
      BY <1>3, <2>2
    <3> QED BY <3>1, <3>2 DEF UsedUp
  <2> HIDE DEF x
  <2>8. Cardinality(Jumps(calls'[i])) + (IF IsJump(calls'[i], NextCall(i)') THEN 1 ELSE 0) <= crashes'
    <3>1. Cardinality(Jumps(calls'[i])) =
             Cardinality(Jumps(calls[i])) + (IF IsJump(calls[i], x) THEN 1 ELSE 0)
      BY <1>2, <2>1, <2>2, JumpsAppend
    <3>2. ~IsJump(calls'[i], NextCall(i)')
      <4>1. Len(calls'[i]) = Len(calls[i]) + 1 /\ calls'[i][Len(calls[i]) + 1] = x
        BY <1>2, <2>1, <2>2, AppendProperties
      <4> QED BY <2>3, <4>1 DEF IsJump
    <3>3. Cardinality(Jumps(calls[i])) \in Nat
      BY <1>2, <2>2, JumpsAppend
    <3>4. Cardinality(Jumps(calls[i])) + (IF IsJump(calls[i], x) THEN 1 ELSE 0) <= crashes
      BY <1>1, <2>3
    <3>5. Cardinality(Jumps(calls'[i])) \in Nat
      BY <3>1, <3>3
    <3> QED BY <1>2, <2>1, <3>1, <3>2, <3>4, <3>5
  <2>9. ASSUME NEW m \in Offsets
        PROVE  Cardinality(CallsOf(calls'[i], m)) <= MaxRetries * crashes' + UsedUp(i, m)'
    <3>1. /\ Cardinality(CallsOf(calls[i], m)) \in Nat
          /\ Cardinality(CallsOf(calls'[i], m)) = Cardinality(CallsOf(calls[i], m)) + (IF x = m THEN 1 ELSE 0)
      <4>1. ASSUME NEW s \in Seq(Offsets)
            PROVE  /\ Cardinality(CallsOf(s, m)) \in Nat
                   /\ Cardinality(CallsOf(Append(s, x), m)) = Cardinality(CallsOf(s, m)) + (IF x = m THEN 1 ELSE 0)
        BY <2>2, CallsOfAppend
      <4> QED BY <1>2, <2>1, <4>1
    <3>2. Cardinality(CallsOf(calls[i], m)) <= MaxRetries * crashes + UsedUp(i, m)
      BY <1>1
    <3>3. CASE x = m
      <4>1. UsedUp(i, m) = tries[i] /\ UsedUp(i, m)' >= tries[i] + 1 /\ UsedUp(i, m)' \in Nat
        BY <1>2, <2>2, <2>4, <2>6, <2>7, <3>3
      <4> QED BY <1>2, <2>1, <3>1, <3>2, <3>3, <4>1
    <3>4. CASE x # m
      <4>1. UsedUp(i, m) = UsedUp(i, m)'
        BY <2>6, <2>7, <3>4
      <4> QED BY <1>2, <2>1, <3>1, <3>2, <3>4, <4>1
    <3> QED BY <3>3, <3>4
  <2> QED BY <2>4, <2>5, <2>8, <2>9
<1>8. \/ /\ UNCHANGED <<calls, pos, tries, crashes>>
         /\ ipc'[i] = ipc[i] \/ (ipc[i] # "handle" /\ ipc'[i] # "handle")
      \/ Crash \/ PollMessage(i) \/ HandlerOk(i) \/ HandlerFails(i)
      \/ \E o \in Instances \ {i} : Loop(o)
  BY DEF Next, Loop, Arrive, Cancel, AutoCommitTick, CheckContext, PollNil, PollDown, CloseBegin, ReturnError,
     CommitOk, CommitFails, Finish, CloseInstance, CloseReturn, Goto, TypeInv, TypeOK, vars, brokerVars,
     loopVars, logVars, ctlVars
<1>9. ASSUME NEW o \in Instances \ {i}, Loop(o) PROVE Goal
  <2>1. /\ ipc'[i] = ipc[i] /\ pos'[i] = pos[i] /\ tries'[i] = tries[i] /\ calls'[i] = calls[i]
        /\ crashes' = crashes
    BY <1>9 DEF Loop, CheckContext, PollMessage, PollNil, HandlerOk, HandlerFails, ReturnError, CommitOk,
       CommitFails, Finish, Goto, TypeInv, TypeOK, brokerVars, logVars, ctlVars
  <2>2. NextCall(i)' = NextCall(i) /\ \A m \in Offsets : UsedUp(i, m)' = UsedUp(i, m)
    BY <2>1 DEF NextCall, UsedUp, Current
  <2> QED BY <1>1, <2>1, <2>2
<1> QED BY <1>4, <1>5, <1>6, <1>7, <1>8, <1>9

\* The handler sees each partition in order and at most MaxRetries times per
\* delivery of a message, for any log, number of retries and crashes.
THEOREM CallsInOrderHolds == Spec => []CallsInOrder
<1>1. TypeInv /\ CallsInv => CallsInOrder
  <2> SUFFICES ASSUME TypeInv, CallsInv, NEW i \in Instances
               PROVE  /\ Cardinality(Jumps(calls[i])) <= crashes
                      /\ \A m \in 0..LogEnd : Cardinality(CallsOf(calls[i], m)) <= MaxRetries * (crashes + 1)
    BY DEF CallsInOrder, Jumps, CallsOf
  <2>1. /\ calls[i] \in Seq(Offsets) /\ pos[i] \in Nat /\ tries[i] \in Nat
        /\ crashes \in Nat /\ MaxRetries \in Nat /\ 0 \in Offsets
    BY ConsumerAssumption DEF TypeInv, TypeOK, Offsets, ConsumerAssumption
  <2>2. Cardinality(Jumps(calls[i])) <= crashes
    <3>1. Cardinality(Jumps(calls[i])) \in Nat
      BY <2>1, JumpsAppend
    <3>2. Cardinality(Jumps(calls[i])) + (IF IsJump(calls[i], NextCall(i)) THEN 1 ELSE 0) <= crashes
      BY DEF CallsInv
    <3> QED BY <2>1, <3>1, <3>2
  <2>3. ASSUME NEW m \in 0..LogEnd PROVE Cardinality(CallsOf(calls[i], m)) <= MaxRetries * (crashes + 1)
    <3>1. m \in Offsets
      BY DEF Offsets
    <3>2. Cardinality(CallsOf(calls[i], m)) \in Nat
      BY <2>1, CallsOfAppend
    <3>3. UsedUp(i, m) <= MaxRetries /\ UsedUp(i, m) \in Nat
      BY <2>1 DEF UsedUp, CallsInv
    <3>4. Cardinality(CallsOf(calls[i], m)) <= MaxRetries * crashes + UsedUp(i, m)
      BY <3>1 DEF CallsInv
    <3>5. MaxRetries * crashes \in Nat /\ MaxRetries * (crashes + 1) = MaxRetries * crashes + MaxRetries
      BY <2>1
    <3> QED BY <2>1, <3>2, <3>3, <3>4, <3>5
  <2> QED BY <2>2, <2>3
<1> QED BY <1>1, InitTypeInv, NextTypeInv, InitCallsInv, NextCallsInv, PTL DEF Spec
=============================================================================
