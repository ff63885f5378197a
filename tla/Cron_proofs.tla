----------------------------- MODULE Cron_proofs -----------------------------
(***************************************************************************)
(* Proofs about Cron, for every set of chains, every list of custom        *)
(* middlewares, every number of closers and of runs: the types, the order  *)
(* of a run's tasks and the survival of the process, the privacy of        *)
(* SharedData, and what Close has waited for.                              *)
(***************************************************************************)
EXTENDS Cron, SequenceTheorems, TLAPS

----------------------------------------------------------------------------
(* Types.                                                                   *)

\* NewCron puts recovery outermost: whatever layer panics is inside it.
LEMMA LayersRecover ==
    /\ Len(Layers) \in Nat
    /\ \A n \in PanicLayers : Recovered(n)
<1> USE CronAssumption DEF CronAssumption
<1> DEFINE S == {"recovery", "logging", "user"}
<1>1. Custom \in Seq(S)
  BY SeqMonotonic
<1>2. /\ <<"recovery", "logging">> \in Seq(S)
      /\ Len(<<"recovery", "logging">>) = 2
      /\ <<"recovery", "logging">>[1] = "recovery"
  <2>1. <<"recovery", "logging">> \in [1..2 -> S]
    OBVIOUS
  <2> QED BY <2>1, SeqDef
<1>3. /\ Layers \in Seq(S)
      /\ Len(Layers) = 2 + Len(Custom)
      /\ Len(Custom) \in Nat
      /\ Layers[1] = "recovery"
  <2> HIDE DEF S
  <2> QED BY <1>1, <1>2, ConcatProperties, LenProperties DEF Layers, Middlewares
<1>4. ASSUME NEW n \in PanicLayers PROVE n \in Nat /\ n > 1
  <2>1. CASE n = Len(Layers) + 1
    BY <2>1, <1>3
  <2>2. CASE n \in DOMAIN Layers /\ Layers[n] = "user"
    <3>1. n \in 1..Len(Layers)
      BY <2>2, <1>3
    <3>2. n # 1
      BY <2>2, <1>3
    <3> QED BY <3>1, <3>2, <1>3
  <2> QED BY <2>1, <2>2 DEF PanicLayers
<1> QED
  <2>1. ASSUME NEW n \in PanicLayers PROVE Recovered(n)
    <3>1. 1 \in 1..(n - 1)
      BY <1>4
    <3> QED BY <3>1, <1>3 DEF Recovered
  <2> QED BY <2>1, <1>3

LEMMA InitTypeOK == Init => TypeOK
<1> SUFFICES ASSUME Init PROVE TypeOK
  OBVIOUS
<1>1. started \in 0..MaxRuns /\ \A r \in RunIds : trace[r] \in Seq(Endings)
  BY CronAssumption DEF CronAssumption, Init
<1>2. trace \in [RunIds -> Seq(Endings)]
  BY <1>1 DEF Init
<1> QED BY <1>1, <1>2 DEF Init, TypeOK, NoChain

\* A task's end: the trace, the place and the program counter keep their types.
LEMMA GoOnTypes ==
    ASSUME TypeOK, NEW r \in RunIds, NEW result, GoOn(r, result)
    PROVE  /\ place' \in [RunIds -> Nat]
           /\ rpc' \in [RunIds -> {"unused", "begin", "task", "over", "crash"}]
<1>1. CASE place' = [place EXCEPT ![r] = place[r] + 1] /\ UNCHANGED rpc
  <2>1. place[r] + 1 \in Nat
    BY DEF TypeOK
  <2> QED BY <1>1, <2>1 DEF TypeOK
<1>2. CASE rpc' = [rpc EXCEPT ![r] = "over"] /\ UNCHANGED place
  BY <1>2 DEF TypeOK
<1> QED BY <1>1, <1>2 DEF GoOn

LEMMA TraceTypes ==
    ASSUME TypeOK, NEW r \in RunIds, NEW how \in Endings
    PROVE  [trace EXCEPT ![r] = Append(trace[r], how)] \in [RunIds -> Seq(Endings)]
<1>1. Append(trace[r], how) \in Seq(Endings)
  BY DEF TypeOK
<1> QED BY <1>1 DEF TypeOK

LEMMA NextTypeOK == TypeOK /\ [Next]_vars => TypeOK'
<1> SUFFICES ASSUME TypeOK, [Next]_vars PROVE TypeOK'
  OBVIOUS
<1> USE CronAssumption DEF CronAssumption
<1>1. ASSUME NEW c \in Chains, AddTasks(c) PROVE TypeOK'
  BY <1>1 DEF AddTasks, TypeOK, runVars, stopVars
<1>2. ASSUME NEW c \in Chains, Fire(c) PROVE TypeOK'
  <2>1. started + 1 \in RunIds /\ started' \in 0..MaxRuns
    BY <1>2 DEF Fire, TypeOK, RunIds
  <2>2. chainOf' \in [RunIds -> Chains \cup {NoChain}]
    BY <1>2, <2>1 DEF Fire, TypeOK
  <2>3. rpc' \in [RunIds -> {"unused", "begin", "task", "over", "crash"}]
    BY <1>2, <2>1 DEF Fire, TypeOK
  <2> QED BY <1>2, <2>1, <2>2, <2>3 DEF Fire, TypeOK, scheduler, stopVars
<1>3. CASE Start
  BY <1>3 DEF Start, TypeOK, runVars, stopVars
<1>4. ASSUME NEW r \in RunIds, Run(r) PROVE TypeOK'
  <2>1. CASE RunBegin(r)
    BY <2>1 DEF RunBegin, TypeOK, scheduler, stopVars
  <2>2. ASSUME NEW result \in {"ok", "err"}, TaskReturns(r, result) PROVE TypeOK'
    <3>1. trace' \in [RunIds -> Seq(Endings)]
      BY <2>2, TraceTypes DEF TaskReturns, Endings
    <3>2. data' \in [RunIds -> SUBSET (Nat \X RunIds)]
      <4>1. {e \in data[r] : e[1] # place[r]} \cup {<<place[r], r>>} \in SUBSET (Nat \X RunIds)
        BY DEF TypeOK
      <4> QED BY <2>2, <4>1 DEF TaskReturns, TypeOK, SharedOf
    <3> QED BY <2>2, <3>1, <3>2, GoOnTypes DEF TaskReturns, TypeOK, scheduler, stopVars
  <2>3. ASSUME NEW n \in PanicLayers, TaskPanics(r, n) PROVE TypeOK'
    <3>1. trace' \in [RunIds -> Seq(Endings)]
      BY <2>3, TraceTypes DEF TaskPanics, Endings
    <3>2. GoOn(r, PanicResult)
      BY <2>3, LayersRecover DEF TaskPanics
    <3> QED BY <2>3, <3>1, <3>2, GoOnTypes DEF TaskPanics, TypeOK, scheduler, stopVars
  <2> QED BY <1>4, <2>1, <2>2, <2>3 DEF Run
<1>5. ASSUME NEW k \in Closers, Close(k) PROVE TypeOK'
  <2>1. CASE CloseStop(k)
    <3>1. Active \in SUBSET RunIds
      BY DEF Active
    <3> QED BY <2>1, <3>1 DEF CloseStop, TypeOK, runVars
  <2>2. CASE CloseJobsOver(k)
    BY <2>2 DEF CloseJobsOver, TypeOK, scheduler, runVars
  <2>3. CASE CloseReturn(k)
    BY <2>3 DEF CloseReturn, TypeOK, scheduler, runVars
  <2> QED BY <1>5, <2>1, <2>2, <2>3 DEF Close
<1>6. CASE UNCHANGED vars
  BY <1>6 DEF TypeOK, vars, scheduler, runVars, stopVars
<1> QED BY <1>1, <1>2, <1>3, <1>4, <1>5, <1>6 DEF Next

\* For every configuration of chains, middlewares and closers the variables keep
\* their types (src/cron/manager.go).
THEOREM TypeCorrect == Spec => []TypeOK
  BY InitTypeOK, NextTypeOK, PTL DEF Spec

----------------------------------------------------------------------------
(* A run and its chain.                                                     *)

\* RunsFollowChain and SharedDataIsPrivate made inductive: what a run has done
\* at each of its program counters, and that it never starts an empty chain.
RunOK(r) ==
    /\ rpc[r] = "unused" <=> r > started
    /\ rpc[r] # "unused" => chainOf[r] \in entries
    /\ rpc[r] \in {"unused", "begin"} => trace[r] = <<>> /\ data[r] = {}
    /\ rpc[r] = "task" =>
          /\ place[r] = Len(trace[r]) + 1
          /\ place[r] <= TaskCount[chainOf[r]]
          /\ \A i \in 1..Len(trace[r]) : trace[r][i] = "ok"
          /\ data[r] = {<<i, r>> : i \in 1..(place[r] - 1)}
    /\ rpc[r] = "over" =>
          /\ \A i \in 1..(Len(trace[r]) - 1) : trace[r][i] = "ok"
          /\ trace[r][Len(trace[r])] # "ok" \/ Len(trace[r]) = TaskCount[chainOf[r]]
    /\ rpc[r] # "crash"

RunInv ==
    /\ \A c \in entries : TaskCount[c] > 0
    /\ \A r \in RunIds : RunOK(r)

LEMMA InitRunInv == Init => RunInv
  BY CronAssumption DEF CronAssumption, Init, RunInv, RunOK, RunIds

\* The end of a task, by a return or by a panic that is recovered.
LEMMA TaskEndKeepsRunInv ==
    ASSUME TypeOK, RunInv, NEW r \in RunIds, NEW how \in Endings, NEW result \in {"ok", "err"},
           result = "ok" <=> how = "ok",
           rpc[r] = "task",
           trace' = [trace EXCEPT ![r] = Append(trace[r], how)],
           how = "ok" => data' = [data EXCEPT ![r] = {e \in data[r] : e[1] # place[r]} \cup {<<place[r], r>>}],
           how # "ok" => data' = data,
           GoOn(r, result),
           UNCHANGED <<entries, started, chainOf>>
    PROVE  RunInv'
<1>1. ASSUME NEW s \in RunIds, s # r PROVE RunOK(s)'
  <2>1. trace'[s] = trace[s] /\ data'[s] = data[s]
    BY <1>1 DEF TypeOK
  <2>2. rpc'[s] = rpc[s] /\ place'[s] = place[s]
    BY <1>1 DEF TypeOK, GoOn
  <2> QED BY <1>1, <2>1, <2>2 DEF RunInv, RunOK
<1>2. RunOK(r)'
  <2>1. /\ trace[r] \in Seq(Endings)
        /\ place[r] = Len(trace[r]) + 1
        /\ place[r] <= TaskCount[chainOf[r]]
        /\ \A i \in 1..Len(trace[r]) : trace[r][i] = "ok"
        /\ data[r] = {<<i, r>> : i \in 1..(place[r] - 1)}
        /\ chainOf[r] \in entries /\ ~(r > started)
    BY DEF TypeOK, RunInv, RunOK
  <2>2. trace'[r] = Append(trace[r], how)
    BY DEF TypeOK
  <2>3. /\ Len(trace[r]) \in Nat
        /\ Len(trace'[r]) = Len(trace[r]) + 1
        /\ trace'[r][Len(trace[r]) + 1] = how
        /\ \A i \in 1..Len(trace[r]) : trace'[r][i] = "ok"
    BY <2>1, <2>2
  <2>4. CASE result = "ok" /\ place[r] < TaskCount[chainOf[r]]
    <3>1. rpc'[r] = "task" /\ place'[r] = place[r] + 1
      BY <2>4 DEF GoOn, TypeOK
    <3>2. data'[r] = {<<i, r>> : i \in 1..place[r]}
      <4>1. data'[r] = {e \in data[r] : e[1] # place[r]} \cup {<<place[r], r>>}
        BY <2>4 DEF TypeOK
      <4>2. {e \in data[r] : e[1] # place[r]} = {<<i, r>> : i \in 1..(place[r] - 1)}
        BY <2>1, <2>3
      <4> QED BY <4>1, <4>2, <2>1, <2>3
    <3>3. chainOf[r] \in Chains /\ TaskCount[chainOf[r]] \in Nat
      BY <2>1, CronAssumption DEF TypeOK, CronAssumption
    <3>4. place'[r] = Len(trace'[r]) + 1 /\ place'[r] <= TaskCount[chainOf[r]]
      BY <3>1, <3>3, <2>4, <2>1, <2>3
    <3>5. \A i \in 1..Len(trace'[r]) : trace'[r][i] = "ok"
      BY <2>4, <2>3
    <3>6. data'[r] = {<<i, r>> : i \in 1..(place'[r] - 1)}
      BY <3>1, <3>2, <2>1, <2>3
    <3> QED BY <2>1, <3>1, <3>4, <3>5, <3>6 DEF RunOK
  <2>5. CASE ~(result = "ok" /\ place[r] < TaskCount[chainOf[r]])
    <3>1. rpc'[r] = "over"
      BY <2>5 DEF GoOn, TypeOK
    <3>2. chainOf[r] \in Chains /\ TaskCount[chainOf[r]] \in Nat
      BY <2>1, CronAssumption DEF TypeOK, CronAssumption
    <3>3. trace'[r][Len(trace'[r])] # "ok" \/ Len(trace'[r]) = TaskCount[chainOf[r]]
      BY <2>5, <2>1, <2>3, <3>2
    <3>4. \A i \in 1..(Len(trace'[r]) - 1) : trace'[r][i] = "ok"
      BY <2>3
    <3> QED BY <2>1, <3>1, <3>3, <3>4 DEF RunOK
  <2> QED BY <2>4, <2>5
<1> QED BY <1>1, <1>2 DEF RunInv

LEMMA NextRunInv == TypeOK /\ RunInv /\ [Next]_vars => RunInv'
<1> SUFFICES ASSUME TypeOK, RunInv, [Next]_vars PROVE RunInv'
  OBVIOUS
<1>1. ASSUME NEW c \in Chains, AddTasks(c) PROVE RunInv'
  BY <1>1 DEF AddTasks, RunInv, RunOK, runVars, stopVars
<1>2. ASSUME NEW c \in Chains, Fire(c) PROVE RunInv'
  <2>1. started + 1 \in RunIds /\ started \in Nat
    BY <1>2, CronAssumption DEF Fire, TypeOK, RunIds, CronAssumption
  <2>2. ASSUME NEW r \in RunIds, r # started + 1 PROVE RunOK(r)'
    <3>1. rpc'[r] = rpc[r] /\ chainOf'[r] = chainOf[r]
      BY <1>2, <2>2 DEF Fire, TypeOK
    <3>2. r > started' <=> r > started
      BY <1>2, <2>1, <2>2, CronAssumption DEF Fire, RunIds, CronAssumption
    <3> QED BY <1>2, <3>1, <3>2 DEF Fire, RunInv, RunOK, scheduler
  <2>3. ASSUME NEW r \in RunIds, r = started + 1 PROVE RunOK(r)'
    <3>1. rpc[r] = "unused"
      BY <2>1, <2>3 DEF RunInv, RunOK
    <3>2. rpc'[r] = "begin" /\ chainOf'[r] = c /\ c \in entries'
      BY <1>2, <2>1, <2>3 DEF Fire, TypeOK, scheduler
    <3>3. trace'[r] = <<>> /\ data'[r] = {} /\ ~(r > started')
      BY <1>2, <2>1, <2>3, <3>1 DEF Fire, RunInv, RunOK
    <3> QED BY <3>2, <3>3 DEF RunOK
  <2> QED BY <1>2, <2>2, <2>3 DEF Fire, RunInv, scheduler
<1>3. CASE Start
  BY <1>3 DEF Start, RunInv, RunOK, runVars, stopVars
<1>4. ASSUME NEW r \in RunIds, Run(r) PROVE RunInv'
  <2>1. CASE RunBegin(r)
    <3>1. ASSUME NEW s \in RunIds, s # r PROVE RunOK(s)'
      BY <2>1, <3>1 DEF RunBegin, TypeOK, RunInv, RunOK, scheduler, stopVars
    <3>2. RunOK(r)'
      <4>1. rpc'[r] = "task" /\ place'[r] = 1
        BY <2>1 DEF RunBegin, TypeOK
      <4>2. /\ trace[r] = <<>> /\ data[r] = {} /\ chainOf[r] \in entries /\ ~(r > started)
            /\ TaskCount[chainOf[r]] > 0 /\ TaskCount[chainOf[r]] \in Nat
        BY <2>1, CronAssumption DEF RunBegin, RunInv, RunOK, TypeOK, CronAssumption
      <4> QED BY <2>1, <4>1, <4>2 DEF RunBegin, RunOK, scheduler, stopVars
    <3> QED BY <2>1, <3>1, <3>2 DEF RunBegin, RunInv, scheduler
  <2>2. ASSUME NEW result \in {"ok", "err"}, TaskReturns(r, result) PROVE RunInv'
    BY <2>2, TaskEndKeepsRunInv DEF TaskReturns, SharedOf, Endings, scheduler
  <2>3. ASSUME NEW n \in PanicLayers, TaskPanics(r, n) PROVE RunInv'
    <3>1. GoOn(r, "err")
      BY <2>3, LayersRecover DEF TaskPanics, PanicResult
    <3> QED BY <2>3, <3>1, TaskEndKeepsRunInv DEF TaskPanics, Endings, scheduler
  <2> QED BY <1>4, <2>1, <2>2, <2>3 DEF Run
<1>5. ASSUME NEW k \in Closers, Close(k) PROVE RunInv'
  BY <1>5 DEF Close, CloseStop, CloseJobsOver, CloseReturn, RunInv, RunOK, scheduler, runVars
<1>6. CASE UNCHANGED vars
  BY <1>6 DEF RunInv, RunOK, vars, scheduler, runVars, stopVars
<1> QED BY <1>1, <1>2, <1>3, <1>4, <1>5, <1>6 DEF Next

\* For every chain and every list of custom middlewares, a run executes its tasks
\* in order, ends at the first failure or after the last, and no panic of a task
\* or of a middleware ends the process (cron/manager.go chainJob.Run).
THEOREM RunsFollowChainHolds == Spec => []RunsFollowChain
<1>1. TypeOK /\ RunInv => RunsFollowChain
  <2> SUFFICES ASSUME TypeOK, RunInv, NEW r \in RunIds
               PROVE  /\ \A i \in 1..(Len(trace[r]) - 1) : trace[r][i] = "ok"
                      /\ rpc[r] = "task" => place[r] = Len(trace[r]) + 1
                      /\ rpc[r] = "over" =>
                            trace[r][Len(trace[r])] # "ok" \/ Len(trace[r]) = TaskCount[chainOf[r]]
                      /\ rpc[r] # "crash"
    BY DEF RunsFollowChain
  <2>1. Len(trace[r]) \in Nat /\ (trace[r] = <<>> => Len(trace[r]) = 0)
    BY DEF TypeOK
  <2>2. \A i \in 1..(Len(trace[r]) - 1) : trace[r][i] = "ok"
    BY <2>1 DEF TypeOK, RunInv, RunOK
  <2> QED BY <2>2 DEF RunInv, RunOK
<1> QED BY <1>1, InitTypeOK, NextTypeOK, InitRunInv, NextRunInv, PTL DEF Spec

\* However runs of one chain overlap, a task finds in its SharedData what the
\* earlier tasks of its own run left there and nothing else.
THEOREM SharedDataIsPrivateHolds == Spec => []SharedDataIsPrivate
<1>1. RunInv => SharedDataIsPrivate
  BY DEF RunInv, RunOK, SharedDataIsPrivate, SharedOf
<1> QED BY <1>1, InitTypeOK, NextTypeOK, InitRunInv, NextRunInv, PTL DEF Spec

----------------------------------------------------------------------------
(* Close.                                                                   *)

\* CloseWaits made inductive: a run that Close found was started.
WaitInv ==
    \A k \in Closers : \A r \in atStop[k] :
        /\ rpc[r] # "unused"
        /\ spc[k] \in {"done", "returned"} => rpc[r] = "over"

LEMMA InitWaitInv == Init => WaitInv
  BY DEF Init, WaitInv

\* No step takes a run back to "unused" or out of "over".
LEMMA RunsOnlyAdvance ==
    ASSUME TypeOK, RunInv, [Next]_vars, NEW r \in RunIds
    PROVE  /\ rpc[r] # "unused" => rpc'[r] # "unused"
           /\ rpc[r] = "over" => rpc'[r] = "over"
<1>1. ASSUME NEW c \in Chains, Fire(c)
      PROVE  rpc[r] # "unused" => rpc'[r] = rpc[r]
  <2>1. started + 1 \in RunIds /\ started + 1 > started
    BY <1>1, CronAssumption DEF Fire, TypeOK, RunIds, CronAssumption
  <2>2. rpc[started + 1] = "unused"
    BY <2>1 DEF RunInv, RunOK
  <2> QED BY <1>1, <2>2 DEF Fire, TypeOK
<1>2. ASSUME NEW s \in RunIds, Run(s)
      PROVE  rpc'[r] = rpc[r] \/ (rpc[r] \in {"begin", "task"} /\ rpc'[r] # "unused")
  BY <1>2 DEF Run, RunBegin, TaskReturns, TaskPanics, GoOn, TypeOK
<1>3. ASSUME NEW c \in Chains, AddTasks(c) PROVE rpc' = rpc
  BY <1>3 DEF AddTasks, runVars
<1>4. CASE Start
  BY <1>4 DEF Start, runVars
<1>5. ASSUME NEW k \in Closers, Close(k) PROVE rpc' = rpc
  BY <1>5 DEF Close, CloseStop, CloseJobsOver, CloseReturn, runVars
<1>6. CASE UNCHANGED vars
  BY <1>6 DEF vars, runVars
<1> QED BY <1>1, <1>2, <1>3, <1>4, <1>5, <1>6 DEF Next

LEMMA NextWaitInv == TypeOK /\ RunInv /\ WaitInv /\ [Next]_vars => WaitInv'
<1> SUFFICES ASSUME TypeOK, RunInv, WaitInv, [Next]_vars,
                    NEW k \in Closers, NEW r \in atStop'[k]
             PROVE  /\ rpc'[r] # "unused"
                    /\ spc'[k] \in {"done", "returned"} => rpc'[r] = "over"
  BY DEF WaitInv
<1>1. CASE UNCHANGED stopVars
  <2>1. r \in atStop[k] /\ r \in RunIds /\ spc'[k] = spc[k]
    BY <1>1 DEF TypeOK, stopVars
  <2> QED BY <2>1, RunsOnlyAdvance DEF WaitInv
<1>2. ASSUME NEW j \in Closers, CloseStop(j)
      PROVE  /\ rpc'[r] # "unused"
             /\ spc'[k] \in {"done", "returned"} => rpc'[r] = "over"
  BY <1>2 DEF CloseStop, WaitInv, TypeOK, Active, runVars
<1>3. ASSUME NEW j \in Closers, CloseJobsOver(j)
      PROVE  /\ rpc'[r] # "unused"
             /\ spc'[k] \in {"done", "returned"} => rpc'[r] = "over"
  <2>1. r \in atStop[k] /\ r \in RunIds /\ rpc' = rpc
    BY <1>3 DEF CloseJobsOver, TypeOK, runVars
  <2>2. rpc[r] \in {"over"}
    BY <1>3, <2>1 DEF CloseJobsOver, NoneLeft, Active, WaitInv, TypeOK
  <2> QED BY <2>1, <2>2
<1>4. ASSUME NEW j \in Closers, CloseReturn(j)
      PROVE  /\ rpc'[r] # "unused"
             /\ spc'[k] \in {"done", "returned"} => rpc'[r] = "over"
  BY <1>4 DEF CloseReturn, WaitInv, TypeOK, runVars
<1>5. UNCHANGED stopVars \/ \E j \in Closers : CloseStop(j) \/ CloseJobsOver(j) \/ CloseReturn(j)
  BY DEF Next, vars, AddTasks, Fire, Start, Run, RunBegin, TaskReturns, TaskPanics, Close
<1> QED BY <1>1, <1>2, <1>3, <1>4, <1>5

\* Whatever else goes on, another Close or a Start included, the runs that Close
\* found are over when it returns (cron/manager.go:64-67).
THEOREM CloseWaitsHolds == Spec => []CloseWaits
<1>1. WaitInv => CloseWaits
  BY DEF WaitInv, CloseWaits
<1> QED BY <1>1, InitTypeOK, NextTypeOK, InitRunInv, NextRunInv, InitWaitInv, NextWaitInv, PTL DEF Spec
=============================================================================
