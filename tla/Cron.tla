-------------------------------- MODULE Cron --------------------------------
(***************************************************************************)
(* The cron manager, src/cron: chains of tasks that run on the scheduler   *)
(* of robfig/cron (external).  The scheduler starts a goroutine for a      *)
(* chain whenever its time has come, whether an earlier run of the chain   *)
(* has ended or not; Stop keeps it from starting more and hands out a      *)
(* context that is done when no run is left; Start may set it going again. *)
(*                                                                         *)
(* Each run has SharedData of its own.  What the tasks keep there is up to *)
(* them: here a task that succeeds leaves the number of its run under a    *)
(* key of its own, its place in the chain.                                 *)
(***************************************************************************)
EXTENDS Naturals, Sequences

CONSTANTS
    Chains,         \* the calls of AddTasks, by the name of their chain
    TaskCount,      \* [Chains -> number of tasks]
    BadSpecs,       \* the chains whose cron spec does not parse
    Custom,         \* the middlewares given to NewCron
    Closers,        \* goroutines that call Close
    MaxRuns         \* bound: the runs started

ASSUME CronAssumption ==
    /\ TaskCount \in [Chains -> Nat]
    /\ BadSpecs \subseteq Chains
    /\ Custom \in Seq({"user"})
    /\ MaxRuns \in Nat

RunIds == 1..MaxRuns

VARIABLES
    entries,    \* the chains the scheduler knows
    running,    \* the scheduler's loop runs
    started,    \* number of runs started
    chainOf,    \* [RunIds -> the chain of a run]
    rpc,        \* [RunIds -> program counter of chainJob.Run]
    place,      \* [RunIds -> the task it is at, from 1]
    data,       \* [RunIds -> its SharedData: pairs of a key and the run that set it]
    trace,      \* [RunIds -> how its tasks ended, in order]
    spc,        \* [Closers -> program counter inside Close]
    atStop      \* [Closers -> the runs that were active when it called Stop]

scheduler == <<entries, running>>
runVars == <<started, chainOf, rpc, place, data, trace>>
stopVars == <<spc, atStop>>
vars == <<scheduler, runVars, stopVars>>

Endings == {"ok", "err", "panic"}
NoChain == "no chain"

TypeOK ==
    /\ entries \subseteq Chains
    /\ running \in BOOLEAN
    /\ started \in 0..MaxRuns
    /\ chainOf \in [RunIds -> Chains \cup {NoChain}]
    /\ rpc \in [RunIds -> {"unused", "begin", "task", "over", "crash"}]
    /\ place \in [RunIds -> Nat]
    /\ data \in [RunIds -> SUBSET (Nat \X RunIds)]
    /\ trace \in [RunIds -> Seq(Endings)]
    /\ spc \in [Closers -> {"idle", "wait", "done", "returned"}]
    /\ atStop \in [Closers -> SUBSET RunIds]

Init ==
    /\ entries = {}
    /\ running = FALSE
    /\ started = 0
    /\ chainOf = [r \in RunIds |-> NoChain]
    /\ rpc = [r \in RunIds |-> "unused"]
    /\ place = [r \in RunIds |-> 0]
    /\ data = [r \in RunIds |-> {}]
    /\ trace = [r \in RunIds |-> <<>>]
    /\ spc = [k \in Closers |-> "idle"]
    /\ atStop = [k \in Closers |-> {}]

----------------------------------------------------------------------------
(* Middlewares: applyMiddlewares wraps from the last to the first, so the   *)
(* first of the list is outermost; NewCron puts recovery and logging first. *)

Middlewares == <<"recovery", "logging">> \o Custom

\* The layers of a wrapped task, outermost first.  LayersReversed wraps from
\* the first to the last.
LayersReversed == [i \in DOMAIN Middlewares |-> Middlewares[Len(Middlewares) + 1 - i]]
Layers == Middlewares

\* The layers whose code may panic: a custom middleware, or the task inside all.
PanicLayers == {i \in DOMAIN Layers : Layers[i] = "user"} \cup {Len(Layers) + 1}

\* A panic in layer n unwinds to the first recovery around it.
Recovered(n) == \E i \in 1..(n - 1) : Layers[i] = "recovery"

\* What the job makes of it: recovery turns a panic into an error, which the
\* chain stops at.  PanicForgotten leaves err nil.
PanicForgotten == "ok"
PanicResult == "err"

----------------------------------------------------------------------------
\* AddTasks: ErrNoTasks, the error of AddJob for a bad spec, or a new entry,
\* at any time.
AddTasks(c) ==
    /\ c \notin entries
    /\ TaskCount[c] > 0
    /\ c \notin BadSpecs
    /\ entries' = entries \cup {c}
    /\ UNCHANGED <<running, runVars, stopVars>>

\* Start: nothing if the scheduler runs.
Start ==
    /\ ~running
    /\ running' = TRUE
    /\ UNCHANGED <<entries, runVars, stopVars>>

----------------------------------------------------------------------------
(* Runs.                                                                    *)

Active == {r \in RunIds : rpc[r] \in {"begin", "task", "crash"}}

\* The time of a chain has come: a goroutine for one more run.
Fire(c) ==
    /\ running
    /\ c \in entries
    /\ started < MaxRuns
    /\ started' = started + 1
    /\ chainOf' = [chainOf EXCEPT ![started + 1] = c]
    /\ rpc' = [rpc EXCEPT ![started + 1] = "begin"]
    /\ UNCHANGED <<scheduler, place, data, trace, stopVars>>

\* The SharedData that the tasks of run r find in their context.  SharedOfChain
\* is one made in AddTasks, for all runs of the chain.
SharedOfChain(r) == CHOOSE s \in RunIds : chainOf[s] = chainOf[r]
SharedOf(r) == r

\* chainJob.Run: a fresh SharedData, then the first task.
RunBegin(r) ==
    /\ rpc[r] = "begin"
    /\ rpc' = [rpc EXCEPT ![r] = "task"]
    /\ place' = [place EXCEPT ![r] = 1]
    /\ UNCHANGED <<scheduler, started, chainOf, data, trace, stopVars>>

\* The loop goes on after a task that returned nil, and returns after the last
\* one or at the first error.
GoOn(r, result) ==
    IF result = "ok" /\ place[r] < TaskCount[chainOf[r]]
    THEN place' = [place EXCEPT ![r] = @ + 1] /\ UNCHANGED rpc
    ELSE rpc' = [rpc EXCEPT ![r] = "over"] /\ UNCHANGED place

\* A task, with all its middlewares, returns an error or nil; it has used
\* SharedData.Set in the latter case.
TaskReturns(r, result) ==
    /\ rpc[r] = "task"
    /\ trace' = [trace EXCEPT ![r] = Append(@, result)]
    /\ data' = IF result = "ok"
               THEN [data EXCEPT ![SharedOf(r)] =
                        {e \in @ : e[1] # place[r]} \cup {<<place[r], r>>}]
               ELSE data
    /\ GoOn(r, result)
    /\ UNCHANGED <<scheduler, started, chainOf, stopVars>>

\* A layer of it panics; what nothing recovers ends the process.
TaskPanics(r, n) ==
    /\ rpc[r] = "task"
    /\ trace' = [trace EXCEPT ![r] = Append(@, "panic")]
    /\ IF Recovered(n)
       THEN GoOn(r, PanicResult)
       ELSE rpc' = [rpc EXCEPT ![r] = "crash"] /\ UNCHANGED place
    /\ UNCHANGED <<scheduler, started, chainOf, data, stopVars>>

Run(r) ==
    \/ RunBegin(r)
    \/ \E result \in {"ok", "err"} : TaskReturns(r, result)
    \/ \E n \in PanicLayers : TaskPanics(r, n)

----------------------------------------------------------------------------
(* Close: Stop, then wait for the context it returned.                      *)

CloseStop(k) ==
    /\ spc[k] = "idle"
    /\ running' = FALSE
    /\ spc' = [spc EXCEPT ![k] = "wait"]
    /\ atStop' = [atStop EXCEPT ![k] = Active]
    /\ UNCHANGED <<entries, runVars>>

\* The scheduler's goroutine finds no run left and cancels the context.
\* NotAwaited is a Close that calls Stop only.
NotAwaited == TRUE
NoneLeft == Active = {}

CloseJobsOver(k) ==
    /\ spc[k] = "wait"
    /\ NoneLeft
    /\ spc' = [spc EXCEPT ![k] = "done"]
    /\ UNCHANGED <<scheduler, runVars, atStop>>

\* <-ctx.Done() and return.
CloseReturn(k) ==
    /\ spc[k] = "done"
    /\ spc' = [spc EXCEPT ![k] = "returned"]
    /\ UNCHANGED <<scheduler, runVars, atStop>>

Close(k) == CloseStop(k) \/ CloseJobsOver(k) \/ CloseReturn(k)

Next ==
    \/ \E c \in Chains : AddTasks(c) \/ Fire(c)
    \/ Start
    \/ \E r \in RunIds : Run(r)
    \/ \E k \in Closers : Close(k)

Spec == Init /\ [][Next]_vars

\* A run that was started goes on: goroutines are scheduled and tasks return.
\* Nobody owes AddTasks, Start, Close or the next time of a chain.
Fairness ==
    /\ \A r \in RunIds : WF_vars(Run(r))
    /\ \A k \in Closers : WF_vars(CloseJobsOver(k) \/ CloseReturn(k))

FairSpec == Spec /\ Fairness

----------------------------------------------------------------------------
(* Properties.                                                              *)

\* "If any task fails, the chain is aborted" (cron.go:40) and a panic is such a
\* failure: whatever the middlewares, a run executes its tasks in order, goes on
\* only after a nil, is over only at the first failure or after the last task,
\* and never takes the process down.
RunsFollowChain ==
    \A r \in RunIds :
        /\ \A i \in 1..(Len(trace[r]) - 1) : trace[r][i] = "ok"
        /\ rpc[r] = "task" => place[r] = Len(trace[r]) + 1
        /\ rpc[r] = "over" =>
              trace[r][Len(trace[r])] # "ok" \/ Len(trace[r]) = TaskCount[chainOf[r]]
        /\ rpc[r] # "crash"

\* "Each chain execution gets fresh SharedData" (docs/architecture/cron.md:18):
\* a task finds there what the earlier tasks of its own run left, and nothing of
\* a run of the same chain that overlaps or precedes it.
SharedDataIsPrivate ==
    \A r \in RunIds :
        rpc[r] = "task" => data[SharedOf(r)] = {<<i, r>> : i \in 1..(place[r] - 1)}

\* Close "waits for running jobs to complete" (cron.go:33): the runs that were
\* active when it stopped the scheduler are over when it returns.
CloseWaits ==
    \A k \in Closers :
        spc[k] \in {"done", "returned"} => \A r \in atStop[k] : rpc[r] = "over"

\* Close returns, unless the scheduler is started again meanwhile.
CloseReturns == \A k \in Closers : spc[k] = "wait" ~> (spc[k] = "returned" \/ running)
=============================================================================
