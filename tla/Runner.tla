------------------------------- MODULE Runner -------------------------------
(***************************************************************************)
(* routine.Runner, src/routine/routine.go: Go and its three variants start *)
(* a goroutine that recovers from a panic, Wait waits for all of them on a *)
(* sync.WaitGroup.                                                         *)
(***************************************************************************)
EXTENDS Naturals, FiniteSets

CONSTANTS
    Jobs,       \* the calls of Go
    Waiters     \* goroutines that call Wait

VARIABLES
    wg,         \* the WaitGroup's counter
    job,        \* [Jobs -> the goroutine of a call of Go]
    wpc,        \* [Waiters -> program counter inside Wait]
    atWait      \* [Waiters -> the jobs under way when it called Wait]

runnerVars == <<wg, job, wpc, atWait>>

RunnerTypeOK ==
    /\ wg \in Nat
    /\ job \in [Jobs -> {"none", "running", "over"}]
    /\ wpc \in [Waiters -> {"idle", "wait", "returned"}]
    /\ atWait \in [Waiters -> SUBSET Jobs]

RunnerInit ==
    /\ wg = 0
    /\ job = [j \in Jobs |-> "none"]
    /\ wpc = [w \in Waiters |-> "idle"]
    /\ atWait = [w \in Waiters |-> {}]

UnderWay == {j \in Jobs : job[j] = "running"}

\* Add(1) in the caller, before the go statement.  NotAdded forgets it.
NotAdded == wg
Added == wg + 1

RunnerGo(j) ==
    /\ job[j] = "none"
    /\ wg' = Added
    /\ job' = [job EXCEPT ![j] = "running"]
    /\ UNCHANGED <<wpc, atWait>>

\* fn returns, or panics and is recovered: the deferred Done comes last in both.
JobEnds(j) ==
    /\ job[j] = "running"
    /\ job' = [job EXCEPT ![j] = "over"]
    /\ wg' = wg - 1
    /\ UNCHANGED <<wpc, atWait>>

Wait(w) ==
    /\ wpc[w] = "idle"
    /\ wpc' = [wpc EXCEPT ![w] = "wait"]
    /\ atWait' = [atWait EXCEPT ![w] = UnderWay]
    /\ UNCHANGED <<wg, job>>

WaitReturns(w) ==
    /\ wpc[w] = "wait"
    /\ wg = 0
    /\ wpc' = [wpc EXCEPT ![w] = "returned"]
    /\ UNCHANGED <<wg, job, atWait>>
=============================================================================
