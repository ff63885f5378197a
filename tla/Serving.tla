------------------------------ MODULE Serving ------------------------------
(***************************************************************************)
(* An HTTP service put together from src/metrics, src/health and           *)
(* src/routine the way their documentation shows: the RED middleware is    *)
(* mounted on the engine or on its groups, /health is health.Handler, the  *)
(* other handlers start background work with a Runner, and shutdown waits  *)
(* for that work.  gin (external) runs each request on its own goroutine   *)
(* and recovers from a panic of a handler outside the middleware.          *)
(*                                                                         *)
(* A request is served once: Requests bounds how many there are.           *)
(***************************************************************************)
EXTENDS Health, RedMetrics, Runner

CONSTANT
    Skip        \* the paths RED skips

Paths == {"/health", "/work"}

ASSUME ServingAssumption ==
    /\ Jobs = Requests
    /\ Skip \subseteq Paths

VARIABLES
    path,       \* [Requests -> its path]
    spc         \* [Requests -> program counter of its goroutine]

vars == <<healthVars, redVars, runnerVars, path, spc>>

TypeOK ==
    /\ HealthTypeOK
    /\ RedTypeOK
    /\ RunnerTypeOK
    /\ path \in [Requests -> Paths \cup {"none"}]
    /\ spc \in [Requests -> {"idle", "handler", "checks", "count", "leave", "served"}]

Init ==
    /\ HealthInit
    /\ RedInit
    /\ RunnerInit
    /\ path = [q \in Requests |-> "none"]
    /\ spc = [q \in Requests |-> "idle"]

----------------------------------------------------------------------------
Mount(m) ==
    /\ RedMount(m)
    /\ UNCHANGED <<healthVars, runnerVars, path, spc>>

Goto(q, pc) == spc' = [spc EXCEPT ![q] = pc]

\* A request reaches the middleware of mount m; a skipped path goes through.
Arrive(q, p, m) ==
    /\ spc[q] = "idle"
    /\ collectors[m] # NoMount
    /\ path' = [path EXCEPT ![q] = p]
    /\ Goto(q, "handler")
    /\ IF p \in Skip THEN UNCHANGED redVars ELSE RedEnter(q, m)
    /\ UNCHANGED <<healthVars, runnerVars>>

\* Where the middleware goes on after c.Next, and after a panic inside it:
\* Dec is deferred.  PanicSkipsDec is a Dec at the end of the function.
AfterNext(q) == IF via[q] = NoMount THEN "served" ELSE "count"
PanicSkipsDec(q) == "served"
AfterPanic(q) == IF via[q] = NoMount THEN "served" ELSE "leave"

Checks(q) ==
    /\ spc[q] = "handler"
    /\ path[q] = "/health"
    /\ HealthCall(q)
    /\ Goto(q, "checks")
    /\ UNCHANGED <<redVars, runnerVars, path>>

Check(q, c) ==
    /\ \/ \E how \in {"ok", "err", "panic"} : CheckReturns(q, c, how)
       \/ CheckTimesOut(q, c)
    /\ UNCHANGED <<redVars, runnerVars, path, spc>>

Answer(q) ==
    /\ spc[q] = "checks"
    /\ HealthAnswer(q)
    /\ Goto(q, AfterNext(q))
    /\ UNCHANGED <<redVars, runnerVars, path>>

\* Another handler: it may start a background job, and returns or panics.
WorkGo(q) ==
    /\ spc[q] = "handler"
    /\ path[q] = "/work"
    /\ RunnerGo(q)
    /\ UNCHANGED <<healthVars, redVars, path, spc>>

WorkEnds(q) ==
    /\ spc[q] = "handler"
    /\ path[q] = "/work"
    /\ Goto(q, AfterNext(q)) \/ Goto(q, AfterPanic(q))
    /\ UNCHANGED <<healthVars, redVars, runnerVars, path>>

Count(q) ==
    /\ spc[q] = "count"
    /\ RedCount(q)
    /\ Goto(q, "leave")
    /\ UNCHANGED <<healthVars, runnerVars, path>>

Leave(q) ==
    /\ spc[q] = "leave"
    /\ RedLeave(q)
    /\ Goto(q, "served")
    /\ UNCHANGED <<healthVars, runnerVars, path>>

Serve(q) == Checks(q) \/ Answer(q) \/ WorkEnds(q) \/ Count(q) \/ Leave(q)

Background ==
    /\ \/ \E j \in Jobs : JobEnds(j)
       \/ \E w \in Waiters : Wait(w) \/ WaitReturns(w)
    /\ UNCHANGED <<healthVars, redVars, path, spc>>

Next ==
    \/ \E m \in Mounts : Mount(m)
    \/ \E q \in Requests :
          \/ \E p \in Paths, m \in Mounts : Arrive(q, p, m)
          \/ Serve(q)
          \/ WorkGo(q)
          \/ \E c \in Checkers : Check(q, c)
    \/ Background

Spec == Init /\ [][Next]_vars

(***************************************************************************)
(* Fairness: goroutines are scheduled, handlers return, deadlines pass.    *)
(* No dependency owes a checker an answer.                                 *)
(***************************************************************************)
TimesOut(q, c) == CheckTimesOut(q, c) /\ UNCHANGED <<redVars, runnerVars, path, spc>>

Fairness ==
    \A q \in Requests :
        /\ WF_vars(Serve(q))
        /\ \A c \in Checkers : WF_vars(TimesOut(q, c))

FairSpec == Spec /\ Fairness

----------------------------------------------------------------------------
(* Properties.                                                              *)

\* "returns 200 when every dependency is healthy and 503 when any is not"
\* (health.go:3): the answer is the conjunction of how this request's own checks
\* ended, a panic and a deadline being failures, and it waited for all of them.
VerdictSound ==
    \A q \in Requests :
        /\ answer[q] = "200" => \A c \in Checkers : ending[q][c] = "ok"
        /\ answer[q] = "503" => \E c \in Checkers : ending[q][c] \in Endings \ {"ok"}

\* A timeout "bounds the whole health check" (health.go:117): the endpoint
\* answers, or waits for a checker that has no deadline or ignores it.
Unbounded(c) == c \notin HonoursCtx \/ ~(HandlerTimeout \/ c \in OwnTimeout)

HealthAnswers ==
    \A q \in Requests :
        spc[q] = "checks" ~>
            \/ spc[q] # "checks"
            \/ \E c \in Checkers : ending[q][c] = "running" /\ Unbounded(c)

\* The exported gauge is the number of requests being served through any
\* middleware of the registry, panicking handlers and repeated calls of RED
\* included ("requests currently being served", middleware.go:57).
GaugeAgrees ==
    registered # NoMount =>
        inFlight[registered] =
            Cardinality({q \in Requests : via[q] # NoMount /\ spc[q] # "served"})

\* Wait "waits for all goroutines started by this runner" (routine.go:30): those
\* started before the call are over when it returns, panics included.
WaitWaits ==
    \A w \in Waiters : wpc[w] = "returned" => \A j \in atWait[w] : job[j] = "over"

\* What the documentation promises and the code does not keep: see README.
\* "error: <reason>" for a failed dependency (health.go:121): two checkers of one
\* name leave one entry.
FailureIsNamed ==
    \A q \in Requests : answer[q] = "503" => \E n \in Names : deps[q][n] = "error"

\* "Total number of HTTP requests" (middleware.go:49).
EveryRequestCounted ==
    (\A q \in Requests : spc[q] \in {"idle", "served"}) /\ registered # NoMount =>
        total[registered] = Cardinality({q \in Requests : via[q] # NoMount})
=============================================================================
