------------------------------- MODULE Health -------------------------------
(***************************************************************************)
(* The health endpoint, src/health/health.go: Handler runs every checker   *)
(* on a goroutine of its own, waits for all of them and answers 200 or 503 *)
(* with a map from names to outcomes.                                      *)
(*                                                                         *)
(* A checker ends when its dependency answers, by a panic, or, if it       *)
(* honours its context and that has a deadline, when the deadline passes.  *)
(***************************************************************************)
EXTENDS Http

CONSTANTS
    CheckerCount,   \* len(checkers)
    NameOf,         \* [Checkers -> Checker.Name()]
    HonoursCtx,     \* the checkers that return when their context is done
    OwnTimeout,     \* the checkers made by NewChecker with a timeout > 0
    HandlerTimeout  \* Handler's timeout > 0

Checkers == 1..CheckerCount
Names == {NameOf[c] : c \in Checkers}

ASSUME HealthAssumption ==
    /\ CheckerCount \in Nat
    /\ HonoursCtx \subseteq Checkers
    /\ OwnTimeout \subseteq Checkers
    /\ HandlerTimeout \in BOOLEAN

VARIABLES
    ending,     \* [Requests -> [Checkers -> how the check ended]]
    answer,     \* [Requests -> the status code of the answer]
    deps        \* [Requests -> the dependencies of the answer: name -> outcome]

healthVars == <<ending, answer, deps>>

Endings == {"ok", "err", "panic", "timeout"}

HealthTypeOK ==
    /\ ending \in [Requests -> [Checkers -> Endings \cup {"none", "running"}]]
    /\ answer \in [Requests -> {"none", "200", "503"}]
    /\ deps \in [Requests -> [Names -> {"none", "ok", "error"}]]

HealthInit ==
    /\ ending = [q \in Requests |-> [c \in Checkers |-> "none"]]
    /\ answer = [q \in Requests |-> "none"]
    /\ deps = [q \in Requests |-> [n \in Names |-> "none"]]

\* Run: one goroutine per checker.
HealthCall(q) ==
    /\ ending' = [ending EXCEPT ![q] = [c \in Checkers |-> "running"]]
    /\ UNCHANGED <<answer, deps>>

\* The dependency of c answers, or the checker panics.
CheckReturns(q, c, how) ==
    /\ ending[q][c] = "running"
    /\ ending' = [ending EXCEPT ![q][c] = how]
    /\ UNCHANGED <<answer, deps>>

\* The context of a check has a deadline: the handler's, or its own.
\* DeadlineDropped gives the checkers the request's context instead.
DeadlineDropped(c) == c \in OwnTimeout
Deadline(c) == HandlerTimeout \/ c \in OwnTimeout

CheckTimesOut(q, c) ==
    /\ c \in HonoursCtx
    /\ Deadline(c)
    /\ CheckReturns(q, c, "timeout")

\* Result.OK: runCheck gives every ending but the first an error.
\* PanicPasses recovers a panic and returns the nil error.
PanicPasses(e) == e \in {"ok", "panic"}
Passes(e) == e = "ok"

AllDone(q) == \A c \in Checkers : ending[q][c] # "running"

\* The result a name is left with: a later checker of that name overwrites.
LastNamed(n) == CHOOSE c \in Checkers :
    NameOf[c] = n /\ \A d \in Checkers : NameOf[d] = n => d <= c

HealthAnswer(q) ==
    /\ AllDone(q)
    /\ answer' = [answer EXCEPT ![q] =
          IF \A c \in Checkers : Passes(ending[q][c]) THEN "200" ELSE "503"]
    /\ deps' = [deps EXCEPT ![q] =
          [n \in Names |-> IF Passes(ending[q][LastNamed(n)]) THEN "ok" ELSE "error"]]
    /\ UNCHANGED ending
=============================================================================
