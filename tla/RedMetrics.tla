----------------------------- MODULE RedMetrics -----------------------------
(***************************************************************************)
(* The HTTP metrics, src/metrics/middleware.go and registry.go: each call  *)
(* of RED makes a middleware and registers its collectors idempotently, so *)
(* that all middlewares of one registry share the first one's; the         *)
(* in-flight gauge is decremented by a deferred call, the counter is       *)
(* incremented when the handlers have returned.                            *)
(*                                                                         *)
(* The four collectors are registered together: one name stands for them.  *)
(* The histograms are observed with the counter.                           *)
(***************************************************************************)
EXTENDS Http

CONSTANTS
    Mounts,     \* the calls of RED on the registry
    NoMount

ASSUME RedAssumption == NoMount \notin Mounts

VARIABLES
    registered, \* the mount whose collectors the registry holds and exports
    collectors, \* [Mounts -> the mount whose collectors this middleware uses]
    inFlight,   \* [Mounts -> value of its gauge]
    total,      \* [Mounts -> value of its counter, all labels together]
    via         \* [Requests -> the middleware that accounts for it]

redVars == <<registered, collectors, inFlight, total, via>>

RedTypeOK ==
    /\ registered \in Mounts \cup {NoMount}
    /\ collectors \in [Mounts -> Mounts \cup {NoMount}]
    /\ inFlight \in [Mounts -> Nat]
    /\ total \in [Mounts -> Nat]
    /\ via \in [Requests -> Mounts \cup {NoMount}]

RedInit ==
    /\ registered = NoMount
    /\ collectors = [m \in Mounts |-> NoMount]
    /\ inFlight = [m \in Mounts |-> 0]
    /\ total = [m \in Mounts |-> 0]
    /\ via = [q \in Requests |-> NoMount]

\* RegisterOrExisting.  RegisterOrOwn swallows AlreadyRegisteredError.
RegisterOrOwn(m) == m
RegisterOrExisting(m) == IF registered = NoMount THEN m ELSE registered

RedMount(m) ==
    /\ collectors[m] = NoMount
    /\ collectors' = [collectors EXCEPT ![m] = RegisterOrExisting(m)]
    /\ registered' = IF registered = NoMount THEN m ELSE registered
    /\ UNCHANGED <<inFlight, total, via>>

\* inFlight.Inc
RedEnter(q, m) ==
    /\ via' = [via EXCEPT ![q] = m]
    /\ inFlight' = [inFlight EXCEPT ![collectors[m]] = @ + 1]
    /\ UNCHANGED <<registered, collectors, total>>

\* requests.Inc and the observations, after c.Next has returned.
RedCount(q) ==
    /\ total' = [total EXCEPT ![collectors[via[q]]] = @ + 1]
    /\ UNCHANGED <<registered, collectors, inFlight, via>>

\* The deferred inFlight.Dec.
RedLeave(q) ==
    /\ inFlight' = [inFlight EXCEPT ![collectors[via[q]]] = @ - 1]
    /\ UNCHANGED <<registered, collectors, total, via>>
=============================================================================
