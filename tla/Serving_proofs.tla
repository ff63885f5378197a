--------------------------- MODULE Serving_proofs ---------------------------
(***************************************************************************)
(* Proofs about Serving, for every number of requests, mounts, checkers    *)
(* and waiters: the in-flight gauge, the verdicts of the health endpoint,  *)
(* Runner.Wait, and the types, which rest on them (a gauge or a WaitGroup  *)
(* that is decremented is a natural number only because of what it counts).*)
(***************************************************************************)
EXTENDS Serving, FiniteSetTheorems, TLAPS

Pcs == {"idle", "handler", "checks", "count", "leave", "served"}

----------------------------------------------------------------------------
(* The gauge.                                                               *)

InService == {q \in Requests : via[q] # NoMount /\ spc[q] # "served"}

\* GaugeAgrees made inductive: all middlewares use the registered collectors,
\* and a request is accounted for from Inc to Dec.
GaugeInv ==
    /\ registered \in Mounts \cup {NoMount}
    /\ collectors \in [Mounts -> {NoMount, registered}]
    /\ via \in [Requests -> Mounts \cup {NoMount}]
    /\ spc \in [Requests -> Pcs]
    /\ inFlight \in [Mounts -> Nat]
    /\ \A q \in Requests :
          /\ via[q] # NoMount => collectors[via[q]] # NoMount
          /\ spc[q] = "idle" => via[q] = NoMount
          /\ spc[q] \in {"count", "leave"} => via[q] # NoMount
    /\ \A m \in Mounts : m # registered => inFlight[m] = 0
    /\ registered # NoMount => inFlight[registered] = Cardinality(InService)

LEMMA InServiceFinite == IsFiniteSet(InService) /\ Cardinality(InService) \in Nat
<1>1. InService \in SUBSET Requests
  BY DEF InService
<1>2. IsFiniteSet(InService)
  BY <1>1, RequestsAssumption, FS_Subset DEF RequestsAssumption
<1> QED BY <1>2, FS_CardinalityType

LEMMA InitGaugeInv == Init => GaugeInv
<1> USE RedAssumption DEF RedAssumption
<1> SUFFICES ASSUME Init PROVE GaugeInv
  OBVIOUS
<1> QED BY DEF Init, RedInit, GaugeInv, Pcs

\* A step that takes a request on without touching the metrics.
LEMMA GotoKeepsGaugeInv ==
    ASSUME GaugeInv, NEW q \in Requests, NEW pc \in Pcs, Goto(q, pc),
           UNCHANGED <<registered, collectors, inFlight, via>>,
           spc[q] # "served",
           pc # "idle",
           pc = "served" => via[q] = NoMount,
           pc \in {"count", "leave"} => via[q] # NoMount
    PROVE  GaugeInv'
<1>1. spc' \in [Requests -> Pcs] /\ spc'[q] = pc /\ \A p \in Requests : p # q => spc'[p] = spc[p]
  BY DEF Goto, GaugeInv
<1>2. InService' = InService
  BY <1>1 DEF InService
<1> QED BY <1>1, <1>2 DEF GaugeInv

\* Inc: one request more is in service.
LEMMA EnterKeepsGaugeInv ==
    ASSUME GaugeInv, NEW q \in Requests, NEW m \in Mounts, spc[q] = "idle",
           collectors[m] # NoMount, RedEnter(q, m), Goto(q, "handler")
    PROVE  GaugeInv'
<1> USE RedAssumption DEF RedAssumption
<1>1. /\ via' \in [Requests -> Mounts \cup {NoMount}]
      /\ via'[q] = m /\ \A p \in Requests : p # q => via'[p] = via[p]
  BY DEF RedEnter, GaugeInv
<1>2. /\ spc' \in [Requests -> Pcs]
      /\ spc'[q] = "handler" /\ \A p \in Requests : p # q => spc'[p] = spc[p]
  BY DEF Goto, GaugeInv, Pcs
<1>3. collectors[m] = registered /\ registered \in Mounts /\ registered # NoMount
  BY DEF GaugeInv
<1>4. InService' = InService \cup {q} /\ q \notin InService
  BY <1>1, <1>2 DEF InService, GaugeInv
<1>5. Cardinality(InService') = Cardinality(InService) + 1
  BY <1>4, InServiceFinite, FS_AddElement
<1>6. inFlight' = [inFlight EXCEPT ![registered] = inFlight[registered] + 1]
  BY <1>3 DEF RedEnter
<1>7. /\ inFlight' \in [Mounts -> Nat]
      /\ inFlight'[registered] = Cardinality(InService')
      /\ \A n \in Mounts : n # registered => inFlight'[n] = 0
  BY <1>3, <1>5, <1>6 DEF GaugeInv
<1> QED BY <1>1, <1>2, <1>7 DEF GaugeInv, RedEnter

\* Dec: one request less.
LEMMA LeaveKeepsGaugeInv ==
    ASSUME GaugeInv, NEW q \in Requests, spc[q] = "leave", RedLeave(q), Goto(q, "served")
    PROVE  GaugeInv'
<1> USE RedAssumption DEF RedAssumption
<1>1. /\ spc' \in [Requests -> Pcs]
      /\ spc'[q] = "served" /\ \A p \in Requests : p # q => spc'[p] = spc[p]
  BY DEF Goto, GaugeInv, Pcs
<1>2. via[q] \in Mounts /\ via[q] # NoMount /\ via' = via
  BY DEF GaugeInv, RedLeave
<1>3. collectors[via[q]] = registered /\ registered \in Mounts /\ registered # NoMount
  BY <1>2 DEF GaugeInv
<1>4. InService' = InService \ {q} /\ q \in InService
  BY <1>1, <1>2 DEF InService
<1>5. Cardinality(InService') = Cardinality(InService) - 1 /\ Cardinality(InService') \in Nat
  <2>1. IsFiniteSet(InService') /\ Cardinality(InService') = Cardinality(InService) - 1
    BY <1>4, InServiceFinite, FS_RemoveElement
  <2> QED BY <2>1, FS_CardinalityType
<1>6. inFlight' = [inFlight EXCEPT ![registered] = inFlight[registered] - 1]
  BY <1>3 DEF RedLeave
<1>7. /\ inFlight' \in [Mounts -> Nat]
      /\ inFlight'[registered] = Cardinality(InService')
      /\ \A n \in Mounts : n # registered => inFlight'[n] = 0
  BY <1>3, <1>5, <1>6 DEF GaugeInv
<1> QED BY <1>1, <1>2, <1>7 DEF GaugeInv, RedLeave

LEMMA NextGaugeInv == GaugeInv /\ [Next]_vars => GaugeInv'
<1> USE RedAssumption DEF RedAssumption
<1> SUFFICES ASSUME GaugeInv, [Next]_vars PROVE GaugeInv'
  OBVIOUS
<1>1. ASSUME NEW m \in Mounts, Mount(m) PROVE GaugeInv'
  <2>1. CASE registered = NoMount
    <3>1. InService = {}
      BY <2>1 DEF GaugeInv, InService
    <3>2. InService' = InService
      BY <1>1 DEF Mount, RedMount, InService
    <3>3. registered' = m /\ collectors' \in [Mounts -> {NoMount, m}] /\ inFlight[m] = 0
      BY <1>1, <2>1 DEF Mount, RedMount, RegisterOrExisting, GaugeInv
    <3> QED BY <1>1, <2>1, <3>1, <3>2, <3>3, FS_EmptySet DEF Mount, RedMount, GaugeInv
  <2>2. CASE registered # NoMount
    <3>1. InService' = InService
      BY <1>1 DEF Mount, RedMount, InService
    <3>2. registered' = registered /\ collectors' \in [Mounts -> {NoMount, registered}]
      BY <1>1, <2>2 DEF Mount, RedMount, RegisterOrExisting, GaugeInv
    <3>3. \A n \in Mounts : collectors[n] # NoMount => collectors'[n] # NoMount
      BY <1>1, <2>2 DEF Mount, RedMount, RegisterOrExisting, GaugeInv
    <3> QED BY <1>1, <2>2, <3>1, <3>2, <3>3 DEF Mount, RedMount, GaugeInv
  <2> QED BY <2>1, <2>2
<1>2. ASSUME NEW q \in Requests, NEW p \in Paths, NEW m \in Mounts, Arrive(q, p, m) PROVE GaugeInv'
  <2>1. CASE p \in Skip
    BY <1>2, <2>1, GotoKeepsGaugeInv DEF Arrive, redVars, Pcs
  <2>2. CASE p \notin Skip
    BY <1>2, <2>2, EnterKeepsGaugeInv DEF Arrive
  <2> QED BY <2>1, <2>2
<1>3. ASSUME NEW q \in Requests, Serve(q) PROVE GaugeInv'
  <2>1. CASE Checks(q)
    BY <2>1, GotoKeepsGaugeInv DEF Checks, redVars, Pcs
  <2>2. CASE Answer(q)
    BY <2>2, GotoKeepsGaugeInv DEF Answer, AfterNext, redVars, Pcs
  <2>3. CASE WorkEnds(q)
    BY <2>3, GotoKeepsGaugeInv DEF WorkEnds, AfterNext, AfterPanic, redVars, Pcs
  <2>4. CASE Count(q)
    <3>1. via[q] # NoMount
      BY <2>4 DEF Count, GaugeInv
    <3> QED BY <2>4, <3>1, GotoKeepsGaugeInv DEF Count, RedCount, Pcs
  <2>5. CASE Leave(q)
    BY <2>5, LeaveKeepsGaugeInv DEF Leave
  <2> QED BY <1>3, <2>1, <2>2, <2>3, <2>4, <2>5 DEF Serve
<1>4. ASSUME UNCHANGED <<redVars, spc>> PROVE GaugeInv'
  BY <1>4 DEF GaugeInv, InService, redVars
<1> QED BY <1>1, <1>2, <1>3, <1>4 DEF Next, WorkGo, Check, Background, vars

\* With any number of mounts on the registry and any handlers that panic, the
\* exported gauge is the number of requests being served (middleware.go:95-98).
THEOREM GaugeAgreesHolds == Spec => []GaugeAgrees
<1>1. GaugeInv => GaugeAgrees
  BY DEF GaugeInv, GaugeAgrees, InService
<1> QED BY <1>1, InitGaugeInv, NextGaugeInv, PTL DEF Spec

----------------------------------------------------------------------------
(* Runner.                                                                  *)

\* WaitWaits made inductive: the WaitGroup counts what is under way.
JobInv ==
    /\ job \in [Jobs -> {"none", "running", "over"}]
    /\ wpc \in [Waiters -> {"idle", "wait", "returned"}]
    /\ atWait \in [Waiters -> SUBSET Jobs]
    /\ wg = Cardinality(UnderWay)
    /\ \A w \in Waiters : \A j \in atWait[w] :
          /\ job[j] # "none"
          /\ wpc[w] = "returned" => job[j] = "over"

LEMMA UnderWayFinite == IsFiniteSet(UnderWay) /\ Cardinality(UnderWay) \in Nat
<1>1. UnderWay \in SUBSET Jobs /\ IsFiniteSet(Jobs)
  BY RequestsAssumption, ServingAssumption DEF RequestsAssumption, ServingAssumption, UnderWay
<1>2. IsFiniteSet(UnderWay)
  BY <1>1, FS_Subset
<1> QED BY <1>2, FS_CardinalityType

LEMMA InitJobInv == Init => JobInv
<1> SUFFICES ASSUME Init PROVE JobInv
  OBVIOUS
<1>1. UnderWay = {}
  BY DEF Init, RunnerInit, UnderWay
<1> QED BY <1>1, FS_EmptySet DEF Init, RunnerInit, JobInv

LEMMA NextJobInv == JobInv /\ [Next]_vars => JobInv'
<1> SUFFICES ASSUME JobInv, [Next]_vars PROVE JobInv'
  OBVIOUS
<1>1. ASSUME NEW j \in Jobs, RunnerGo(j) PROVE JobInv'
  <2>1. UnderWay' = UnderWay \cup {j} /\ j \notin UnderWay
    BY <1>1 DEF RunnerGo, UnderWay, JobInv
  <2>2. wg' = Cardinality(UnderWay')
    BY <1>1, <2>1, UnderWayFinite, FS_AddElement DEF RunnerGo, Added, JobInv
  <2> QED BY <1>1, <2>2 DEF RunnerGo, JobInv
<1>2. ASSUME NEW j \in Jobs, JobEnds(j) PROVE JobInv'
  <2>1. UnderWay' = UnderWay \ {j} /\ j \in UnderWay
    BY <1>2 DEF JobEnds, UnderWay, JobInv
  <2>2. wg' = Cardinality(UnderWay')
    BY <1>2, <2>1, UnderWayFinite, FS_RemoveElement DEF JobEnds, JobInv
  <2> QED BY <1>2, <2>2 DEF JobEnds, JobInv
<1>3. ASSUME NEW w \in Waiters, Wait(w) PROVE JobInv'
  <2>1. UnderWay' = UnderWay
    BY <1>3 DEF Wait, UnderWay
  <2> QED BY <1>3, <2>1 DEF Wait, JobInv, UnderWay
<1>4. ASSUME NEW w \in Waiters, WaitReturns(w) PROVE JobInv'
  <2>1. UnderWay' = UnderWay
    BY <1>4 DEF WaitReturns, UnderWay
  <2>2. UnderWay = {}
    BY <1>4, UnderWayFinite, FS_EmptySet DEF WaitReturns, JobInv
  <2>3. \A j \in Jobs : job[j] \in {"none", "over"}
    BY <2>2 DEF UnderWay, JobInv
  <2> QED BY <1>4, <2>1, <2>3 DEF WaitReturns, JobInv
<1>5. CASE UNCHANGED runnerVars
  BY <1>5 DEF runnerVars, JobInv, UnderWay
<1>6. \/ UNCHANGED runnerVars
      \/ \E j \in Jobs : RunnerGo(j) \/ JobEnds(j)
      \/ \E w \in Waiters : Wait(w) \/ WaitReturns(w)
  BY ServingAssumption DEF ServingAssumption, Next, vars, Mount, Arrive, Serve, Checks, Answer,
     WorkEnds, Count, Leave, WorkGo, Check, Background
<1> QED BY <1>1, <1>2, <1>3, <1>4, <1>5, <1>6

\* The jobs under way when Wait is called are over when it returns, whether they
\* return or panic and whoever calls Go meanwhile (routine.go:59-81).
THEOREM WaitWaitsHolds == Spec => []WaitWaits
<1>1. JobInv => WaitWaits
  BY DEF JobInv, WaitWaits
<1> QED BY <1>1, InitJobInv, NextJobInv, PTL DEF Spec

----------------------------------------------------------------------------
(* The health endpoint.                                                     *)

\* VerdictSound made inductive: no check of a request starts or ends once the
\* request is answered, and none was left out.
VerdictInv ==
    /\ ending \in [Requests -> [Checkers -> Endings \cup {"none", "running"}]]
    /\ answer \in [Requests -> {"none", "200", "503"}]
    /\ spc \in [Requests -> Pcs]
    /\ \A q \in Requests :
          /\ spc[q] \in {"idle", "handler"} => answer[q] = "none"
          /\ spc[q] = "checks" =>
                answer[q] = "none" /\ \A c \in Checkers : ending[q][c] # "none"
          /\ answer[q] # "none" => \A c \in Checkers : ending[q][c] \in Endings
          /\ answer[q] = "200" => \A c \in Checkers : ending[q][c] = "ok"
          /\ answer[q] = "503" => \E c \in Checkers : ending[q][c] # "ok"

LEMMA InitVerdictInv == Init => VerdictInv
  BY DEF Init, HealthInit, VerdictInv, Pcs

LEMMA NextVerdictInv == VerdictInv /\ [Next]_vars => VerdictInv'
<1> SUFFICES ASSUME VerdictInv, [Next]_vars PROVE VerdictInv'
  OBVIOUS
<1>1. ASSUME NEW q \in Requests, NEW p \in Paths, NEW m \in Mounts, Arrive(q, p, m) PROVE VerdictInv'
  BY <1>1 DEF Arrive, Goto, VerdictInv, Pcs, healthVars
<1>2. ASSUME NEW q \in Requests, Checks(q) PROVE VerdictInv'
  <2>1. /\ ending' \in [Requests -> [Checkers -> Endings \cup {"none", "running"}]]
        /\ \A c \in Checkers : ending'[q][c] = "running"
        /\ \A p \in Requests : p # q => ending'[p] = ending[p]
    BY <1>2 DEF Checks, HealthCall, VerdictInv
  <2> QED BY <1>2, <2>1 DEF Checks, HealthCall, Goto, VerdictInv, Pcs
<1>3. ASSUME NEW q \in Requests, Answer(q) PROVE VerdictInv'
  <2>1. /\ spc[q] = "checks"
        /\ spc' \in [Requests -> Pcs] /\ spc'[q] \in {"count", "served"}
        /\ \A p \in Requests : p # q => spc'[p] = spc[p]
    BY <1>3 DEF Answer, AfterNext, Goto, VerdictInv, Pcs
  <2>2. \A c \in Checkers : ending[q][c] \in Endings
    BY <1>3, <2>1 DEF Answer, HealthAnswer, AllDone, VerdictInv
  <2>3. /\ answer' \in [Requests -> {"none", "200", "503"}]
        /\ answer'[q] = "200" => \A c \in Checkers : ending[q][c] = "ok"
        /\ answer'[q] = "503" => \E c \in Checkers : ending[q][c] # "ok"
        /\ \A p \in Requests : p # q => answer'[p] = answer[p]
    BY <1>3 DEF Answer, HealthAnswer, Passes, VerdictInv
  <2> QED BY <1>3, <2>1, <2>2, <2>3 DEF Answer, HealthAnswer, VerdictInv
<1>4. ASSUME NEW q \in Requests, WorkEnds(q) \/ Count(q) \/ Leave(q) PROVE VerdictInv'
  <2>1. /\ spc' \in [Requests -> Pcs] /\ spc'[q] \in {"count", "leave", "served"}
        /\ \A p \in Requests : p # q => spc'[p] = spc[p]
    BY <1>4 DEF WorkEnds, Count, Leave, AfterNext, AfterPanic, Goto, VerdictInv, Pcs
  <2> QED BY <1>4, <2>1 DEF WorkEnds, Count, Leave, VerdictInv, healthVars
<1>5. ASSUME NEW q \in Requests, NEW c \in Checkers, Check(q, c) PROVE VerdictInv'
  <2>1. PICK how \in Endings : CheckReturns(q, c, how)
    BY <1>5 DEF Check, CheckTimesOut, Endings
  <2>2. /\ ending[q][c] = "running" /\ ending' = [ending EXCEPT ![q][c] = how]
        /\ UNCHANGED <<answer, spc>>
    BY <1>5, <2>1 DEF Check, CheckReturns
  <2>3. answer[q] = "none"
    BY <2>2 DEF VerdictInv, Endings
  <2>4. /\ ending' \in [Requests -> [Checkers -> Endings \cup {"none", "running"}]]
        /\ \A d \in Checkers : ending'[q][d] = ending[q][d] \/ ending'[q][d] = how
        /\ \A p \in Requests : p # q => ending'[p] = ending[p]
    BY <2>2 DEF VerdictInv
  <2>5. how # "none"
    BY DEF Endings
  <2> QED BY <2>2, <2>3, <2>4, <2>5 DEF VerdictInv
<1>6. ASSUME UNCHANGED <<healthVars, spc>> PROVE VerdictInv'
  BY <1>6 DEF VerdictInv, healthVars
<1> QED BY <1>1, <1>2, <1>3, <1>4, <1>5, <1>6 DEF Next, Serve, Mount, WorkGo, Background, vars

\* For every list of checkers: 200 only if every check of this request passed, 503
\* only if one failed, panicked or hit its deadline (health.go:79-116).
THEOREM VerdictSoundHolds == Spec => []VerdictSound
<1>1. VerdictInv => VerdictSound
  BY DEF VerdictInv, VerdictSound
<1> QED BY <1>1, InitVerdictInv, NextVerdictInv, PTL DEF Spec

----------------------------------------------------------------------------
(* Types.  A gauge and a WaitGroup that go down are naturals because of what *)
(* they count.                                                               *)

\* What is left of TypeOK: the counter and the variables nothing is proved about.
RestOK ==
    /\ deps \in [Requests -> [Names -> {"none", "ok", "error"}]]
    /\ total \in [Mounts -> Nat]
    /\ path \in [Requests -> Paths \cup {"none"}]

LEMMA NextRestOK == RestOK /\ GaugeInv /\ [Next]_vars => RestOK'
<1> SUFFICES ASSUME RestOK, GaugeInv, [Next]_vars PROVE RestOK'
  OBVIOUS
<1>1. ASSUME NEW q \in Requests, Answer(q) PROVE RestOK'
  BY <1>1 DEF Answer, HealthAnswer, RestOK, redVars
<1>2. ASSUME NEW q \in Requests, Count(q) PROVE RestOK'
  <2>1. via[q] \in Mounts /\ collectors[via[q]] \in Mounts
    BY <1>2 DEF Count, GaugeInv
  <2>2. total' \in [Mounts -> Nat]
    BY <1>2, <2>1 DEF Count, RedCount, RestOK
  <2> QED BY <1>2, <2>2 DEF Count, RestOK, healthVars
<1>3. ASSUME NEW q \in Requests, NEW p \in Paths, NEW m \in Mounts, Arrive(q, p, m) PROVE RestOK'
  BY <1>3 DEF Arrive, RedEnter, RestOK, healthVars, redVars
<1>4. CASE UNCHANGED <<deps, total, path>>
  BY <1>4 DEF RestOK
<1> QED
  BY <1>1, <1>2, <1>3, <1>4 DEF Next, vars, Mount, RedMount, Serve, Checks, HealthCall, WorkEnds, Leave,
     RedLeave, WorkGo, Check, CheckReturns, CheckTimesOut, Background, healthVars, redVars

\* For every instance the variables keep their types; the gauge and the WaitGroup
\* never go below zero.
THEOREM TypeCorrect == Spec => []TypeOK
<1>1. Init => RestOK
  BY DEF Init, HealthInit, RedInit, RestOK
<1>2. GaugeInv /\ JobInv /\ VerdictInv /\ RestOK => TypeOK
  BY UnderWayFinite DEF GaugeInv, JobInv, VerdictInv, RestOK, TypeOK, HealthTypeOK, RedTypeOK, RunnerTypeOK, Pcs
<1> QED
  BY <1>1, <1>2, NextRestOK, InitGaugeInv, NextGaugeInv, InitJobInv, NextJobInv,
     InitVerdictInv, NextVerdictInv, PTL DEF Spec
=============================================================================
