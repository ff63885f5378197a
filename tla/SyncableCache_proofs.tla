------------------------ MODULE SyncableCache_proofs ------------------------
(***************************************************************************)
(* Proofs about SyncableCache, for every set of starters and syncers and   *)
(* every number of retries: type correctness, that a running goroutine     *)
(* always has data to serve, and that no sync stores data older than what  *)
(* the cache held when it began.                                           *)
(*                                                                         *)
(* ServesData is not inductive: it speaks of the goroutines that wait at   *)
(* this moment, while one that is in the middle of a sync comes back to    *)
(* waiting without a store when the sync fails.  What holds in every step  *)
(* is that a goroutine was spawned only after a store (LoopsHaveData), and *)
(* that what a sync is about to store came from the source (FetchedData).  *)
(***************************************************************************)
EXTENDS SyncableCache, TLAPS

\* What a sync is about to store was read from the source.
FetchedData == \A p \in Procs : pc[p] = "store" => data[p] # 0

\* The first goroutine is spawned together with the first store.
LoopsHaveData == looping # {} => cache # 0

\* Only a spawned goroutine waits for its ticker.
WaitersLoop == \A s \in Starters : pc[s] = "wait" => s \in looping

\* Once a Start has begun there is a context in the struct to cancel.
StartedHasContext == \A s \in Starters : pc[s] # "idle" => field # NoContext

IInv == TypeOK /\ FetchedData /\ LoopsHaveData /\ WaitersLoop /\ StartedHasContext

USE DEF Procs, Versions

\* The initial state satisfies the invariant.
LEMMA InitIInv == Init => IInv
<1> SUFFICES ASSUME Init PROVE IInv
  OBVIOUS
<1>1. MaxRetries \in Nat \ {0} /\ MaxVersion \in Nat \ {0}
  BY CacheAssumption DEF CacheAssumption
<1>2. /\ source \in 1..MaxVersion
      /\ 0 \in 0..MaxVersion
      /\ 0 \in 0..(MaxRetries - 1)
  BY <1>1 DEF Init
<1>3. TypeOK
  BY <1>2 DEF Init, TypeOK
<1> QED
  BY <1>3 DEF Init, IInv, FetchedData, LoopsHaveData, WaitersLoop, StartedHasContext

\* What every step does to the program counters: a process that begins a sync
\* fetches, and the types of the variables it sets are kept; so do one that ends.
LEMMA BeginSyncTypes ==
  ASSUME TypeOK, NEW p \in Procs, BeginSync(p)
  PROVE  /\ pc' \in [Procs -> {"idle", "fetch", "store", "wait", "ended", "failed"}]
         /\ attempt' \in [Procs -> 0..(MaxRetries - 1)]
         /\ since' \in [Procs -> Versions]
         /\ pc'[p] = "fetch"
         /\ \A q \in Procs \ {p} : pc'[q] = pc[q]
<1>1. 0 \in 0..(MaxRetries - 1)
  BY CacheAssumption DEF CacheAssumption
<1> QED
  BY <1>1 DEF TypeOK, BeginSync

LEMMA EndSyncTypes ==
  ASSUME TypeOK, NEW p \in Procs, EndSync(p)
  PROVE  attempt' \in [Procs -> 0..(MaxRetries - 1)] /\ since' \in [Procs -> Versions]
<1>1. 0 \in 0..(MaxRetries - 1) /\ 0 \in 0..MaxVersion
  BY CacheAssumption DEF CacheAssumption
<1> QED
  BY <1>1 DEF TypeOK, EndSync

\* Every step keeps the invariant.
LEMMA NextIInv == IInv /\ [Next]_vars => IInv'
<1> SUFFICES ASSUME IInv, [Next]_vars PROVE IInv'
  OBVIOUS
<1> USE CacheAssumption DEF CacheAssumption
<1>t. TypeOK /\ FetchedData /\ LoopsHaveData /\ WaitersLoop /\ StartedHasContext
  BY DEF IInv
<1>1. CASE SourceChanges
  <2>1. UNCHANGED <<cache, field, dead, stopped, pc, looping, attempt, data, since>>
    BY <1>1 DEF SourceChanges, procVars
  <2>2. source' \in 1..MaxVersion
    BY <1>1, <1>t DEF SourceChanges, TypeOK
  <2> QED
    BY <2>1, <2>2, <1>t DEF IInv, TypeOK, FetchedData, LoopsHaveData, WaitersLoop,
       StartedHasContext
<1>2. CASE Stop
  <2>1. TypeOK'
    BY <1>2, <1>t DEF Stop, procVars, TypeOK
  <2>2. UNCHANGED <<cache, field, pc, looping, data>>
    BY <1>2 DEF Stop, procVars
  <2> QED
    BY <2>1, <2>2, <1>t DEF IInv, FetchedData, LoopsHaveData, WaitersLoop, StartedHasContext
<1>3. ASSUME NEW s \in Starters, Start(s) PROVE IInv'
  <2>1. BeginSync(s) /\ field' = s /\ UNCHANGED <<source, cache, dead, stopped, looping, data>>
    BY <1>3 DEF Start
  <2>2. TypeOK'
    BY <1>t, <2>1, BeginSyncTypes DEF TypeOK
  <2> QED
    BY <1>t, <2>1, <2>2, BeginSyncTypes DEF IInv, FetchedData, LoopsHaveData, WaitersLoop,
       StartedHasContext
<1>4. ASSUME NEW s \in Starters, LoopTick(s) PROVE IInv'
  <2>1. /\ BeginSync(s)
        /\ pc[s] = "wait"
        /\ UNCHANGED <<source, cache, field, dead, stopped, looping, data>>
    BY <1>4 DEF LoopTick
  <2>2. TypeOK'
    BY <1>t, <2>1, BeginSyncTypes DEF TypeOK
  <2> QED
    BY <1>t, <2>1, <2>2, BeginSyncTypes DEF IInv, FetchedData, LoopsHaveData, WaitersLoop,
       StartedHasContext
<1>5. ASSUME NEW s \in Starters, LoopDone(s) PROVE IInv'
  BY <1>5, <1>t DEF LoopDone, IInv, TypeOK, FetchedData, LoopsHaveData, WaitersLoop,
     StartedHasContext
<1>6. ASSUME NEW p \in Procs, Sync(p) PROVE IInv'
  <2>1. /\ BeginSync(p)
        /\ p \notin Starters
        /\ UNCHANGED <<source, cache, field, dead, stopped, looping, data>>
    BY <1>6 DEF Sync
  <2>2. TypeOK'
    BY <1>t, <2>1, BeginSyncTypes DEF TypeOK
  <2> QED
    BY <1>t, <2>1, <2>2, BeginSyncTypes DEF IInv, FetchedData, LoopsHaveData, WaitersLoop,
       StartedHasContext
<1>7. ASSUME NEW p \in Procs, FetchOk(p) PROVE IInv'
  <2>1. /\ pc' = [pc EXCEPT ![p] = "store"]
        /\ data' = [data EXCEPT ![p] = source]
        /\ UNCHANGED <<source, cache, field, dead, stopped, looping, attempt, since>>
        /\ pc[p] = "fetch"
    BY <1>7 DEF FetchOk, Fetched
  <2>2. source \in 0..MaxVersion /\ source # 0
    BY <1>t DEF TypeOK
  <2>3. TypeOK'
    BY <1>t, <2>1, <2>2 DEF TypeOK
  <2>4. FetchedData'
    BY <1>t, <2>1, <2>2 DEF TypeOK, FetchedData
  <2> QED
    BY <1>t, <2>1, <2>3, <2>4 DEF IInv, TypeOK, LoopsHaveData, WaitersLoop, StartedHasContext
<1>8. ASSUME NEW p \in Procs, FetchRetry(p) PROVE IInv'
  <2>1. /\ attempt' = [attempt EXCEPT ![p] = @ + 1]
        /\ UNCHANGED <<source, cache, field, dead, stopped, pc, looping, data, since>>
        /\ attempt[p] + 1 < MaxRetries
    BY <1>8 DEF FetchRetry, AttemptsLeft
  <2>2. attempt[p] + 1 \in 0..(MaxRetries - 1)
    BY <1>t, <2>1 DEF TypeOK
  <2>3. TypeOK'
    BY <1>t, <2>1, <2>2 DEF TypeOK
  <2> QED
    BY <1>t, <2>1, <2>3 DEF IInv, FetchedData, LoopsHaveData, WaitersLoop, StartedHasContext
<1>9. ASSUME NEW p \in Procs, FetchFails(p) PROVE IInv'
  <2>1. /\ pc[p] = "fetch"
        /\ pc' = [pc EXCEPT ![p] = AfterError(p)]
        /\ EndSync(p)
        /\ UNCHANGED <<source, cache, field, stopped, looping, data>>
    BY <1>9 DEF FetchFails
  <2>2. /\ AfterError(p) \in {"idle", "wait", "failed"}
        /\ p \in Starters => AfterError(p) # "idle"
        /\ p \in Starters /\ AfterError(p) = "wait" => p \in looping
    BY DEF AfterError
  <2>3. dead' \subseteq Starters
    <3>1. p \in Starters => field \in Starters
      BY <1>t, <2>1 DEF StartedHasContext, TypeOK
    <3> QED
      BY <1>9, <1>t, <3>1 DEF FetchFails, TypeOK
  <2>4. TypeOK'
    BY <1>t, <2>1, <2>2, <2>3, EndSyncTypes DEF TypeOK
  <2> QED
    BY <1>t, <2>1, <2>2, <2>4 DEF IInv, TypeOK, FetchedData, LoopsHaveData, WaitersLoop,
       StartedHasContext
<1>10. ASSUME NEW p \in Procs, Store(p) PROVE IInv'
  <2>1. /\ pc[p] = "store"
        /\ cache' = data[p]
        /\ data[p] # 0
        /\ looping' = looping \cup ({p} \cap Starters)
        /\ EndSync(p)
        /\ UNCHANGED <<source, field, dead, stopped, data>>
    BY <1>10, <1>t DEF Store, FetchedData
  <2>2. pc' = [pc EXCEPT ![p] = IF p \in Syncers THEN "idle" ELSE "wait"]
    BY <1>10 DEF Store
  <2>3. TypeOK'
    BY <1>t, <2>1, <2>2, EndSyncTypes DEF TypeOK
  <2> QED
    BY <1>t, <2>1, <2>2, <2>3 DEF IInv, TypeOK, FetchedData, LoopsHaveData, WaitersLoop,
       StartedHasContext
<1>11. CASE UNCHANGED vars
  BY <1>11, <1>t DEF vars, procVars, IInv, TypeOK, FetchedData, LoopsHaveData, WaitersLoop,
     StartedHasContext
<1> QED
  BY <1>1, <1>2, <1>3, <1>4, <1>5, <1>6, <1>7, <1>8, <1>9, <1>10, <1>11 DEF Next, Syncing

LEMMA InvariantHolds == Spec => []IInv
  BY InitIInv, NextIInv, PTL DEF Spec

\* Every variable keeps its type, and an attempt number stays below MaxRetries.
THEOREM TypeCorrect == Spec => []TypeOK
<1>1. IInv => TypeOK
  BY DEF IInv
<1> QED
  BY <1>1, InvariantHolds, PTL

\* A goroutine that waits for its ticker has data for Get to return, however
\* many Starts, Stops, failed syncs and manual syncs came before.
THEOREM ServesDataHolds == Spec => []ServesData
<1>1. IInv => ServesData
  BY DEF IInv, WaitersLoop, LoopsHaveData, ServesData
<1> QED
  BY <1>1, InvariantHolds, PTL

----------------------------------------------------------------------------
(* Nothing is older than what was found.                                    *)

\* Whatever the cache holds, a sync found or a fetch returned was in the source.
AgeInv ==
    /\ cache <= source
    /\ \A p \in Procs : since[p] <= source
    /\ \A p \in Procs : pc[p] = "store" => data[p] <= source
    /\ NeverBackBeforeStart

\* All of these are numbers.
LEMMA Ages ==
  ASSUME TypeOK
  PROVE  /\ source \in Nat /\ cache \in Nat
         /\ \A p \in Procs : since[p] \in Nat /\ data[p] \in Nat
<1>1. MaxVersion \in Nat
  BY CacheAssumption DEF CacheAssumption
<1> QED
  BY <1>1 DEF TypeOK

LEMMA AgeInvHolds == Spec => []AgeInv
<1>1. Init => AgeInv
  BY DEF Init, AgeInv, NeverBackBeforeStart
<1>2. ASSUME TypeOK, TypeOK', AgeInv, [Next]_vars PROVE AgeInv'
  <2> USE DEF AgeInv, NeverBackBeforeStart
  <2>n. /\ source \in Nat /\ cache \in Nat
        /\ \A p \in Procs : since[p] \in Nat /\ data[p] \in Nat
    BY <1>2, Ages
  <2>1. CASE SourceChanges
    <3>1. source' = source + 1 /\ UNCHANGED <<cache, pc, data, since>>
      BY <2>1 DEF SourceChanges, procVars
    <3> QED
      BY <1>2, <2>n, <3>1
  <2>2. ASSUME NEW p \in Procs, BeginSync(p), UNCHANGED <<source, cache, data>> PROVE AgeInv'
    <3>1. \A q \in Procs : /\ since'[q] = IF q = p THEN cache ELSE since[q]
                           /\ pc'[q] = IF q = p THEN "fetch" ELSE pc[q]
      BY <1>2, <2>2 DEF BeginSync, TypeOK
    <3> QED
      BY <1>2, <2>2, <3>1
  <2>3. ASSUME NEW p \in Procs, FetchOk(p) PROVE AgeInv'
    <3>1. \A q \in Procs : /\ data'[q] = IF q = p THEN source ELSE data[q]
                           /\ pc'[q] = IF q = p THEN "store" ELSE pc[q]
      BY <1>2, <2>3 DEF FetchOk, Fetched, TypeOK
    <3>2. UNCHANGED <<source, cache, since>>
      BY <2>3 DEF FetchOk
    <3> QED
      BY <1>2, <2>n, <3>1, <3>2
  <2>4. ASSUME NEW p \in Procs, FetchFails(p) \/ Store(p) PROVE AgeInv'
    <3>1. \A q \in Procs : since'[q] = IF q = p THEN 0 ELSE since[q]
      BY <1>2, <2>4 DEF FetchFails, Store, EndSync, TypeOK
    <3>2. \A q \in Procs : pc'[q] = "store" => q # p /\ pc[q] = "store"
      BY <1>2, <2>4 DEF FetchFails, AfterError, Store, TypeOK
    <3>3. UNCHANGED <<source, data>> /\ cache' \in {cache, data[p]}
          /\ (cache' = cache \/ pc[p] = "store")
      BY <2>4 DEF FetchFails, Store
    <3> QED
      BY <1>2, <2>n, <3>1, <3>2, <3>3
  <2>5. CASE Stop \/ (\E s \in Starters : LoopDone(s)) \/ (\E p \in Procs : FetchRetry(p)) \/ UNCHANGED vars
    <3>1. UNCHANGED <<source, cache, data, since>>
      BY <2>5 DEF Stop, LoopDone, FetchRetry, vars, procVars
    <3>2. \A q \in Procs : pc'[q] = "store" => pc[q] = "store"
      BY <1>2, <2>5 DEF Stop, LoopDone, FetchRetry, vars, procVars, TypeOK
    <3> QED
      BY <1>2, <3>1, <3>2
  <2>6. CASE (\E s \in Starters : Start(s) \/ LoopTick(s)) \/ (\E p \in Procs : Sync(p))
    BY <2>2, <2>6 DEF Start, LoopTick, Sync
  <2> QED
    BY <1>2, <2>1, <2>3, <2>4, <2>5, <2>6 DEF Next, Syncing
<1> QED
  BY <1>1, <1>2, TypeCorrect, PTL DEF Spec

\* No sync stores data older than what the cache held when the sync began, however
\* many syncs overlap it and however often it retries.
THEOREM NeverBackBeforeStartHolds == Spec => []NeverBackBeforeStart
<1>1. AgeInv => NeverBackBeforeStart
  BY DEF AgeInv
<1> QED
  BY <1>1, AgeInvHolds, PTL
=============================================================================
