--------------------------- MODULE SyncableCache ---------------------------
(***************************************************************************)
(* The periodically synchronised cache, src/cache/syncable_cache.go.       *)
(*                                                                         *)
(* A starter is one Start call and, if its first sync succeeds, the        *)
(* goroutine it leaves behind; a syncer is a caller of Sync.  The data     *)
(* source is external: its content is a version number that grows.  A      *)
(* fetch reads the source in one step and comes back with that version     *)
(* some steps later, or with an error.  Start calls do not overlap.        *)
(***************************************************************************)
EXTENDS Naturals, FiniteSets

CONSTANTS
    Starters,       \* Start calls
    Syncers,        \* goroutines that call Sync
    MaxRetries,     \* SyncableCacheConfig.MaxRetries, after the default is applied
    MaxVersion      \* bound: the last version of the source

Procs == Starters \cup Syncers
NoContext == "no context"

ASSUME CacheAssumption ==
    /\ Starters \cap Syncers = {}
    /\ NoContext \notin Starters
    /\ MaxRetries \in Nat \ {0}
    /\ MaxVersion \in Nat \ {0}

VARIABLES
    source,     \* version of the data source, from 1
    cache,      \* version the cache holds; 0 is the zero value of T
    field,      \* sc.ctx and sc.cancel, named by the Start call that set them
    dead,       \* contexts that have been cancelled
    stopped,    \* the sync.Once of Stop is used up
    pc,         \* [Procs -> program counter]
    looping,    \* starters whose periodic goroutine was spawned
    attempt,    \* [Procs -> attempt number of the running sync]
    data,       \* [Procs -> what its syncFunc call returned]
    since       \* [Procs -> what the cache held when the running sync began];
                \* a history variable, no step reads it

procVars == <<pc, looping, attempt, data, since>>
vars == <<source, cache, field, dead, stopped, procVars>>

Versions == 0..MaxVersion

TypeOK ==
    /\ source \in 1..MaxVersion
    /\ cache \in Versions
    /\ field \in Starters \cup {NoContext}
    /\ dead \subseteq Starters
    /\ stopped \in BOOLEAN
    /\ pc \in [Procs -> {"idle", "fetch", "store", "wait", "ended", "failed"}]
    /\ looping \subseteq Starters
    /\ attempt \in [Procs -> 0..(MaxRetries - 1)]
    /\ data \in [Procs -> Versions]
    /\ since \in [Procs -> Versions]

Init ==
    /\ source = 1
    /\ cache = 0
    /\ field = NoContext
    /\ dead = {}
    /\ stopped = FALSE
    /\ pc = [p \in Procs |-> "idle"]
    /\ looping = {}
    /\ attempt = [p \in Procs |-> 0]
    /\ data = [p \in Procs |-> 0]
    /\ since = [p \in Procs |-> 0]

----------------------------------------------------------------------------
\* The data source changes.
SourceChanges ==
    /\ source < MaxVersion
    /\ source' = source + 1
    /\ UNCHANGED <<cache, field, dead, stopped, procVars>>

BeginSync(p) ==
    /\ pc' = [pc EXCEPT ![p] = "fetch"]
    /\ attempt' = [attempt EXCEPT ![p] = 0]
    /\ since' = [since EXCEPT ![p] = cache]

\* The variables of the call go out of scope.
EndSync(p) ==
    /\ attempt' = [attempt EXCEPT ![p] = 0]
    /\ since' = [since EXCEPT ![p] = 0]

\* Start: a new context replaces the one in the struct, then the first sync.
Start(s) ==
    /\ pc[s] = "idle"
    /\ \A t \in Starters : pc[t] \in {"fetch", "store"} => t \in looping
    /\ field' = s
    /\ BeginSync(s)
    /\ UNCHANGED <<source, cache, dead, stopped, looping, data>>

\* Sync: a manual synchronisation.
Sync(p) ==
    /\ p \in Syncers
    /\ pc[p] = "idle"
    /\ BeginSync(p)
    /\ UNCHANGED <<source, cache, field, dead, stopped, looping, data>>

\* syncFunc reads the source and succeeds.  Remembered keeps the first answer, as
\* a data declared outside the loop and not read again.
Remembered(p) == IF data[p] = 0 THEN source ELSE data[p]
Fetched(p) == source

FetchOk(p) ==
    /\ pc[p] = "fetch"
    /\ data' = [data EXCEPT ![p] = Fetched(p)]
    /\ pc' = [pc EXCEPT ![p] = "store"]
    /\ UNCHANGED <<source, cache, field, dead, stopped, looping, attempt, since>>

\* Attempts are left after this one.
AttemptsLeft(p) == attempt[p] + 1 < MaxRetries

\* A retryable error with attempts left: sleep, then fetch again.
FetchRetry(p) ==
    /\ pc[p] = "fetch"
    /\ AttemptsLeft(p)
    /\ attempt' = [attempt EXCEPT ![p] = @ + 1]
    /\ UNCHANGED <<source, cache, field, dead, stopped, pc, looping, data, since>>

\* Where a sync that failed for good leaves its process: the goroutine goes on,
\* Sync returns the error, Start fails.  LoopGivesUp ends the goroutine.
LoopGivesUp(p) == IF p \in Syncers THEN "idle" ELSE "failed"
AfterError(p) == IF p \in Syncers THEN "idle" ELSE IF p \in looping THEN "wait" ELSE "failed"

\* A non-retryable error (a cancelled context is one) or the last attempt.  A
\* Start that fails cancels its context.
FetchFails(p) ==
    /\ pc[p] = "fetch"
    /\ pc' = [pc EXCEPT ![p] = AfterError(p)]
    /\ dead' = IF p \in Starters \ looping THEN dead \cup {field} ELSE dead
    /\ EndSync(p)
    /\ UNCHANGED <<source, cache, field, stopped, looping, data>>

\* The cache is overwritten under the lock; Start now spawns its goroutine.
Store(p) ==
    /\ pc[p] = "store"
    /\ cache' = data[p]
    /\ pc' = [pc EXCEPT ![p] = IF p \in Syncers THEN "idle" ELSE "wait"]
    /\ looping' = looping \cup ({p} \cap Starters)
    /\ EndSync(p)
    /\ UNCHANGED <<source, field, dead, stopped, data>>

\* case <-ticker.C
LoopTick(s) ==
    /\ pc[s] = "wait"
    /\ BeginSync(s)
    /\ UNCHANGED <<source, cache, field, dead, stopped, looping, data>>

\* case <-ctx.Done(): the context Start passed to the goroutine.  FieldDone asks
\* the one in the struct, which a later Start replaces.
FieldDone(s) == field \in dead
ContextDone(s) == s \in dead

LoopDone(s) ==
    /\ pc[s] = "wait"
    /\ ContextDone(s)
    /\ pc' = [pc EXCEPT ![s] = "ended"]
    /\ UNCHANGED <<source, cache, field, dead, stopped, looping, attempt, data, since>>

\* Stop, under the sync.Once: cancel the context in the struct, if there is one.
Stop ==
    /\ ~stopped
    /\ stopped' = TRUE
    /\ dead' = dead \cup ({field} \ {NoContext})
    /\ UNCHANGED <<source, cache, field, procVars>>

----------------------------------------------------------------------------
Syncing(p) == FetchOk(p) \/ FetchRetry(p) \/ FetchFails(p) \/ Store(p)

Next ==
    \/ SourceChanges \/ Stop
    \/ \E s \in Starters : Start(s) \/ LoopTick(s) \/ LoopDone(s)
    \/ \E p \in Procs : Sync(p) \/ Syncing(p)

Spec == Init /\ [][Next]_vars

\* The goroutines run and the tickers tick; a source that is asked again and
\* again answers; a select whose ctx.Done case stays ready takes it.
Fairness ==
    /\ \A p \in Procs : WF_vars(Syncing(p))
    /\ \A s \in Starters : SF_vars(FetchOk(s)) /\ SF_vars(LoopDone(s)) /\ WF_vars(LoopTick(s))

FairSpec == Spec /\ Fairness

----------------------------------------------------------------------------
(* Properties.                                                              *)

\* A goroutine that waits for its ticker means Get has data to return: Start
\* hands over to it only after a sync that succeeded ("Start blocks until initial
\* sync succeeds", docs/important-notes.md), and failed syncs keep the data.
ServesData == (\E s \in Starters : pc[s] = "wait") => cache # 0

\* A sync never takes the cache back to before what it held when the sync began:
\* overlapping syncs may store older data over newer, but only data of the time
\* they overlap, however long retries and backoff draw one of them out.
NeverBackBeforeStart == \A p \in Procs : pc[p] = "store" => since[p] <= data[p]

\* A running goroutine brings the cache to the source's last version and leaves
\* it there, in spite of errors, retries and manual syncs that overlap it and
\* overwrite newer data with older.
Converges ==
    \A s \in Starters :
        (source = MaxVersion /\ s \in looping) ~> ([](cache = MaxVersion) \/ pc[s] = "ended")

\* A goroutine whose context was cancelled, by Stop or by a Start that failed,
\* ends, although a later Start may have put another context in the struct.
CancelledLoopEnds == \A s \in Starters : s \in dead ~> (s \in looping => pc[s] = "ended")

\* "Stop gracefully stops the periodic sync process.  It can be called multiple
\* times safely" (cache.go:35-36).  Not kept, see README: a Stop that comes before
\* Start uses up the sync.Once.
StopEnds == stopped ~> \A s \in looping : pc[s] = "ended"
=============================================================================
