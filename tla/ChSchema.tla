------------------------------ MODULE ChSchema ------------------------------
(***************************************************************************)
(* The writer's cache of table columns, src/ch/writer.go: batchInsert      *)
(* takes the columns of a table from the cache, refreshes them and tries   *)
(* once more when ClickHouse rejects them; the refresh loop and callers of *)
(* RefreshTableSchema overwrite the cache at the same time.                *)
(*                                                                         *)
(* The columns of a table are the version of its schema they describe.     *)
(* ClickHouse is external: it changes a schema, answers DESCRIBE with the  *)
(* version of that moment, with an error or, if the row stream breaks,     *)
(* with a truncated list the code takes for complete (rows.Err is not      *)
(* read).  Columns that are not those of the moment are rejected, unless   *)
(* they happen to fit: values are sent by position.                        *)
(***************************************************************************)
EXTENDS Integers

CONSTANTS
    Tables,         \* table names
    Callers,        \* goroutines that call RefreshTableSchema
    Flusher,        \* the process loop, inside batchInsert
    Ticker,         \* the schema refresh loop
    MaxVersion      \* bound: the last schema version of a table

Refreshers == Callers \cup {Flusher, Ticker}
Absent == -1
Truncated == 0
Columns == 0..MaxVersion
NoTable == "no table"

ASSUME SchemaAssumption ==
    /\ Flusher # Ticker
    /\ Callers \cap {Flusher, Ticker} = {}
    /\ MaxVersion \in Nat \ {0}
    /\ NoTable \notin Tables

VARIABLES
    server,     \* [Tables -> schema version in ClickHouse]
    cached,     \* the tableColumns map; Absent: no entry
    mu,         \* columnsMu is write-locked (by getTableColumns, during its fetch)
    rpc,        \* [Refreshers -> program counter inside RefreshTableSchema]
    rtab,       \* [Refreshers -> the table being refreshed]
    rcols,      \* [Refreshers -> the columns fetched, not yet stored]
    todo,       \* tables the refresh loop has still to refresh
    ipc,        \* program counter of batchInsert
    itab,       \* its table
    icols,      \* the columns getTableColumns returned
    tries,      \* calls of doBatchInsert begun by this batchInsert
    floor       \* [Tables -> version the callers' completed refreshes stored]

refreshVars == <<rpc, rtab, rcols, todo>>
insertVars == <<ipc, itab, icols, tries>>
vars == <<server, cached, mu, refreshVars, insertVars, floor>>

TypeOK ==
    /\ server \in [Tables -> 1..MaxVersion]
    /\ cached \in [Tables -> Columns \cup {Absent}]
    /\ mu \in BOOLEAN
    /\ rpc \in [Refreshers -> {"idle", "fetch", "store"}]
    /\ rtab \in [Refreshers -> Tables \cup {NoTable}]
    /\ rcols \in [Refreshers -> Columns]
    /\ todo \subseteq Tables
    /\ ipc \in {"idle", "columns", "lock", "fetch", "send", "refresh"}
    /\ itab \in Tables \cup {NoTable}
    /\ icols \in Columns
    /\ tries \in 0..2
    /\ floor \in [Tables -> Columns]

Init ==
    /\ server = [t \in Tables |-> 1]
    /\ cached = [t \in Tables |-> Absent]
    /\ mu = FALSE
    /\ rpc = [p \in Refreshers |-> "idle"]
    /\ rtab = [p \in Refreshers |-> NoTable]
    /\ rcols = [p \in Refreshers |-> Truncated]
    /\ todo = {}
    /\ ipc = "idle"
    /\ itab = NoTable
    /\ icols = Truncated
    /\ tries = 0
    /\ floor = [t \in Tables |-> Truncated]

\* What DESCRIBE TABLE may be taken to say.
Described(t) == {server[t], Truncated}

----------------------------------------------------------------------------
Alter(t) ==
    /\ server[t] < MaxVersion
    /\ server' = [server EXCEPT ![t] = @ + 1]
    /\ UNCHANGED <<cached, mu, refreshVars, insertVars, floor>>

----------------------------------------------------------------------------
(* RefreshTableSchema: fetch without the lock, overwrite under it.          *)

BeginRefresh(p, t) ==
    /\ rpc' = [rpc EXCEPT ![p] = "fetch"]
    /\ rtab' = [rtab EXCEPT ![p] = t]

CallRefresh(p, t) ==
    /\ p \in Callers
    /\ rpc[p] = "idle"
    /\ BeginRefresh(p, t)
    /\ UNCHANGED <<server, cached, mu, rcols, todo, insertVars, floor>>

RefreshFetch(p) ==
    /\ rpc[p] = "fetch"
    /\ \E c \in Described(rtab[p]) : rcols' = [rcols EXCEPT ![p] = c]
    /\ rpc' = [rpc EXCEPT ![p] = "store"]
    /\ UNCHANGED <<server, cached, mu, rtab, todo, insertVars, floor>>

EndRefresh(p) ==
    /\ rpc' = [rpc EXCEPT ![p] = "idle"]
    /\ rtab' = [rtab EXCEPT ![p] = NoTable]
    /\ rcols' = [rcols EXCEPT ![p] = Truncated]

\* The flusher goes on with the second doBatchInsert.
RefreshStore(p) ==
    /\ rpc[p] = "store"
    /\ ~mu
    /\ cached' = [cached EXCEPT ![rtab[p]] = rcols[p]]
    /\ EndRefresh(p)
    /\ floor' = IF p \in Callers /\ rcols[p] > floor[rtab[p]]
                THEN [floor EXCEPT ![rtab[p]] = rcols[p]] ELSE floor
    /\ IF p = Flusher THEN ipc' = "columns" /\ tries' = tries + 1 ELSE UNCHANGED <<ipc, tries>>
    /\ UNCHANGED <<server, mu, todo, itab, icols>>

\* batchInsert and its local variables end.
InsertReturns ==
    /\ ipc' = "idle"
    /\ itab' = NoTable
    /\ icols' = Truncated
    /\ tries' = 0

\* DESCRIBE fails: the cache keeps its entry; batchInsert returns its first error.
RefreshFails(p) ==
    /\ rpc[p] = "fetch"
    /\ EndRefresh(p)
    /\ IF p = Flusher THEN InsertReturns ELSE UNCHANGED insertVars
    /\ UNCHANGED <<server, cached, mu, todo, floor>>

\* refreshAllTableSchemas: list the cached tables, then refresh each.  ListedNew
\* is a loop that skips what the cache holds.
ListedNew == {t \in Tables : cached[t] = Absent}
Listed == {t \in Tables : cached[t] # Absent}

RefreshAll ==
    /\ rpc[Ticker] = "idle"
    /\ todo = {}
    /\ ~mu
    /\ todo' = Listed
    /\ UNCHANGED <<server, cached, mu, rpc, rtab, rcols, insertVars, floor>>

RefreshNext(t) ==
    /\ rpc[Ticker] = "idle"
    /\ t \in todo
    /\ todo' = todo \ {t}
    /\ BeginRefresh(Ticker, t)
    /\ UNCHANGED <<server, cached, mu, rcols, insertVars, floor>>

----------------------------------------------------------------------------
(* batchInsert and getTableColumns.                                         *)

BatchInsert(t) ==
    /\ ipc = "idle"
    /\ ipc' = "columns"
    /\ itab' = t
    /\ tries' = 1
    /\ UNCHANGED <<server, cached, mu, refreshVars, icols, floor>>

\* Cache hit under the read lock; or a miss, and the write lock is next.
LookUp ==
    /\ ipc = "columns"
    /\ ~mu
    /\ IF cached[itab] # Absent
       THEN icols' = cached[itab] /\ ipc' = "send"
       ELSE ipc' = "lock" /\ UNCHANGED icols
    /\ UNCHANGED <<server, cached, mu, refreshVars, itab, tries, floor>>

\* The lock is taken and the double check made: a hit releases it again.
Lock ==
    /\ ipc = "lock"
    /\ ~mu
    /\ IF cached[itab] # Absent
       THEN icols' = cached[itab] /\ ipc' = "send" /\ UNCHANGED mu
       ELSE mu' = TRUE /\ ipc' = "fetch" /\ UNCHANGED icols
    /\ UNCHANGED <<server, cached, refreshVars, itab, tries, floor>>

FetchUnderLock ==
    /\ ipc = "fetch"
    /\ \E c \in Described(itab) :
          /\ cached' = [cached EXCEPT ![itab] = c]
          /\ icols' = c
    /\ mu' = FALSE
    /\ ipc' = "send"
    /\ UNCHANGED <<server, refreshVars, itab, tries, floor>>

\* columnsMu after a failed fetch.  StillLocked is a return without the defer.
StillLocked == TRUE
Unlocked == FALSE

FetchUnderLockFails ==
    /\ ipc = "fetch"
    /\ mu' = Unlocked
    /\ InsertReturns
    /\ UNCHANGED <<server, cached, refreshVars, floor>>

\* doBatchInsert ends, well or not, without a schema mismatch.
SendEnds ==
    /\ ipc = "send"
    /\ InsertReturns
    /\ UNCHANGED <<server, cached, mu, refreshVars, floor>>

\* A schema mismatch leads to a refresh.
MayRefresh == tries = 1

SendRejected ==
    /\ ipc = "send"
    /\ icols # server[itab]
    /\ IF MayRefresh
       THEN BeginRefresh(Flusher, itab) /\ ipc' = "refresh" /\ UNCHANGED <<itab, icols, tries>>
       ELSE InsertReturns /\ UNCHANGED <<rpc, rtab>>
    /\ UNCHANGED <<server, cached, mu, rcols, todo, floor>>

----------------------------------------------------------------------------
Refresh(p) == RefreshFetch(p) \/ RefreshStore(p) \/ RefreshFails(p)

Insert == LookUp \/ Lock \/ FetchUnderLock \/ FetchUnderLockFails \/ SendEnds \/ SendRejected

Next ==
    \/ \E t \in Tables : Alter(t) \/ RefreshNext(t) \/ BatchInsert(t)
    \/ \E p \in Callers, t \in Tables : CallRefresh(p, t)
    \/ \E p \in Refreshers : Refresh(p)
    \/ RefreshAll
    \/ Insert

Spec == Init /\ [][Next]_vars

\* The goroutines run, a waiting lock request is granted, the refresh ticker
\* fires, and a DESCRIBE of a table repeated for ever is answered in
\* full in the end.
Fairness ==
    /\ SF_vars(Insert)
    /\ SF_vars(Refresh(Flusher)) /\ SF_vars(Refresh(Ticker))
    /\ SF_vars(RefreshStore(Ticker))
    /\ SF_vars(RefreshAll)
    /\ \A t \in Tables : /\ WF_vars(RefreshNext(t))
                         /\ SF_vars(RefreshFetch(Ticker) /\ rtab[Ticker] = t /\ rcols'[Ticker] = server[t])

FairSpec == Spec /\ Fairness

----------------------------------------------------------------------------
(* Properties.                                                              *)

\* A batchInsert ends, with at most one refresh of its own, whoever else holds
\* the lock or refreshes (batchInsert's "retries once").
InsertEnds == ipc = "columns" ~> ipc = "idle"

\* The lock is held only across getTableColumns' own fetch, so nobody can find a
\* cache entry change between its double check and its store.
LockedWhileFetching ==
    /\ mu <=> ipc = "fetch"
    /\ mu => cached[itab] = Absent

\* The refresh loop brings the cache up to date after the last change, whatever
\* truncated answers, failures and stale stores came before.
CacheCatchesUp ==
    \A t \in Tables : (cached[t] # Absent /\ server[t] = MaxVersion) ~> cached[t] = MaxVersion

\* "call writer.RefreshTableSchema for immediate effect after DDL changes"
\* (docs/important-notes.md, ch/ch.go:20): not kept when another refresh that
\* fetched earlier stores later.  See README.
RefreshTakesEffect == \A t \in Tables : cached[t] > 0 => cached[t] >= floor[t]
=============================================================================
