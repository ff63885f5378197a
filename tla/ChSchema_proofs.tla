-------------------------- MODULE ChSchema_proofs --------------------------
(***************************************************************************)
(* Proofs about ChSchema, for any set of tables and of callers of          *)
(* RefreshTableSchema: type correctness, and that the lock of the columns  *)
(* map is held exactly while getTableColumns fetches an entry the map does *)
(* not have.                                                               *)
(*                                                                         *)
(* LockedWhileFetching needs to know that the flusher's own refresh is not *)
(* running beside a fetch under the lock: a refresh that ends sends it     *)
(* back to the columns, or out of batchInsert, and the lock would stay     *)
(* behind (FlusherRefreshes).                                              *)
(*                                                                         *)
(* The second part is about ChConverter: what batchInsert makes of         *)
(* a column it has from this cache and of the value a row gives, for any   *)
(* set of column types and of values closed under taking parts.            *)
(***************************************************************************)
EXTENDS ChSchema, ChConverter, SequenceTheorems, WellFoundedInduction, TLAPS

\* A refresh, and a batchInsert, is about a table.
HasTable ==
    /\ \A p \in Refreshers : rpc[p] # "idle" => rtab[p] \in Tables
    /\ ipc # "idle" => itab \in Tables

\* The flusher refreshes in exactly one place, after its first send.
FlusherRefreshes ==
    /\ rpc[Flusher] # "idle" <=> ipc = "refresh"
    /\ ipc = "refresh" => tries = 1

IInv == TypeOK /\ HasTable /\ FlusherRefreshes /\ LockedWhileFetching

\* The flusher and the refresh loop are two goroutines, and no callers.
LEMMA Roles ==
    /\ Flusher \in Refreshers /\ Ticker \in Refreshers /\ Flusher # Ticker
    /\ Callers \subseteq Refreshers /\ Flusher \notin Callers /\ Ticker \notin Callers
  BY SchemaAssumption DEF SchemaAssumption, Refreshers

\* The numbers that stand for columns.
LEMMA ColumnNumbers ==
    /\ 0 \in Columns
    /\ Truncated = 0
    /\ 1 \in 1..MaxVersion
    /\ \A v \in 1..MaxVersion : v \in Columns
    /\ \A c \in Columns : c # Absent
<1>1. MaxVersion \in Nat \ {0}
  BY SchemaAssumption DEF SchemaAssumption
<1> QED
  BY <1>1 DEF Columns, Truncated, Absent

\* The initial state satisfies the invariant.
LEMMA InitIInv == Init => IInv
<1> SUFFICES ASSUME Init PROVE IInv
  OBVIOUS
<1>1. Truncated \in Columns /\ 0 \in 0..2
  BY ColumnNumbers
<1>2. TypeOK
  BY <1>1, ColumnNumbers DEF Init, TypeOK
<1> QED
  BY <1>2, Roles DEF Init, IInv, HasTable, FlusherRefreshes, LockedWhileFetching

----------------------------------------------------------------------------
(* Refreshes.                                                               *)

\* A refresh begins, by a caller or by the loop: batchInsert is not concerned.
LEMMA BeginKeeps ==
  ASSUME IInv, NEW p \in Refreshers \ {Flusher}, NEW t \in Tables, BeginRefresh(p, t),
         UNCHANGED <<server, cached, mu, rcols, insertVars, floor>>,
         todo' \subseteq Tables
  PROVE  IInv'
<1>1. TypeOK'
  BY DEF BeginRefresh, IInv, TypeOK, insertVars
<1>2. rpc'[Flusher] = rpc[Flusher]
  BY Roles DEF BeginRefresh, IInv, TypeOK
<1>3. HasTable'
  BY DEF BeginRefresh, IInv, TypeOK, HasTable, insertVars
<1> QED
  BY <1>1, <1>2, <1>3 DEF IInv, FlusherRefreshes, LockedWhileFetching, insertVars

LEMMA FetchKeeps ==
  ASSUME IInv, NEW p \in Refreshers, RefreshFetch(p)
  PROVE  IInv'
<1>1. PICK c \in Described(rtab[p]) : rcols' = [rcols EXCEPT ![p] = c]
  BY DEF RefreshFetch
<1>2. /\ rpc[p] = "fetch"
      /\ rpc' = [rpc EXCEPT ![p] = "store"]
      /\ UNCHANGED <<server, cached, mu, rtab, todo, ipc, itab, icols, tries, floor>>
  BY DEF RefreshFetch, insertVars
<1>3. c \in Columns
  <2>1. rtab[p] \in Tables
    BY <1>2 DEF IInv, HasTable
  <2> QED
    BY <1>1, <2>1, ColumnNumbers DEF Described, IInv, TypeOK
<1>4. TypeOK'
  BY <1>1, <1>2, <1>3 DEF IInv, TypeOK
<1>5. \A q \in Refreshers : rpc'[q] # "idle" <=> rpc[q] # "idle"
  BY <1>2 DEF IInv, TypeOK
<1> QED
  BY <1>2, <1>4, <1>5, Roles DEF IInv, HasTable, FlusherRefreshes, LockedWhileFetching

\* What the end of a refresh does to the refreshers' variables.
LEMMA EndRefreshTypes ==
  ASSUME TypeOK, NEW p \in Refreshers, EndRefresh(p)
  PROVE  /\ rpc' \in [Refreshers -> {"idle", "fetch", "store"}]
         /\ rtab' \in [Refreshers -> Tables \cup {NoTable}]
         /\ rcols' \in [Refreshers -> Columns]
         /\ rpc'[p] = "idle"
         /\ \A q \in Refreshers \ {p} : rpc'[q] = rpc[q] /\ rtab'[q] = rtab[q]
  BY ColumnNumbers DEF EndRefresh, TypeOK

LEMMA StoreKeeps ==
  ASSUME IInv, NEW p \in Refreshers, RefreshStore(p)
  PROVE  IInv'
<1>1. /\ rpc[p] = "store" /\ ~mu
      /\ cached' = [cached EXCEPT ![rtab[p]] = rcols[p]]
      /\ EndRefresh(p)
      /\ UNCHANGED <<server, mu, todo, itab, icols>>
  BY DEF RefreshStore
<1>2. rtab[p] \in Tables /\ rcols[p] \in Columns
  BY <1>1 DEF IInv, HasTable, TypeOK
<1>3. cached' \in [Tables -> Columns \cup {Absent}] /\ floor' \in [Tables -> Columns]
  BY <1>1, <1>2 DEF RefreshStore, IInv, TypeOK
<1>4. CASE p = Flusher
  <2>1. ipc' = "columns" /\ tries' = tries + 1
    BY <1>4 DEF RefreshStore
  <2>2. ipc = "refresh" /\ tries = 1
    BY <1>1, <1>4 DEF IInv, FlusherRefreshes
  <2>3. tries' \in 0..2
    BY <2>1, <2>2
  <2>4. TypeOK'
    BY <1>1, <1>3, <2>1, <2>3, EndRefreshTypes DEF IInv, TypeOK
  <2>5. HasTable'
    BY <1>1, <2>2, EndRefreshTypes DEF IInv, HasTable
  <2> QED
    BY <1>1, <1>4, <2>1, <2>4, <2>5, EndRefreshTypes DEF IInv, FlusherRefreshes,
       LockedWhileFetching
<1>5. CASE p # Flusher
  <2>1. UNCHANGED <<ipc, tries>>
    BY <1>5 DEF RefreshStore
  <2>2. TypeOK'
    BY <1>1, <1>3, <2>1, EndRefreshTypes DEF IInv, TypeOK
  <2>3. HasTable'
    BY <1>1, <2>1, EndRefreshTypes DEF IInv, HasTable
  <2>4. rpc'[Flusher] = rpc[Flusher]
    BY <1>1, <1>5, EndRefreshTypes, Roles DEF IInv
  <2> QED
    BY <1>1, <2>1, <2>2, <2>3, <2>4 DEF IInv, FlusherRefreshes, LockedWhileFetching
<1> QED
  BY <1>4, <1>5

\* The type of batchInsert's variables when it returns.
LEMMA ReturnTypes ==
  ASSUME InsertReturns
  PROVE  ipc' = "idle" /\ itab' = NoTable /\ icols' \in Columns /\ tries' \in 0..2
<1>1. icols' = 0 /\ tries' = 0
  BY ColumnNumbers DEF InsertReturns
<1>2. 0 \in 0..2
  OBVIOUS
<1> QED
  BY <1>1, <1>2, ColumnNumbers DEF InsertReturns

LEMMA RefreshFailsKeeps ==
  ASSUME IInv, NEW p \in Refreshers, RefreshFails(p)
  PROVE  IInv'
<1>1. /\ rpc[p] = "fetch"
      /\ EndRefresh(p)
      /\ UNCHANGED <<server, cached, mu, todo, floor>>
  BY DEF RefreshFails
<1>2. CASE p = Flusher
  <2>1. InsertReturns
    BY <1>2 DEF RefreshFails
  <2>2. ipc = "refresh"
    BY <1>1, <1>2 DEF IInv, FlusherRefreshes
  <2>3. TypeOK'
    BY <1>1, <2>1, ReturnTypes, EndRefreshTypes DEF IInv, TypeOK
  <2>4. HasTable'
    BY <1>1, <2>1, ReturnTypes, EndRefreshTypes DEF IInv, HasTable
  <2> QED
    BY <1>1, <1>2, <2>1, <2>2, <2>3, <2>4, ReturnTypes, EndRefreshTypes
       DEF IInv, FlusherRefreshes, LockedWhileFetching
<1>3. CASE p # Flusher
  <2>1. UNCHANGED <<ipc, itab, icols, tries>>
    BY <1>3 DEF RefreshFails, insertVars
  <2>2. TypeOK'
    BY <1>1, <2>1, EndRefreshTypes DEF IInv, TypeOK
  <2>3. HasTable'
    BY <1>1, <2>1, EndRefreshTypes DEF IInv, HasTable
  <2>4. rpc'[Flusher] = rpc[Flusher]
    BY <1>1, <1>3, EndRefreshTypes, Roles DEF IInv
  <2> QED
    BY <1>1, <2>1, <2>2, <2>3, <2>4 DEF IInv, FlusherRefreshes, LockedWhileFetching
<1> QED
  BY <1>2, <1>3

----------------------------------------------------------------------------
(* batchInsert and getTableColumns.                                         *)

\* A step of batchInsert that leaves every refresh alone and ends outside one.
LEMMA InsertKeeps ==
  ASSUME IInv, UNCHANGED <<server, refreshVars, floor>>,
         cached' \in [Tables -> Columns \cup {Absent}],
         ipc # "refresh",
         ipc' \in {"idle", "columns", "lock", "fetch", "send"},
         itab' \in Tables \cup {NoTable},
         ipc' # "idle" => itab' \in Tables,
         icols' \in Columns,
         tries' \in 0..2,
         mu' \in BOOLEAN,
         LockedWhileFetching'
  PROVE  IInv'
<1>1. TypeOK'
  BY DEF IInv, TypeOK, refreshVars
<1>2. HasTable'
  BY DEF IInv, HasTable, refreshVars
<1>3. FlusherRefreshes'
  BY DEF IInv, FlusherRefreshes, refreshVars
<1> QED
  BY <1>1, <1>2, <1>3 DEF IInv

\* Every step of the flusher keeps the invariant.
LEMMA InsertStepKeeps ==
  ASSUME IInv, Insert
  PROVE  IInv'
<1> USE DEF IInv
<1>0. ASSUME ipc # "idle" PROVE itab \in Tables /\ cached[itab] \in Columns \cup {Absent}
  BY <1>0 DEF HasTable, TypeOK
<1>1. CASE LookUp
  <2>1. cached[itab] # Absent => cached[itab] \in Columns
    BY <1>0, <1>1 DEF LookUp
  <2>2. /\ ipc = "columns" /\ ~mu
        /\ UNCHANGED <<server, cached, mu, refreshVars, itab, tries, floor>>
        /\ ipc' \in {"send", "lock"}
        /\ icols' \in Columns
    BY <1>1, <2>1 DEF LookUp, TypeOK
  <2>3. LockedWhileFetching'
    BY <2>2 DEF LockedWhileFetching
  <2> QED
    BY <1>0, <2>2, <2>3, InsertKeeps DEF TypeOK
<1>2. CASE Lock
  <2>1. cached[itab] # Absent => cached[itab] \in Columns
    BY <1>0, <1>2 DEF Lock
  <2>2. /\ ipc = "lock" /\ ~mu
        /\ UNCHANGED <<server, cached, refreshVars, itab, tries, floor>>
        /\ ipc' \in {"send", "fetch"}
        /\ icols' \in Columns
        /\ mu' \in BOOLEAN
    BY <1>2, <2>1 DEF Lock, TypeOK
  <2>3. LockedWhileFetching'
    BY <1>2 DEF Lock, LockedWhileFetching
  <2> QED
    BY <1>0, <2>2, <2>3, InsertKeeps DEF TypeOK
<1>3. CASE FetchUnderLock
  <2>1. PICK c \in Described(itab) :
            cached' = [cached EXCEPT ![itab] = c] /\ icols' = c
    BY <1>3 DEF FetchUnderLock
  <2>2. /\ ipc = "fetch" /\ ipc' = "send" /\ mu' = FALSE
        /\ UNCHANGED <<server, refreshVars, itab, tries, floor>>
    BY <1>3 DEF FetchUnderLock
  <2>3. c \in Columns
    BY <1>0, <2>1, <2>2, ColumnNumbers DEF Described, TypeOK
  <2>4. cached' \in [Tables -> Columns \cup {Absent}]
    BY <2>1, <2>3 DEF TypeOK
  <2>5. LockedWhileFetching'
    BY <2>2 DEF LockedWhileFetching
  <2> QED
    BY <1>0, <2>1, <2>2, <2>3, <2>4, <2>5, InsertKeeps DEF TypeOK
<1>4. CASE FetchUnderLockFails
  <2>1. /\ ipc = "fetch" /\ mu' = FALSE /\ InsertReturns
        /\ UNCHANGED <<server, cached, refreshVars, floor>>
    BY <1>4 DEF FetchUnderLockFails, Unlocked
  <2>2. LockedWhileFetching'
    BY <2>1, ReturnTypes DEF LockedWhileFetching
  <2> QED
    BY <2>1, <2>2, ReturnTypes, InsertKeeps DEF TypeOK
<1>5. CASE SendEnds
  <2>1. /\ ipc = "send" /\ InsertReturns
        /\ UNCHANGED <<server, cached, mu, refreshVars, floor>>
    BY <1>5 DEF SendEnds
  <2>2. LockedWhileFetching'
    BY <2>1, ReturnTypes DEF LockedWhileFetching
  <2> QED
    BY <2>1, <2>2, ReturnTypes, InsertKeeps DEF TypeOK
<1>6. CASE SendRejected /\ MayRefresh
  <2>1. /\ ipc = "send" /\ tries = 1
        /\ BeginRefresh(Flusher, itab) /\ ipc' = "refresh"
        /\ UNCHANGED <<server, cached, mu, rcols, todo, floor, itab, icols, tries>>
    BY <1>6 DEF SendRejected, MayRefresh
  <2>2. itab \in Tables
    BY <1>0, <2>1
  <2>3. /\ rpc' \in [Refreshers -> {"idle", "fetch", "store"}]
        /\ rtab' \in [Refreshers -> Tables \cup {NoTable}]
        /\ rpc'[Flusher] = "fetch" /\ rtab'[Flusher] = itab
        /\ \A q \in Refreshers \ {Flusher} : rpc'[q] = rpc[q] /\ rtab'[q] = rtab[q]
    BY <2>1, <2>2, Roles DEF BeginRefresh, TypeOK
  <2>4. TypeOK'
    BY <2>1, <2>3 DEF TypeOK
  <2> QED
    BY <2>1, <2>2, <2>3, <2>4 DEF HasTable, FlusherRefreshes, LockedWhileFetching
<1>7. CASE SendRejected /\ ~MayRefresh
  <2>1. /\ ipc = "send" /\ InsertReturns
        /\ UNCHANGED <<server, cached, mu, refreshVars, floor>>
    BY <1>7 DEF SendRejected, refreshVars
  <2>2. LockedWhileFetching'
    BY <2>1, ReturnTypes DEF LockedWhileFetching
  <2> QED
    BY <2>1, <2>2, ReturnTypes, InsertKeeps DEF TypeOK
<1> QED
  BY <1>1, <1>2, <1>3, <1>4, <1>5, <1>6, <1>7 DEF Insert

----------------------------------------------------------------------------
(* Every step, and the theorems.                                            *)

LEMMA NextIInv == IInv /\ [Next]_vars => IInv'
<1> SUFFICES ASSUME IInv, [Next]_vars PROVE IInv'
  OBVIOUS
<1>1. ASSUME NEW t \in Tables, Alter(t) PROVE IInv'
  <2>1. server' \in [Tables -> 1..MaxVersion]
    <3>1. server[t] + 1 \in 1..MaxVersion
      <4>1. MaxVersion \in Nat
        BY SchemaAssumption DEF SchemaAssumption
      <4> QED
        BY <1>1, <4>1 DEF Alter, IInv, TypeOK
    <3> QED
      BY <1>1, <3>1 DEF Alter, IInv, TypeOK
  <2> QED
    BY <1>1, <2>1 DEF Alter, refreshVars, insertVars, IInv, TypeOK, HasTable, FlusherRefreshes,
       LockedWhileFetching
<1>2. ASSUME NEW t \in Tables, RefreshNext(t) PROVE IInv'
  <2>1. /\ BeginRefresh(Ticker, t)
        /\ UNCHANGED <<server, cached, mu, rcols, insertVars, floor>>
        /\ todo' \subseteq Tables
    BY <1>2 DEF RefreshNext, IInv, TypeOK
  <2> QED
    BY <2>1, Roles, BeginKeeps
<1>3. ASSUME NEW t \in Tables, BatchInsert(t) PROVE IInv'
  <2>1. /\ ipc = "idle" /\ ipc' = "columns" /\ itab' = t /\ tries' = 1
        /\ UNCHANGED <<server, cached, mu, refreshVars, icols, floor>>
    BY <1>3 DEF BatchInsert
  <2>2. 1 \in 0..2
    OBVIOUS
  <2>3. LockedWhileFetching'
    BY <2>1 DEF IInv, LockedWhileFetching
  <2> QED
    BY <2>1, <2>2, <2>3, InsertKeeps DEF IInv, TypeOK
<1>4. ASSUME NEW p \in Callers, NEW t \in Tables, CallRefresh(p, t) PROVE IInv'
  <2>1. /\ BeginRefresh(p, t)
        /\ UNCHANGED <<server, cached, mu, rcols, insertVars, floor>>
        /\ todo' \subseteq Tables
    BY <1>4 DEF CallRefresh, IInv, TypeOK
  <2> QED
    BY <2>1, Roles, BeginKeeps
<1>5. ASSUME NEW p \in Refreshers, Refresh(p) PROVE IInv'
  BY <1>5, FetchKeeps, StoreKeeps, RefreshFailsKeeps DEF Refresh
<1>6. CASE RefreshAll
  <2>1. /\ todo' \subseteq Tables
        /\ UNCHANGED <<server, cached, mu, rpc, rtab, rcols, insertVars, floor>>
    BY <1>6 DEF RefreshAll, Listed
  <2> QED
    BY <2>1 DEF insertVars, IInv, TypeOK, HasTable, FlusherRefreshes, LockedWhileFetching
<1>7. CASE Insert
  BY <1>7, InsertStepKeeps
<1>8. CASE UNCHANGED vars
  BY <1>8 DEF vars, refreshVars, insertVars, IInv, TypeOK, HasTable, FlusherRefreshes,
     LockedWhileFetching
<1> QED
  BY <1>1, <1>2, <1>3, <1>4, <1>5, <1>6, <1>7, <1>8 DEF Next

LEMMA InvariantHolds == Spec => []IInv
  BY InitIInv, NextIInv, PTL DEF Spec

\* Every variable keeps its type: every refresh and every insert is about a
\* table, and batchInsert tries at most twice.
THEOREM TypeCorrect == Spec => []TypeOK
<1>1. IInv => TypeOK
  BY DEF IInv
<1> QED
  BY <1>1, InvariantHolds, PTL

\* The lock is held exactly while an entry the cache misses is being fetched.
THEOREM LockedWhileFetchingHolds == Spec => []LockedWhileFetching
<1>1. IInv => LockedWhileFetching
  BY DEF IInv
<1> QED
  BY <1>1, InvariantHolds, PTL

-----------------------------------------------------------------------------
(* The converters of ChConverter.  Its recursive functions are defined by  *)
(* CHOOSE; that each satisfies its equation is shown by induction over     *)
(* levels: the types that nest less than n deep.  On such a level a        *)
(* function exists that satisfies the equation there, and the next level   *)
(* extends it.  The Go types in use inherit the levels of the column types *)
(* they are scanned from.  What the functions compute is then shown by the *)
(* same induction: an element converted to a Go type is a value of it.     *)
USE TypesAssumption, ValuesAssumption, WidthAssumption

\* Induction over how deep types nest.
LEMMA AllLevels ==
  ASSUME NEW S \in SUBSET Nat, 0 \in S, \A n \in S : n + 1 \in S
  PROVE  S = Nat
<1> DEFINE R == OpToRel(<, Nat)
           T == Nat \ S
<1>1. IsWellFoundedOn(R, Nat)
  BY NatLessThanWellFounded
<1> SUFFICES ASSUME T # {} PROVE FALSE
  OBVIOUS
<1> HIDE DEF R
<1>2. PICK n \in T : \A m \in T : <<m, n>> \notin R
  BY <1>1, WFMin
<1>3. n # 0 /\ n - 1 \in Nat
  BY <1>2
<1>4. <<n - 1, n>> \in R
  BY <1>2, <1>3 DEF R, OpToRel
<1>5. n - 1 \in S
  BY <1>2, <1>3, <1>4
<1>6. (n - 1) + 1 = n
  BY <1>3
<1> QED
  BY <1>5, <1>6

\* The column types that nest less than n deep.
Level(n) == {type \in Types : Depth[type] < n}

LEMMA Levels ==
    /\ Level(0) = {}
    /\ MaxDepth + 1 \in Nat /\ Level(MaxDepth + 1) = Types
    /\ \A n \in Nat : /\ Level(n) \subseteq Types /\ Level(n) \subseteq Level(n + 1)
                     /\ \A type \in Level(n + 1) : \A part \in Parts(type) : part \in Level(n)
  BY DEF Level, TypesAssumption

LEMMA LevelParts ==
  ASSUME NEW n \in Nat, NEW type \in Level(n + 1)
  PROVE  type \in Types /\ \A part \in Parts(type) : part \in Level(n) /\ part \in Level(n + 1)
<1>1. type \in Types /\ Depth[type] < n + 1
  BY DEF Level
<1>2. ASSUME NEW part \in Parts(type) PROVE part \in Level(n) /\ part \in Level(n + 1)
  <2>1. part \in Types /\ Depth[part] \in Nat /\ Depth[type] \in Nat /\ Depth[part] < Depth[type]
    BY <1>1 DEF TypesAssumption
  <2> QED
    BY <1>1, <2>1 DEF Level
<1> QED
  BY <1>1, <1>2

\* The words of a type, unfolded once.
LEMMA WordsDef ==
    Words = [type \in Types |->
       CASE type.t = "Enum" -> {"ENUM"} \cup type.words
         [] type.t \in DOMAIN ScalarWords -> ScalarWords[type.t]
         [] OTHER -> UNION {Words[part] : part \in Parts(type)}]
<1> DEFINE Step(f, type) ==
               CASE type.t = "Enum" -> {"ENUM"} \cup type.words
                 [] type.t \in DOMAIN ScalarWords -> ScalarWords[type.t]
                 [] OTHER -> UNION {f[part] : part \in Parts(type)}
           Solved == {n \in Nat : \E f : f = [type \in Level(n) |-> Step(f, type)]}
<1>1. \A f, g : \A type \in Types : (\A part \in Parts(type) : f[part] = g[part])
        => Step(f, type) = Step(g, type)
  <2> SUFFICES ASSUME NEW f, NEW g, NEW type \in Types,
                      \A part \in Parts(type) : f[part] = g[part]
               PROVE  Step(f, type) = Step(g, type)
    OBVIOUS
  <2>1. {f[part] : part \in Parts(type)} = {g[part] : part \in Parts(type)}
    OBVIOUS
  <2> QED
    BY <2>1
<1>2. Words = CHOOSE f : f = [type \in Types |-> Step(f, type)]
  BY DEF Words
<1> HIDE DEF Step
<1>3. 0 \in Solved
  <2>1. Level(0) = {}
    BY Levels
  <2>2. [type \in Level(0) |-> 0] = [type \in Level(0) |-> Step([t \in Level(0) |-> 0], type)]
    BY <2>1
  <2> QED
    BY <2>1, <2>2
<1>4. ASSUME NEW n \in Solved PROVE n + 1 \in Solved
  <2>0. n \in Nat
    OBVIOUS
  <2>1. PICK f : f = [type \in Level(n) |-> Step(f, type)]
    OBVIOUS
  <2> DEFINE g == [type \in Level(n + 1) |-> Step(f, type)]
  <2>2. ASSUME NEW type \in Level(n + 1) PROVE Step(f, type) = Step(g, type)
    <3>1. type \in Types /\ \A part \in Parts(type) : part \in Level(n) /\ part \in Level(n + 1)
      BY <2>0, LevelParts
    <3>2. \A part \in Level(n) : f[part] = Step(f, part)
      BY <2>1
    <3>3. \A part \in Level(n + 1) : g[part] = Step(f, part)
      OBVIOUS
    <3>4. \A part \in Parts(type) : f[part] = g[part]
      BY <3>1, <3>2, <3>3
    <3> HIDE DEF g
    <3> QED
      BY <3>1, <3>4, <1>1
  <2>3. g = [type \in Level(n + 1) |-> Step(g, type)]
    BY <2>2
  <2>4. n + 1 \in Nat
    OBVIOUS
  <2> HIDE DEF g
  <2>5. \E h : h = [type \in Level(n + 1) |-> Step(h, type)]
    BY <2>3
  <2> QED
    BY <2>4, <2>5
<1>5. \E f : f = [type \in Types |-> Step(f, type)]
  <2> HIDE DEF Solved
  <2>1. Solved = Nat
    BY <1>3, <1>4, AllLevels DEF Solved
  <2> QED
    BY <2>1, Levels DEF Solved
<1>6. Words = [type \in Types |-> Step(Words, type)]
  BY <1>2, <1>5
<1> QED
  BY <1>6 DEF Step

\* What is inside the wrappers, unfolded once.
LEMMA UnwrappedDef ==
    Unwrapped = [type \in Types |->
       IF type.t \in Wrappers
       THEN [base |-> Unwrapped[type.of].base,
             nullable |-> Unwrapped[type.of].nullable \/ type.t = "Nullable"]
       ELSE [base |-> type, nullable |-> FALSE]]
<1> DEFINE Step(f, type) ==
               IF type.t \in Wrappers
               THEN [base |-> f[type.of].base,
                     nullable |-> f[type.of].nullable \/ type.t = "Nullable"]
               ELSE [base |-> type, nullable |-> FALSE]
           Solved == {n \in Nat : \E f : f = [type \in Level(n) |-> Step(f, type)]}
<1>1. \A f, g : \A type \in Types : (\A part \in Parts(type) : f[part] = g[part])
        => Step(f, type) = Step(g, type)
  BY DEF Parts, Wrappers
<1>2. Unwrapped = CHOOSE f : f = [type \in Types |-> Step(f, type)]
  BY DEF Unwrapped
<1> HIDE DEF Step
<1>3. 0 \in Solved
  <2>1. Level(0) = {}
    BY Levels
  <2>2. [type \in Level(0) |-> 0] = [type \in Level(0) |-> Step([t \in Level(0) |-> 0], type)]
    BY <2>1
  <2> QED
    BY <2>1, <2>2
<1>4. ASSUME NEW n \in Solved PROVE n + 1 \in Solved
  <2>0. n \in Nat
    OBVIOUS
  <2>1. PICK f : f = [type \in Level(n) |-> Step(f, type)]
    OBVIOUS
  <2> DEFINE g == [type \in Level(n + 1) |-> Step(f, type)]
  <2>2. ASSUME NEW type \in Level(n + 1) PROVE Step(f, type) = Step(g, type)
    <3>1. type \in Types /\ \A part \in Parts(type) : part \in Level(n) /\ part \in Level(n + 1)
      BY <2>0, LevelParts
    <3>2. \A part \in Level(n) : f[part] = Step(f, part)
      BY <2>1
    <3>3. \A part \in Level(n + 1) : g[part] = Step(f, part)
      OBVIOUS
    <3>4. \A part \in Parts(type) : f[part] = g[part]
      BY <3>1, <3>2, <3>3
    <3> HIDE DEF g
    <3> QED
      BY <3>1, <3>4, <1>1
  <2>3. g = [type \in Level(n + 1) |-> Step(g, type)]
    BY <2>2
  <2>4. n + 1 \in Nat
    OBVIOUS
  <2> HIDE DEF g
  <2>5. \E h : h = [type \in Level(n + 1) |-> Step(h, type)]
    BY <2>3
  <2> QED
    BY <2>4, <2>5
<1>5. \E f : f = [type \in Types |-> Step(f, type)]
  <2> HIDE DEF Solved
  <2>1. Solved = Nat
    BY <1>3, <1>4, AllLevels DEF Solved
  <2> QED
    BY <2>1, Levels DEF Solved
<1>6. Unwrapped = [type \in Types |-> Step(Unwrapped, type)]
  BY <1>2, <1>5
<1> QED
  BY <1>6 DEF Step

\* Nullable, unfolded once.
LEMMA NullableDef ==
    Nullable = [type \in Types |->
       type.t = "Nullable" \/ (type.t = "LowCardinality" /\ Nullable[type.of])]
<1> DEFINE Step(f, type) ==
               type.t = "Nullable" \/ (type.t = "LowCardinality" /\ f[type.of])
           Solved == {n \in Nat : \E f : f = [type \in Level(n) |-> Step(f, type)]}
<1>1. \A f, g : \A type \in Types : (\A part \in Parts(type) : f[part] = g[part])
        => Step(f, type) = Step(g, type)
  BY DEF Parts, Wrappers
<1>2. Nullable = CHOOSE f : f = [type \in Types |-> Step(f, type)]
  BY DEF Nullable
<1> HIDE DEF Step
<1>3. 0 \in Solved
  <2>1. Level(0) = {}
    BY Levels
  <2>2. [type \in Level(0) |-> 0] = [type \in Level(0) |-> Step([t \in Level(0) |-> 0], type)]
    BY <2>1
  <2> QED
    BY <2>1, <2>2
<1>4. ASSUME NEW n \in Solved PROVE n + 1 \in Solved
  <2>0. n \in Nat
    OBVIOUS
  <2>1. PICK f : f = [type \in Level(n) |-> Step(f, type)]
    OBVIOUS
  <2> DEFINE g == [type \in Level(n + 1) |-> Step(f, type)]
  <2>2. ASSUME NEW type \in Level(n + 1) PROVE Step(f, type) = Step(g, type)
    <3>1. type \in Types /\ \A part \in Parts(type) : part \in Level(n) /\ part \in Level(n + 1)
      BY <2>0, LevelParts
    <3>2. \A part \in Level(n) : f[part] = Step(f, part)
      BY <2>1
    <3>3. \A part \in Level(n + 1) : g[part] = Step(f, part)
      OBVIOUS
    <3>4. \A part \in Parts(type) : f[part] = g[part]
      BY <3>1, <3>2, <3>3
    <3> HIDE DEF g
    <3> QED
      BY <3>1, <3>4, <1>1
  <2>3. g = [type \in Level(n + 1) |-> Step(g, type)]
    BY <2>2
  <2>4. n + 1 \in Nat
    OBVIOUS
  <2> HIDE DEF g
  <2>5. \E h : h = [type \in Level(n + 1) |-> Step(h, type)]
    BY <2>3
  <2> QED
    BY <2>4, <2>5
<1>5. \E f : f = [type \in Types |-> Step(f, type)]
  <2> HIDE DEF Solved
  <2>1. Solved = Nat
    BY <1>3, <1>4, AllLevels DEF Solved
  <2> QED
    BY <2>1, Levels DEF Solved
<1>6. Nullable = [type \in Types |-> Step(Nullable, type)]
  BY <1>2, <1>5
<1> QED
  BY <1>6 DEF Step

\* The Go type of a column type, unfolded once.
LEMMA ScanTypeDef ==
    ScanType = [type \in Types |->
       CASE type.t = "LowCardinality" -> ScanType[type.of]
         [] type.t = "Enum" -> [k |-> "string"]
         [] type.t = "Tuple" -> [k |-> "tuple"]
         [] type.t \in {"Nullable", "Array"} ->
               IF ScanType[type.of] = Unresolved THEN Unresolved
               ELSE [k |-> IF type.t = "Array" THEN "slice" ELSE "ptr", of |-> ScanType[type.of]]
         [] type.t = "Map" ->
               IF Unresolved \in {ScanType[type.key], ScanType[type.of]} THEN Unresolved
               ELSE [k |-> "map", key |-> ScanType[type.key], of |-> ScanType[type.of]]
         [] type.t \in DOMAIN DriverKind -> [k |-> DriverKind[type.t]]
         [] OTHER -> Unresolved]
<1> DEFINE Step(f, type) ==
               CASE type.t = "LowCardinality" -> f[type.of]
                 [] type.t = "Enum" -> [k |-> "string"]
                 [] type.t = "Tuple" -> [k |-> "tuple"]
                 [] type.t \in {"Nullable", "Array"} ->
                       IF f[type.of] = Unresolved THEN Unresolved
                       ELSE [k |-> IF type.t = "Array" THEN "slice" ELSE "ptr", of |-> f[type.of]]
                 [] type.t = "Map" ->
                       IF Unresolved \in {f[type.key], f[type.of]} THEN Unresolved
                       ELSE [k |-> "map", key |-> f[type.key], of |-> f[type.of]]
                 [] type.t \in DOMAIN DriverKind -> [k |-> DriverKind[type.t]]
                 [] OTHER -> Unresolved
           Solved == {n \in Nat : \E f : f = [type \in Level(n) |-> Step(f, type)]}
<1>1. \A f, g : \A type \in Types : (\A part \in Parts(type) : f[part] = g[part])
        => Step(f, type) = Step(g, type)
  BY DEF Parts, Wrappers
<1>2. ScanType = CHOOSE f : f = [type \in Types |-> Step(f, type)]
  BY DEF ScanType
<1> HIDE DEF Step
<1>3. 0 \in Solved
  <2>1. Level(0) = {}
    BY Levels
  <2>2. [type \in Level(0) |-> 0] = [type \in Level(0) |-> Step([t \in Level(0) |-> 0], type)]
    BY <2>1
  <2> QED
    BY <2>1, <2>2
<1>4. ASSUME NEW n \in Solved PROVE n + 1 \in Solved
  <2>0. n \in Nat
    OBVIOUS
  <2>1. PICK f : f = [type \in Level(n) |-> Step(f, type)]
    OBVIOUS
  <2> DEFINE g == [type \in Level(n + 1) |-> Step(f, type)]
  <2>2. ASSUME NEW type \in Level(n + 1) PROVE Step(f, type) = Step(g, type)
    <3>1. type \in Types /\ \A part \in Parts(type) : part \in Level(n) /\ part \in Level(n + 1)
      BY <2>0, LevelParts
    <3>2. \A part \in Level(n) : f[part] = Step(f, part)
      BY <2>1
    <3>3. \A part \in Level(n + 1) : g[part] = Step(f, part)
      OBVIOUS
    <3>4. \A part \in Parts(type) : f[part] = g[part]
      BY <3>1, <3>2, <3>3
    <3> HIDE DEF g
    <3> QED
      BY <3>1, <3>4, <1>1
  <2>3. g = [type \in Level(n + 1) |-> Step(g, type)]
    BY <2>2
  <2>4. n + 1 \in Nat
    OBVIOUS
  <2> HIDE DEF g
  <2>5. \E h : h = [type \in Level(n + 1) |-> Step(h, type)]
    BY <2>3
  <2> QED
    BY <2>4, <2>5
<1>5. \E f : f = [type \in Types |-> Step(f, type)]
  <2> HIDE DEF Solved
  <2>1. Solved = Nat
    BY <1>3, <1>4, AllLevels DEF Solved
  <2> QED
    BY <2>1, Levels DEF Solved
<1>6. ScanType = [type \in Types |-> Step(ScanType, type)]
  BY <1>2, <1>5
<1> QED
  BY <1>6 DEF Step

\* The Go types of those column types, and the types inside a Go type.
GoLevel(n) == {ScanType[type] : type \in Level(n)} \ {Unresolved}
GoParts(type) ==
    CASE type.k \in {"ptr", "slice"} -> {type.of}
      [] type.k = "map" -> {type.key, type.of}
      [] OTHER -> {}

LeafKinds == {"string", "int8", "int64", "uint64", "float64", "bool", "time", "decimal", "ip",
              "uuid", "point", "tuple"}

\* What the type of a LowCardinality column is made of lies as deep as what is
\* inside: that is why the induction goes over the levels and not over the types.
LEMMA ScanTypeCases ==
  ASSUME NEW t \in Types
  PROVE  /\ t.t = "LowCardinality" => ScanType[t] = ScanType[t.of]
         /\ t.t = "Enum" => ScanType[t] = [k |-> "string"]
         /\ t.t = "Tuple" => ScanType[t] = [k |-> "tuple"]
         /\ t.t \in {"Nullable", "Array"} =>
                ScanType[t] = IF ScanType[t.of] = Unresolved THEN Unresolved
                                   ELSE [k |-> IF t.t = "Array" THEN "slice" ELSE "ptr",
                                         of |-> ScanType[t.of]]
         /\ t.t = "Map" =>
                ScanType[t] = IF Unresolved \in {ScanType[t.key], ScanType[t.of]}
                                   THEN Unresolved
                                   ELSE [k |-> "map", key |-> ScanType[t.key],
                                         of |-> ScanType[t.of]]
<1> DEFINE of == ScanType[t.of]
           key == ScanType[t.key]
<1>1. ScanType[t] =
        CASE t.t = "LowCardinality" -> of
          [] t.t = "Enum" -> [k |-> "string"]
          [] t.t = "Tuple" -> [k |-> "tuple"]
          [] t.t \in {"Nullable", "Array"} ->
                IF of = Unresolved THEN Unresolved
                ELSE [k |-> IF t.t = "Array" THEN "slice" ELSE "ptr", of |-> of]
          [] t.t = "Map" ->
                IF Unresolved \in {key, of} THEN Unresolved
                ELSE [k |-> "map", key |-> key, of |-> of]
          [] t.t \in DOMAIN DriverKind -> [k |-> DriverKind[t.t]]
          [] OTHER -> Unresolved
  BY ScanTypeDef
<1> HIDE DEF of, key
<1>0. DOMAIN DriverKind \cap {"LowCardinality", "Enum", "Tuple", "Nullable", "Array", "Map"} = {}
  BY DEF DriverKind
<1>2. t.t = "LowCardinality" => ScanType[t] = of
  BY <1>0, <1>1
<1>3. /\ t.t = "Enum" => ScanType[t] = [k |-> "string"]
      /\ t.t = "Tuple" => ScanType[t] = [k |-> "tuple"]
  BY <1>0, <1>1
<1>4. t.t \in {"Nullable", "Array"} =>
        ScanType[t] = IF of = Unresolved THEN Unresolved
                           ELSE [k |-> IF t.t = "Array" THEN "slice" ELSE "ptr", of |-> of]
  BY <1>0, <1>1
<1>5. t.t = "Map" =>
        ScanType[t] = IF Unresolved \in {key, of} THEN Unresolved
                           ELSE [k |-> "map", key |-> key, of |-> of]
  BY <1>0, <1>1
<1> QED
  BY <1>2, <1>3, <1>4, <1>5 DEF of, key

LEMMA GoTypeParts ==
  ASSUME NEW n \in Nat, NEW type \in GoLevel(n + 1)
  PROVE  /\ type.k \in LeafKinds \cup {"ptr", "slice", "map"}
         /\ \A part \in GoParts(type) : part \in GoLevel(n)
<1> DEFINE Good(g, m) == /\ g.k \in LeafKinds \cup {"ptr", "slice", "map"}
                         /\ \A part \in GoParts(g) : part \in GoLevel(m)
           S == {m \in Nat : \A t \in Level(m + 1) :
                    ScanType[t] # Unresolved => Good(ScanType[t], m)}
<1>1. ASSUME NEW m \in Nat, NEW t \in Level(m + 1), ScanType[t] # Unresolved,
             t.t # "LowCardinality"
      PROVE  Good(ScanType[t], m)
  <2>1. t \in Types /\ \A part \in Parts(t) : part \in Level(m)
    BY LevelParts
  <2>2. CASE t.t \in {"Nullable", "Array"}
    <3>1. t.of \in Parts(t)
      BY <2>2 DEF Parts, Wrappers
    <3>2. /\ ScanType[t.of] # Unresolved
          /\ ScanType[t] = [k |-> IF t.t = "Array" THEN "slice" ELSE "ptr", of |-> ScanType[t.of]]
      BY <2>1, <2>2, <1>1, ScanTypeCases
    <3> QED
      BY <2>1, <3>1, <3>2 DEF GoParts, GoLevel
  <2>3. CASE t.t = "Map"
    <3>1. t.of \in Parts(t) /\ t.key \in Parts(t)
      BY <2>3 DEF Parts, Wrappers
    <3>2. /\ ScanType[t.of] # Unresolved /\ ScanType[t.key] # Unresolved
          /\ ScanType[t] = [k |-> "map", key |-> ScanType[t.key], of |-> ScanType[t.of]]
      BY <2>1, <2>3, <1>1, ScanTypeCases
    <3> QED
      BY <2>1, <3>1, <3>2 DEF GoParts, GoLevel
  <2>4. CASE t.t \in {"Enum", "Tuple"}
    <3>1. ScanType[t] = [k |-> "string"] \/ ScanType[t] = [k |-> "tuple"]
      BY <2>1, <2>4, ScanTypeCases
    <3> QED
      BY <3>1 DEF GoParts, LeafKinds
  <2>5. CASE t.t \notin {"Nullable", "Array", "Map", "Enum", "Tuple"}
    <3>1. t.t \in DOMAIN DriverKind /\ ScanType[t] = [k |-> DriverKind[t.t]]
      BY <2>1, <2>5, <1>1, ScanTypeDef
    <3>2. DriverKind[t.t] \in LeafKinds
      BY <3>1 DEF DriverKind, LeafKinds
    <3> QED
      BY <3>1, <3>2 DEF GoParts, LeafKinds
  <2> QED
    BY <2>2, <2>3, <2>4, <2>5
<1>2. ASSUME NEW m \in Nat, NEW t \in Level(m + 1), t.t = "LowCardinality"
      PROVE  t.of \in Level(m) /\ ScanType[t] = ScanType[t.of]
  <2>1. t \in Types /\ \A part \in Parts(t) : part \in Level(m)
    BY LevelParts
  <2>2. t.of \in Parts(t)
    BY <1>2 DEF Parts, Wrappers
  <2> QED
    BY <1>2, <2>1, <2>2, ScanTypeCases
<1>3. 0 \in S
  BY <1>1, <1>2, Levels
<1>4. ASSUME NEW m \in S PROVE m + 1 \in S
  <2>1. m \in Nat /\ m + 1 \in Nat
    BY <1>4
  <2>2. ASSUME NEW t \in Level((m + 1) + 1), ScanType[t] # Unresolved
        PROVE  Good(ScanType[t], m + 1)
    <3>1. CASE t.t # "LowCardinality"
      BY <1>1, <2>1, <2>2, <3>1
    <3>2. CASE t.t = "LowCardinality"
      <4>1. t.of \in Level(m + 1) /\ ScanType[t] = ScanType[t.of]
        BY <1>2, <2>1, <3>2
      <4>2. Good(ScanType[t], m)
        BY <1>4, <2>2, <4>1
      <4>3. GoLevel(m) \subseteq GoLevel(m + 1)
        BY <2>1, Levels DEF GoLevel
      <4> QED
        BY <4>2, <4>3
    <3> QED
      BY <3>1, <3>2
  <2> QED
    BY <2>1, <2>2
<1>5. S = Nat
  <2> HIDE DEF S
  <2> QED
    BY <1>3, <1>4, AllLevels DEF S
<1>6. PICK t \in Level(n + 1) : ScanType[t] = type /\ type # Unresolved
  BY DEF GoLevel
<1>7. Good(ScanType[t], n)
  BY <1>5, <1>6
<1> QED
  BY <1>6, <1>7

LEMMA GoLevels ==
    /\ GoLevel(0) = {}
    /\ MaxDepth + 1 \in Nat /\ GoLevel(MaxDepth + 1) = GoTypes
    /\ \A n \in Nat : /\ GoLevel(n) \subseteq GoTypes /\ GoLevel(n) \subseteq GoLevel(n + 1)
                     /\ \A type \in GoLevel(n + 1) : \A part \in GoParts(type) : part \in GoLevel(n)
    /\ \A type \in GoTypes : type.k \in LeafKinds \cup {"ptr", "slice", "map"}
<1>1. \A n \in Nat : GoLevel(n) \subseteq GoTypes /\ GoLevel(n) \subseteq GoLevel(n + 1)
  BY Levels DEF GoLevel, GoTypes
<1>2. GoLevel(0) = {} /\ MaxDepth + 1 \in Nat /\ GoLevel(MaxDepth + 1) = GoTypes
  BY Levels DEF GoLevel, GoTypes
<1>3. ASSUME NEW n \in Nat, NEW type \in GoLevel(n + 1)
      PROVE  /\ type.k \in LeafKinds \cup {"ptr", "slice", "map"}
             /\ \A part \in GoParts(type) : part \in GoLevel(n)
  BY GoTypeParts
<1>4. ASSUME NEW type \in GoTypes
      PROVE  type.k \in LeafKinds \cup {"ptr", "slice", "map"}
  BY <1>2, <1>3 DEF TypesAssumption
<1> QED
  BY <1>1, <1>2, <1>3, <1>4

LEMMA GoLevelParts ==
  ASSUME NEW n \in Nat, NEW type \in GoLevel(n + 1)
  PROVE  type \in GoTypes /\ \A part \in GoParts(type) : part \in GoLevel(n) /\ part \in GoLevel(n + 1)
<1>0. n + 1 \in Nat
  OBVIOUS
<1>1. type \in GoTypes
  BY <1>0, GoLevels
<1>2. GoLevel(n) \subseteq GoLevel(n + 1)
  BY GoLevels
<1>3. \A part \in GoParts(type) : part \in GoLevel(n)
  BY GoTypeParts
<1> QED
  BY <1>1, <1>2, <1>3

\* The conversion of an element, unfolded once.
LEMMA ConvertElemDef ==
    ConvertElem = [type \in GoTypes |->
       [v \in Values |->
           CASE type.k = "ptr" -> PointerOrPanic(type.of.k, ConvertElem[type.of][v])
             [] type.k \in Scalars -> ConvertScalar(v, type.k)
             [] type.k = "map" -> BuildMap(v, type, ConvertElem[type.key], ConvertElem[type.of])
             [] type.k = "slice" -> BuildSlice(v, type, ConvertElem[type.of])
             [] type.k = "tuple" -> BuildSlice(v, type, [e \in Values |-> e])
             [] type.k \in DOMAIN ArraySize -> CoerceTo(v, type.k)]]
<1> DEFINE Step(f, type) ==
               [v \in Values |->
                   CASE type.k = "ptr" -> PointerOrPanic(type.of.k, f[type.of][v])
                     [] type.k \in Scalars -> ConvertScalar(v, type.k)
                     [] type.k = "map" -> BuildMap(v, type, f[type.key], f[type.of])
                     [] type.k = "slice" -> BuildSlice(v, type, f[type.of])
                     [] type.k = "tuple" -> BuildSlice(v, type, [e \in Values |-> e])
                     [] type.k \in DOMAIN ArraySize -> CoerceTo(v, type.k)]
           Solved == {n \in Nat : \E f : f = [type \in GoLevel(n) |-> Step(f, type)]}
<1>1. \A f, g : \A type \in GoTypes : (\A part \in GoParts(type) : f[part] = g[part])
        => Step(f, type) = Step(g, type)
  <2> SUFFICES ASSUME NEW f, NEW g, NEW type \in GoTypes,
                      \A part \in GoParts(type) : f[part] = g[part]
               PROVE  Step(f, type) = Step(g, type)
    OBVIOUS
  <2> DEFINE Elem(h, v) ==
          CASE type.k = "ptr" -> PointerOrPanic(type.of.k, h[type.of][v])
            [] type.k \in Scalars -> ConvertScalar(v, type.k)
            [] type.k = "map" -> BuildMap(v, type, h[type.key], h[type.of])
            [] type.k = "slice" -> BuildSlice(v, type, h[type.of])
            [] type.k = "tuple" -> BuildSlice(v, type, [e \in Values |-> e])
            [] type.k \in DOMAIN ArraySize -> CoerceTo(v, type.k)
  <2>1. ASSUME NEW v \in Values PROVE Elem(f, v) = Elem(g, v)
    <3>1. CASE type.k = "map"
      <4>1. f[type.key] = g[type.key] /\ f[type.of] = g[type.of]
        BY <3>1 DEF GoParts
      <4> QED
        BY <4>1
    <3>2. CASE type.k \in {"ptr", "slice"}
      <4>1. f[type.of] = g[type.of]
        BY <3>2 DEF GoParts
      <4>2. CASE type.k = "ptr"
        BY <4>1, <4>2
      <4>3. CASE type.k = "slice"
        BY <4>1, <4>3
      <4> QED
        BY <3>2, <4>2, <4>3
    <3>3. CASE type.k \in LeafKinds
      <4>1. type.k \in Scalars \/ type.k = "tuple" \/ type.k \in DOMAIN ArraySize
        BY <3>3 DEF LeafKinds, Scalars, ArraySize
      <4>2. type.k \notin {"ptr", "map", "slice"}
        BY <3>3 DEF LeafKinds
      <4> QED
        BY <4>1, <4>2
    <3> QED
      BY <3>1, <3>2, <3>3, GoLevels
  <2> HIDE DEF Elem
  <2>2. [v \in Values |-> Elem(f, v)] = [v \in Values |-> Elem(g, v)]
    BY <2>1
  <2> QED
    BY <2>2 DEF Elem
<1>2. ConvertElem = CHOOSE f : f = [type \in GoTypes |-> Step(f, type)]
  BY DEF ConvertElem
<1> HIDE DEF Step
<1>3. 0 \in Solved
  <2>1. GoLevel(0) = {}
    BY GoLevels
  <2>2. [type \in GoLevel(0) |-> 0] = [type \in GoLevel(0) |-> Step([t \in GoLevel(0) |-> 0], type)]
    BY <2>1
  <2> QED
    BY <2>1, <2>2
<1>4. ASSUME NEW n \in Solved PROVE n + 1 \in Solved
  <2>0. n \in Nat
    OBVIOUS
  <2>1. PICK f : f = [type \in GoLevel(n) |-> Step(f, type)]
    OBVIOUS
  <2> DEFINE g == [type \in GoLevel(n + 1) |-> Step(f, type)]
  <2>2. ASSUME NEW type \in GoLevel(n + 1) PROVE Step(f, type) = Step(g, type)
    <3>1. type \in GoTypes /\ \A part \in GoParts(type) : part \in GoLevel(n) /\ part \in GoLevel(n + 1)
      BY <2>0, GoLevelParts
    <3>2. \A part \in GoLevel(n) : f[part] = Step(f, part)
      BY <2>1
    <3>3. \A part \in GoLevel(n + 1) : g[part] = Step(f, part)
      OBVIOUS
    <3>4. \A part \in GoParts(type) : f[part] = g[part]
      BY <3>1, <3>2, <3>3
    <3> HIDE DEF g
    <3> QED
      BY <3>1, <3>4, <1>1
  <2>3. g = [type \in GoLevel(n + 1) |-> Step(g, type)]
    BY <2>2
  <2>4. n + 1 \in Nat
    OBVIOUS
  <2> HIDE DEF g
  <2>5. \E h : h = [type \in GoLevel(n + 1) |-> Step(h, type)]
    BY <2>3
  <2> QED
    BY <2>4, <2>5
<1>5. \E f : f = [type \in GoTypes |-> Step(f, type)]
  <2> HIDE DEF Solved
  <2>1. Solved = Nat
    BY <1>3, <1>4, AllLevels DEF Solved
  <2> QED
    BY <2>1, GoLevels DEF Solved
<1>6. ConvertElem = [type \in GoTypes |-> Step(ConvertElem, type)]
  BY <1>2, <1>5
<1> QED
  BY <1>6 DEF Step

\* The outcomes of a conversion, unfolded once.
LEMMA OutcomesDef ==
    Outcomes = [type \in GoTypes |->
       CASE type.k = "ptr" -> Pointing(type.of.k, Outcomes[type.of])
         [] type.k = "map" -> Mapping(type, Outcomes[type.key], Outcomes[type.of])
         [] type.k = "slice" -> Listing(type, Outcomes[type.of])
         [] type.k = "tuple" -> Listing(type, Values)
         [] type.k \in {"decimal", "uuid", "point"} -> ScalarValues(type.k) \cup {Panic}
         [] OTHER -> ScalarValues(type.k)]
<1> DEFINE Step(f, type) ==
               CASE type.k = "ptr" -> Pointing(type.of.k, f[type.of])
                 [] type.k = "map" -> Mapping(type, f[type.key], f[type.of])
                 [] type.k = "slice" -> Listing(type, f[type.of])
                 [] type.k = "tuple" -> Listing(type, Values)
                 [] type.k \in {"decimal", "uuid", "point"} -> ScalarValues(type.k) \cup {Panic}
                 [] OTHER -> ScalarValues(type.k)
           Solved == {n \in Nat : \E f : f = [type \in GoLevel(n) |-> Step(f, type)]}
<1>1. \A f, g : \A type \in GoTypes : (\A part \in GoParts(type) : f[part] = g[part])
        => Step(f, type) = Step(g, type)
  BY DEF GoParts
<1>2. Outcomes = CHOOSE f : f = [type \in GoTypes |-> Step(f, type)]
  BY DEF Outcomes
<1> HIDE DEF Step
<1>3. 0 \in Solved
  <2>1. GoLevel(0) = {}
    BY GoLevels
  <2>2. [type \in GoLevel(0) |-> 0] = [type \in GoLevel(0) |-> Step([t \in GoLevel(0) |-> 0], type)]
    BY <2>1
  <2> QED
    BY <2>1, <2>2
<1>4. ASSUME NEW n \in Solved PROVE n + 1 \in Solved
  <2>0. n \in Nat
    OBVIOUS
  <2>1. PICK f : f = [type \in GoLevel(n) |-> Step(f, type)]
    OBVIOUS
  <2> DEFINE g == [type \in GoLevel(n + 1) |-> Step(f, type)]
  <2>2. ASSUME NEW type \in GoLevel(n + 1) PROVE Step(f, type) = Step(g, type)
    <3>1. type \in GoTypes /\ \A part \in GoParts(type) : part \in GoLevel(n) /\ part \in GoLevel(n + 1)
      BY <2>0, GoLevelParts
    <3>2. \A part \in GoLevel(n) : f[part] = Step(f, part)
      BY <2>1
    <3>3. \A part \in GoLevel(n + 1) : g[part] = Step(f, part)
      OBVIOUS
    <3>4. \A part \in GoParts(type) : f[part] = g[part]
      BY <3>1, <3>2, <3>3
    <3> HIDE DEF g
    <3> QED
      BY <3>1, <3>4, <1>1
  <2>3. g = [type \in GoLevel(n + 1) |-> Step(g, type)]
    BY <2>2
  <2>4. n + 1 \in Nat
    OBVIOUS
  <2> HIDE DEF g
  <2>5. \E h : h = [type \in GoLevel(n + 1) |-> Step(h, type)]
    BY <2>3
  <2> QED
    BY <2>4, <2>5
<1>5. \E f : f = [type \in GoTypes |-> Step(f, type)]
  <2> HIDE DEF Solved
  <2>1. Solved = Nat
    BY <1>3, <1>4, AllLevels DEF Solved
  <2> QED
    BY <2>1, GoLevels DEF Solved
<1>6. Outcomes = [type \in GoTypes |-> Step(Outcomes, type)]
  BY <1>2, <1>5
<1> QED
  BY <1>6 DEF Step

----------------------------------------------------------------------------
(* The scalar converters: each returns a value of its Go type, whatever it is *)
(* given.                                                                   *)

LEMMA GoIsScalar ==
  ASSUME NEW kind, NEW n \in Int, NEW form \in Forms
  PROVE  Go(kind, n, form) \in ScalarValues(kind)
  BY DEF Go, ScalarValues

LEMMA FormsUsed ==
  {"int", "half", "huge", "inf", "ip4", "empty", "true", "false", "zero", "ip", "epoch", "read", "ms", "s"}
    \subseteq Forms
  BY DEF Forms

LEMMA ScalarsUsed ==
  ASSUME NEW kind, NEW n \in Int
  PROVE  /\ Go(kind, n, "int") \in ScalarValues(kind)
         /\ Go(kind, n, "half") \in ScalarValues(kind)
         /\ Go(kind, n, "huge") \in ScalarValues(kind)
         /\ Go(kind, n, "inf") \in ScalarValues(kind)
         /\ Go(kind, n, "ip4") \in ScalarValues(kind)
         /\ Go(kind, n, "empty") \in ScalarValues(kind)
         /\ Go(kind, n, "true") \in ScalarValues(kind)
         /\ Go(kind, n, "false") \in ScalarValues(kind)
         /\ Go(kind, n, "zero") \in ScalarValues(kind)
         /\ Go(kind, n, "ip") \in ScalarValues(kind)
         /\ Go(kind, n, "epoch") \in ScalarValues(kind)
         /\ Go(kind, n, "read") \in ScalarValues(kind)
         /\ Go(kind, n, "ms") \in ScalarValues(kind)
         /\ Go(kind, n, "s") \in ScalarValues(kind)
<1> DEFINE G(form) == Go(kind, n, form)
<1>1. \A form \in Forms : G(form) \in ScalarValues(kind)
  BY GoIsScalar
<1>2. /\ "int" \in Forms
      /\ "half" \in Forms
      /\ "huge" \in Forms
      /\ "inf" \in Forms
      /\ "ip4" \in Forms
      /\ "empty" \in Forms
      /\ "true" \in Forms
      /\ "false" \in Forms
      /\ "zero" \in Forms
      /\ "ip" \in Forms
      /\ "epoch" \in Forms
      /\ "read" \in Forms
      /\ "ms" \in Forms
      /\ "s" \in Forms
  BY FormsUsed
<1> HIDE DEF G
<1>3. /\ G("int") \in ScalarValues(kind)
      /\ G("half") \in ScalarValues(kind)
      /\ G("huge") \in ScalarValues(kind)
      /\ G("inf") \in ScalarValues(kind)
      /\ G("ip4") \in ScalarValues(kind)
      /\ G("empty") \in ScalarValues(kind)
      /\ G("true") \in ScalarValues(kind)
      /\ G("false") \in ScalarValues(kind)
      /\ G("zero") \in ScalarValues(kind)
      /\ G("ip") \in ScalarValues(kind)
      /\ G("epoch") \in ScalarValues(kind)
      /\ G("read") \in ScalarValues(kind)
      /\ G("ms") \in ScalarValues(kind)
      /\ G("s") \in ScalarValues(kind)
  BY <1>1, <1>2
<1> QED
  BY <1>3 DEF G

\* What a converter takes is a scalar of one of its kinds, or points to one.
LEMMA TakenIsScalar ==
  ASSUME NEW v \in Values, NEW kinds \in SUBSET Basic, NEW unpointed,
         Takes(v, kinds, unpointed)
  PROVE  LET x == Pointee(v)
         IN  /\ KindOf(v) \in kinds
             /\ x \in ScalarValues(KindOf(v))
             /\ x.n \in Int /\ x.form \in Forms
<1> DEFINE x == Pointee(v)
<1>1. KindOf(v) \in kinds /\ x.go = KindOf(v)
  BY DEF Takes, KindOf, Pointee, ValuesAssumption
<1>2. x \in ScalarValues(KindOf(v))
  BY <1>1 DEF ValuesAssumption
<1>3. x.n \in Int /\ x.form \in Forms
  BY <1>2 DEF ScalarValues
<1> QED
  BY <1>1, <1>2, <1>3

LEMMA KindsAreBasic ==
    /\ StringKinds \subseteq Basic /\ IntKinds \subseteq Basic
    /\ FloatKinds \subseteq Basic /\ DecimalKinds \subseteq Basic
    /\ BoolKinds \subseteq Basic /\ DateTimeKinds \subseteq Basic
    /\ DateKinds \subseteq Basic
  BY DEF Basic, StringKinds, IntKinds, FloatKinds, DecimalKinds,
         BoolKinds, DateTimeKinds, DateKinds, CommonNumbers, Numeric,
         Signed, Unsigned, Floats

LEMMA AsStringFits ==
  ASSUME NEW v \in Values
  PROVE  AsString(v) \in ScalarValues("string")
<1>1. CASE ~Takes(v, StringKinds, Unpointed)
  BY <1>1, ScalarsUsed DEF AsString, EmptyText, Text
<1>2. CASE Takes(v, StringKinds, Unpointed)
  BY <1>2, TakenIsScalar, KindsAreBasic, GoIsScalar DEF AsString, Text
<1> QED
  BY <1>1, <1>2

LEMMA AsIntFits ==
  ASSUME NEW v \in Values
  PROVE  AsInt(v) \in ScalarValues("int64") /\ AsInt(v).n \in Int
<1> DEFINE x == Pointee(v)
           n == CASE KindOf(v) \in Signed \cup Unsigned -> Clamp(x.n)
                  [] KindOf(v) \in Floats \cup {"bool"} -> x.n
                  [] KindOf(v) \in {"string", "json"} ->
                       IF x.form = "int" /\ x.n <= WordMax THEN x.n ELSE 0
           m == IF Takes(v, IntKinds, Unpointed) THEN n ELSE 0
<1>1. AsInt(v) = Go("int64", m, "int")
  BY DEF AsInt, Number
<1>2. ASSUME Takes(v, IntKinds, Unpointed) PROVE n \in Int
  <2>1. KindOf(v) \in IntKinds /\ x.n \in Int
    BY <1>2, TakenIsScalar, KindsAreBasic
  <2>2. Clamp(x.n) \in Int
    BY <2>1 DEF Clamp, WidthAssumption
  <2> HIDE DEF x
  <2>3. CASE KindOf(v) \in Signed \cup Unsigned
    <3>1. KindOf(v) \notin Floats \cup {"bool", "string", "json"}
      BY <2>3 DEF Signed, Unsigned, Floats
    <3> QED
      BY <2>2, <2>3, <3>1
  <2>4. CASE KindOf(v) \in Floats \cup {"bool"}
    <3>1. KindOf(v) \notin (Signed \cup Unsigned) \cup {"string", "json"}
      BY <2>4 DEF Signed, Unsigned, Floats
    <3> QED
      BY <2>1, <2>4, <3>1
  <2>5. CASE KindOf(v) \in {"string", "json"}
    <3>1. KindOf(v) \notin (Signed \cup Unsigned) \cup (Floats \cup {"bool"})
      BY <2>5 DEF Signed, Unsigned, Floats
    <3> QED
      BY <2>1, <2>5, <3>1
  <2> QED
    BY <2>1, <2>3, <2>4, <2>5 DEF IntKinds, Numeric
<1>3. m \in Int
  <2> HIDE DEF n
  <2> QED
    BY <1>2
<1> HIDE DEF m
<1>4. AsInt(v).n = m
  BY <1>1 DEF Go
<1> QED
  BY <1>1, <1>3, <1>4, ScalarsUsed

LEMMA FractionalFits ==
  ASSUME NEW v \in Values, NEW kind, NEW kinds \in SUBSET Basic,
         Takes(v, kinds, Unpointed)
  PROVE  Fractional(kind, v) \in ScalarValues(kind)
<1> DEFINE x == Pointee(v)
<1>1. x.n \in Int /\ x.form \in Forms
  BY TakenIsScalar
<1>2. Fractional(kind, v) = IF x.form \in {"int", "half", "huge"}
                                 THEN Go(kind, x.n, x.form) ELSE Go(kind, 0, "int")
  BY DEF Fractional, Number
<1> HIDE DEF x
<1> QED
  BY <1>1, <1>2, ScalarsUsed

LEMMA AsFloatFits ==
  ASSUME NEW v \in Values
  PROVE  AsFloat(v) \in ScalarValues("float64")
<1>1. CASE ~Takes(v, FloatKinds, Unpointed)
  BY <1>1, ScalarsUsed DEF AsFloat, Number
<1>2. CASE Takes(v, FloatKinds, Unpointed)
  <2>1. Pointee(v).n \in Int
    BY <1>2, TakenIsScalar, KindsAreBasic
  <2>2. Fractional("float64", v) \in ScalarValues("float64")
    BY <1>2, FractionalFits, KindsAreBasic
  <2> QED
    BY <1>2, <2>1, <2>2, ScalarsUsed DEF AsFloat
<1> QED
  BY <1>1, <1>2

\* An infinity or NaN panics.
LEMMA AsDecimalFits ==
  ASSUME NEW v \in Values
  PROVE  AsDecimal(v) \in ScalarValues("decimal") \cup {Panic}
  BY FractionalFits, KindsAreBasic, ScalarsUsed DEF AsDecimal, Number

LEMMA AsBoolFits == \A v : AsBool(v) \in ScalarValues("bool")
<1>1. \A b \in BOOLEAN : Truth(b) \in ScalarValues("bool")
  BY ScalarsUsed DEF Truth
<1> QED
  BY <1>1 DEF AsBool

LEMMA AsTimeFits ==
  ASSUME NEW v \in Values, NEW kinds \in SUBSET Basic,
         kinds \subseteq Numeric \cup {"time", "string", "json"},
         NEW unit \in {"ms", "s"}, NEW layouts
  PROVE  AsTime(v, kinds, unit, layouts) \in ScalarValues("time")
<1> DEFINE x == Pointee(v)
<1>1. /\ MinTime \in ScalarValues("time")
      /\ \A n \in Int : /\ Instant(n, "read") \in ScalarValues("time")
                        /\ Instant(n, unit) \in ScalarValues("time")
  BY ScalarsUsed DEF MinTime, Instant
<1>2. CASE ~Takes(v, kinds, Unpointed)
  BY <1>1, <1>2 DEF AsTime
<1>3. CASE Takes(v, kinds, Unpointed)
  <2>1. KindOf(v) \in kinds /\ x \in ScalarValues(KindOf(v)) /\ x.n \in Int
    BY <1>3, TakenIsScalar
  <2>2. Numeric \cap {"time", "string", "json"} = {}
    BY DEF Numeric, Signed, Unsigned, Floats
  <2>3. AsTime(v, kinds, unit, layouts) =
          CASE KindOf(v) = "time" -> x
            [] KindOf(v) = "string" ->
                 IF x.form \in layouts THEN Instant(x.n, "read") ELSE MinTime
            [] KindOf(v) = "json" ->
                 IF x.form = "int" /\ x.n <= WordMax THEN Instant(x.n, unit) ELSE MinTime
            [] KindOf(v) \in Numeric -> Instant(x.n, unit)
    BY <1>3 DEF AsTime
  <2> HIDE DEF x
  <2>4. CASE KindOf(v) = "time"
    BY <2>1, <2>2, <2>3, <2>4
  <2>5. CASE KindOf(v) = "string"
    BY <1>1, <2>1, <2>2, <2>3, <2>5
  <2>6. CASE KindOf(v) = "json"
    BY <1>1, <2>1, <2>2, <2>3, <2>6
  <2>7. CASE KindOf(v) \in Numeric
    BY <1>1, <2>1, <2>2, <2>3, <2>7
  <2> QED
    BY <2>1, <2>4, <2>5, <2>6, <2>7
<1> QED
  BY <1>2, <1>3

LEMMA TimesFit ==
  ASSUME NEW v \in Values
  PROVE  /\ AsDateTime(v) \in ScalarValues("time")
         /\ AsDate(v) \in ScalarValues("time")
<1>1. /\ DateTimeKinds \subseteq Numeric \cup {"time", "string", "json"}
      /\ DateKinds \subseteq Numeric \cup {"time", "string", "json"}
  BY DEF DateTimeKinds, DateKinds, Numeric, Signed, Floats
<1> QED
  BY <1>1, AsTimeFits, KindsAreBasic DEF AsDateTime, AsDate

LEMMA AsIPFits ==
  ASSUME NEW v \in Values
  PROVE  AsIP(v) \in ScalarValues("ip")
<1>1. AsIP(v) =
        CASE v.go = "ip" /\ v.form # "empty" -> v
          [] v.go = "bytes" /\ v.elems # <<>> -> Go("ip", v.n, "read")
          [] v.go \in {"addr", "string"} /\ v.form \in {"ip", "ip4"} -> Go("ip", v.n, v.form)
          [] OTHER -> Go("ip", 0, "zero")
  BY DEF AsIP, ZeroIP
<1>2. ASSUME v.go \in {"ip", "addr", "string"}
      PROVE  v \in ScalarValues(v.go) /\ v.n \in Int
  <2>1. v \in ScalarValues(v.go)
    BY <1>2 DEF ValuesAssumption, Pointee, Basic, IntKinds
  <2> QED
    BY <2>1 DEF ScalarValues
<1>3. v.go = "bytes" => v.n \in Int
  BY DEF ValuesAssumption
<1>4. CASE v.go = "ip" /\ v.form # "empty"
  <2>1. AsIP(v) = v
    BY <1>1, <1>4
  <2> QED
    BY <1>2, <1>4, <2>1
<1>5. CASE v.go = "bytes" /\ v.elems # <<>>
  <2>1. AsIP(v) = Go("ip", v.n, "read")
    BY <1>1, <1>5
  <2> QED
    BY <1>3, <1>5, <2>1, ScalarsUsed
<1>6. CASE v.go \in {"addr", "string"} /\ v.form \in {"ip", "ip4"}
  <2>1. AsIP(v) = Go("ip", v.n, v.form)
    BY <1>1, <1>6
  <2> QED
    BY <1>2, <1>6, <2>1, ScalarsUsed
<1>7. CASE /\ ~(v.go = "ip" /\ v.form # "empty") /\ ~(v.go = "bytes" /\ v.elems # <<>>)
           /\ ~(v.go \in {"addr", "string"} /\ v.form \in {"ip", "ip4"})
  <2>1. AsIP(v) = Go("ip", 0, "zero")
    BY <1>1, <1>7
  <2> QED
    BY <2>1, ScalarsUsed
<1> QED
  BY <1>4, <1>5, <1>6, <1>7

LEMMA ConvertScalarFits ==
  ASSUME NEW v \in Values, NEW k \in Scalars
  PROVE  ConvertScalar(v, k) \in ScalarValues(k) \cup (IF k = "decimal" THEN {Panic} ELSE {})
<1>1. CASE k = "string"
  BY <1>1, AsStringFits DEF ConvertScalar
<1>2. CASE k = "int64"
  BY <1>2, AsIntFits DEF ConvertScalar
<1>3. CASE k = "float64"
  BY <1>3, AsFloatFits DEF ConvertScalar
<1>4. CASE k = "bool"
  BY <1>4, AsBoolFits DEF ConvertScalar
<1>5. CASE k = "time"
  BY <1>5, TimesFit DEF ConvertScalar
<1>6. CASE k = "decimal"
  BY <1>6, AsDecimalFits DEF ConvertScalar
<1>7. CASE k = "ip"
  BY <1>7, AsIPFits DEF ConvertScalar
<1>8. CASE k = "int8"
  <2>1. Wrap(AsInt(v).n, -ByteMax - 1, ByteMax) \in Int
    BY AsIntFits DEF Wrap, WidthAssumption
  <2> QED
    BY <1>8, <2>1, ScalarsUsed DEF ConvertScalar, Number
<1>9. CASE k = "uint64"
  <2>1. Wrap(AsInt(v).n, 0, 2 * WordMax + 1) \in Int
    BY AsIntFits DEF Wrap, WidthAssumption
  <2> QED
    BY <1>9, <2>1, ScalarsUsed DEF ConvertScalar, Number
<1> QED
  BY <1>1, <1>2, <1>3, <1>4, <1>5, <1>6, <1>7, <1>8, <1>9 DEF Scalars

----------------------------------------------------------------------------
(* Containers, at whatever depth.                                           *)

LEMMA BuildMapFits ==
  ASSUME NEW v \in Values, NEW type, NEW key, NEW of, NEW K, NEW O,
         \A e \in Values : key[e] \in K /\ of[e] \in O
  PROVE  BuildMap(v, type, key, of) \in Mapping(type, K, O)
<1> DEFINE src == NormalizeMapInput(v)
           pairs == IF src = Nil THEN {} ELSE {<<key[p[1]], of[p[2]]>> : p \in src.pairs}
<1>1. src # Nil => src.pairs \subseteq Values \X Values
  BY DEF ValuesAssumption
<1> HIDE DEF src
<1>2. pairs \in SUBSET (K \X O)
  BY <1>1
<1>3. BuildMap(v, type, key, of) =
        IF \E p \in pairs : Panic \in {p[1], p[2]} THEN Panic
        ELSE [go |-> "map", type |-> type, pairs |-> pairs]
  BY DEF BuildMap, MapOf, src
<1> HIDE DEF pairs
<1>4. CASE \E p \in pairs : Panic \in {p[1], p[2]}
  <2>1. Panic \in K \cup O
    BY <1>2, <1>4
  <2> QED
    BY <1>3, <1>4, <2>1 DEF Mapping
<1>5. CASE ~\E p \in pairs : Panic \in {p[1], p[2]}
  <2>1. pairs \in SUBSET ((K \ {Panic}) \X (O \ {Panic}))
    BY <1>2, <1>5
  <2> QED
    BY <1>3, <1>5, <2>1 DEF Mapping
<1> QED
  BY <1>4, <1>5

LEMMA BuildSliceFits ==
  ASSUME NEW v \in Values, NEW type, NEW of, NEW O,
         \A e \in Values : of[e] \in O
  PROVE  BuildSlice(v, type, of) \in Listing(type, O)
<1> DEFINE src == NormalizeSliceInput(v)
           elems == IF src = Nil THEN <<>> ELSE [i \in DOMAIN src.elems |-> of[src.elems[i]]]
<1>1. src # Nil => src.elems \in Seq(Values)
  BY DEF ValuesAssumption
<1> HIDE DEF src
<1>2. elems \in Seq(O)
  <2>1. CASE src = Nil
    BY <2>1
  <2>2. CASE src # Nil
    <3>1. /\ Len(src.elems) \in Nat /\ DOMAIN src.elems = 1..Len(src.elems)
          /\ \A i \in DOMAIN src.elems : src.elems[i] \in Values
      BY <1>1, <2>2
    <3>2. elems \in [1..Len(src.elems) -> O]
      BY <2>2, <3>1
    <3> HIDE DEF elems
    <3> QED
      BY <3>1, <3>2, SeqDef
  <2> QED
    BY <2>1, <2>2
<1>3. BuildSlice(v, type, of) =
        IF \E i \in DOMAIN elems : elems[i] = Panic THEN Panic
        ELSE [go |-> "slice", type |-> type, elems |-> elems]
  BY DEF BuildSlice, SliceOrPanic, SliceOf, src
<1> HIDE DEF elems
<1>4. Len(elems) \in Nat /\ DOMAIN elems = 1..Len(elems) /\ \A i \in DOMAIN elems : elems[i] \in O
  BY <1>2
<1>5. CASE \E i \in DOMAIN elems : elems[i] = Panic
  <2>1. Panic \in O
    BY <1>4, <1>5
  <2> QED
    BY <1>3, <1>5, <2>1 DEF Listing
<1>6. CASE ~\E i \in DOMAIN elems : elems[i] = Panic
  <2>1. elems \in [1..Len(elems) -> O \ {Panic}]
    <3>1. elems \in [DOMAIN elems -> O]
      BY <1>2
    <3> QED
      BY <1>4, <1>6, <3>1
  <2>2. elems \in Seq(O \ {Panic})
    BY <1>4, <2>1, SeqDef
  <2> QED
    BY <1>3, <1>6, <2>2 DEF Listing
<1> QED
  BY <1>5, <1>6

\* An element that is a Go array is one, is zero, or panics.
LEMMA CoerceToFits ==
  ASSUME NEW v \in Values, NEW k \in DOMAIN ArraySize
  PROVE  CoerceTo(v, k) \in ScalarValues(k) \cup {Panic}
<1>1. v.go = k => v \in ScalarValues(k)
  BY DEF ValuesAssumption, Pointee, Basic, ArraySize
<1> QED
  BY <1>1, ScalarsUsed DEF CoerceTo

\* The outcomes of a conversion, by the kind of the type.
LEMMA OutcomesCases ==
  ASSUME NEW type \in GoTypes
  PROVE  /\ type.k = "ptr" => Outcomes[type] = Pointing(type.of.k, Outcomes[type.of])
         /\ type.k = "map" => Outcomes[type] = Mapping(type, Outcomes[type.key], Outcomes[type.of])
         /\ type.k = "slice" => Outcomes[type] = Listing(type, Outcomes[type.of])
         /\ type.k = "tuple" => Outcomes[type] = Listing(type, Values)
         /\ type.k \in {"decimal", "uuid", "point"} =>
                Outcomes[type] = ScalarValues(type.k) \cup {Panic}
         /\ type.k \in Scalars \ {"decimal"} => Outcomes[type] = ScalarValues(type.k)
<1>1. Outcomes[type] =
        CASE type.k = "ptr" -> Pointing(type.of.k, Outcomes[type.of])
          [] type.k = "map" -> Mapping(type, Outcomes[type.key], Outcomes[type.of])
          [] type.k = "slice" -> Listing(type, Outcomes[type.of])
          [] type.k = "tuple" -> Listing(type, Values)
          [] type.k \in {"decimal", "uuid", "point"} -> ScalarValues(type.k) \cup {Panic}
          [] OTHER -> ScalarValues(type.k)
  BY OutcomesDef
<1>2. (Scalars \ {"decimal"}) \cap {"ptr", "map", "slice", "tuple", "decimal", "uuid", "point"} = {}
  BY DEF Scalars
<1> QED
  BY <1>1, <1>2

LEMMA ConvertElemCases ==
  ASSUME NEW type \in GoTypes, NEW v \in Values
  PROVE  /\ type.k = "ptr" =>
                ConvertElem[type][v] = PointerOrPanic(type.of.k, ConvertElem[type.of][v])
         /\ type.k = "map" =>
                ConvertElem[type][v] =
                    BuildMap(v, type, ConvertElem[type.key], ConvertElem[type.of])
         /\ type.k = "slice" =>
                ConvertElem[type][v] = BuildSlice(v, type, ConvertElem[type.of])
         /\ type.k \in Scalars => ConvertElem[type][v] = ConvertScalar(v, type.k)
         /\ type.k = "tuple" =>
                ConvertElem[type][v] = BuildSlice(v, type, [e \in Values |-> e])
         /\ type.k \in DOMAIN ArraySize => ConvertElem[type][v] = CoerceTo(v, type.k)
<1>1. ConvertElem[type] = [u \in Values |->
        CASE type.k = "ptr" -> PointerOrPanic(type.of.k, ConvertElem[type.of][u])
          [] type.k \in Scalars -> ConvertScalar(u, type.k)
          [] type.k = "map" ->
                BuildMap(u, type, ConvertElem[type.key], ConvertElem[type.of])
          [] type.k = "slice" -> BuildSlice(u, type, ConvertElem[type.of])
          [] type.k = "tuple" -> BuildSlice(u, type, [e \in Values |-> e])
          [] type.k \in DOMAIN ArraySize -> CoerceTo(u, type.k)]
  BY ConvertElemDef
<1>2. ConvertElem[type][v] =
        CASE type.k = "ptr" -> PointerOrPanic(type.of.k, ConvertElem[type.of][v])
          [] type.k \in Scalars -> ConvertScalar(v, type.k)
          [] type.k = "map" ->
                BuildMap(v, type, ConvertElem[type.key], ConvertElem[type.of])
          [] type.k = "slice" -> BuildSlice(v, type, ConvertElem[type.of])
          [] type.k = "tuple" -> BuildSlice(v, type, [e \in Values |-> e])
          [] type.k \in DOMAIN ArraySize -> CoerceTo(v, type.k)
  BY <1>1
<1>3. /\ Scalars \cap {"ptr", "map", "slice", "tuple"} = {}
      /\ DOMAIN ArraySize \cap (Scalars \cup {"ptr", "map", "slice", "tuple"}) = {}
  BY DEF Scalars, ArraySize
<1> QED
  BY <1>2, <1>3

\* Whatever is given for an element, the driver gets a value of the Go type it
\* expects there: by induction over how deep the type nests.
LEMMA ElemFits ==
    \A type \in GoTypes : \A v \in Values :
       ConvertElem[type][v] \in Outcomes[type]
<1> DEFINE Fits(type) == \A v \in Values : ConvertElem[type][v] \in Outcomes[type]
           S == {n \in Nat : \A type \in GoLevel(n) : Fits(type)}
<1>1. 0 \in S
  BY GoLevels
<1>2. ASSUME NEW n \in Nat, NEW type \in GoLevel(n + 1), \A t \in GoLevel(n) : Fits(t)
      PROVE  Fits(type)
  <2> SUFFICES ASSUME NEW v \in Values PROVE ConvertElem[type][v] \in Outcomes[type]
    OBVIOUS
  <2>1. /\ type \in GoTypes
        /\ type.k \in LeafKinds \cup {"ptr", "slice", "map"}
        /\ \A part \in GoParts(type) : Fits(part)
    <3>1. n + 1 \in Nat
      OBVIOUS
    <3> QED
      BY <1>2, <3>1, GoLevels, GoTypeParts
  <2>2. CASE type.k = "ptr"
    <3>1. ConvertElem[type.of][v] \in Outcomes[type.of]
      BY <2>1, <2>2 DEF GoParts
    <3>2. ConvertElem[type][v] = PointerOrPanic(type.of.k, ConvertElem[type.of][v])
      BY <2>1, <2>2, ConvertElemCases
    <3>3. Outcomes[type] = Pointing(type.of.k, Outcomes[type.of])
      BY <2>1, <2>2, OutcomesCases
    <3> QED
      BY <3>1, <3>2, <3>3 DEF PointerOrPanic, Pointer, Pointing
  <2>3. CASE type.k = "map"
    <3>1. \A e \in Values : /\ ConvertElem[type.key][e] \in Outcomes[type.key]
                            /\ ConvertElem[type.of][e] \in Outcomes[type.of]
      BY <2>1, <2>3 DEF GoParts
    <3>2. BuildMap(v, type, ConvertElem[type.key], ConvertElem[type.of])
            \in Mapping(type, Outcomes[type.key], Outcomes[type.of])
      BY <3>1, BuildMapFits
    <3> QED
      BY <2>1, <2>3, <3>2, ConvertElemCases, OutcomesCases
  <2>4. CASE type.k = "slice"
    <3>1. \A e \in Values : ConvertElem[type.of][e] \in Outcomes[type.of]
      BY <2>1, <2>4 DEF GoParts
    <3>2. BuildSlice(v, type, ConvertElem[type.of]) \in Listing(type, Outcomes[type.of])
      BY <3>1, BuildSliceFits
    <3> QED
      BY <2>1, <2>4, <3>2, ConvertElemCases, OutcomesCases
  <2>5. CASE type.k = "tuple"
    <3> DEFINE asIs == [e \in Values |-> e]
    <3>1. \A e \in Values : asIs[e] \in Values
      OBVIOUS
    <3>2. ConvertElem[type][v] = BuildSlice(v, type, asIs)
      BY <2>1, <2>5, ConvertElemCases
    <3>3. Outcomes[type] = Listing(type, Values)
      BY <2>1, <2>5, OutcomesCases
    <3> HIDE DEF asIs
    <3>4. BuildSlice(v, type, asIs) \in Listing(type, Values)
      BY <3>1, BuildSliceFits
    <3> QED
      BY <3>2, <3>3, <3>4
  <2>6. CASE type.k \in Scalars
    <3>1. ConvertElem[type][v] = ConvertScalar(v, type.k)
      BY <2>1, <2>6, ConvertElemCases
    <3>2. ConvertScalar(v, type.k)
            \in ScalarValues(type.k) \cup (IF type.k = "decimal" THEN {Panic} ELSE {})
      BY <2>6, ConvertScalarFits
    <3> QED
      BY <2>1, <2>6, <3>1, <3>2, OutcomesCases
  <2>7. CASE type.k \in DOMAIN ArraySize
    <3>1. ConvertElem[type][v] = CoerceTo(v, type.k)
      BY <2>1, <2>7, ConvertElemCases
    <3>2. type.k \in {"uuid", "point"}
      BY <2>7 DEF ArraySize
    <3> QED
      BY <2>1, <2>7, <3>1, <3>2, CoerceToFits, OutcomesCases
  <2> QED
    BY <2>1, <2>2, <2>3, <2>4, <2>5, <2>6, <2>7 DEF LeafKinds, Scalars, ArraySize
<1>3. S = Nat
  <2>1. \A n \in S : n + 1 \in S
    <3> HIDE DEF Fits
    <3> QED
      BY <1>2
  <2> HIDE DEF S
  <2> QED
    BY <1>1, <2>1, AllLevels DEF S
<1> QED
  BY <1>3, GoLevels

----------------------------------------------------------------------------
(* Columns: what is inside the wrappers of a type, and the class the words in *)
(* its text give it.                                                        *)

\* Unwrapping ends at a type which is no wrapper, and misses no Nullable.
LEMMA UnwrappedFits ==
    \A type \in Types :
       /\ Unwrapped[type].base \in Types
       /\ Unwrapped[type].base.t \notin Wrappers
       /\ Unwrapped[type].nullable \in BOOLEAN
       /\ Nullable[type] => Unwrapped[type].nullable
<1> DEFINE u(type) == Unwrapped[type]
           Good(type) == /\ u(type).base \in Types /\ u(type).base.t \notin Wrappers
                         /\ u(type).nullable \in BOOLEAN
                         /\ Nullable[type] => u(type).nullable
           S == {n \in Nat : \A type \in Level(n) : Good(type)}
<1>1. 0 \in S
  BY Levels
<1>2. ASSUME NEW n \in Nat, NEW type \in Level(n + 1), \A t \in Level(n) : Good(t)
      PROVE  Good(type)
  <2>1. type \in Types
    <3>1. n + 1 \in Nat
      OBVIOUS
    <3> QED
      BY <3>1, Levels
  <2>2. u(type) = IF type.t \in Wrappers
                  THEN [base |-> u(type.of).base,
                        nullable |-> u(type.of).nullable \/ type.t = "Nullable"]
                  ELSE [base |-> type, nullable |-> FALSE]
    BY <2>1, UnwrappedDef
  <2>3. Nullable[type] = (type.t = "Nullable" \/ (type.t = "LowCardinality" /\ Nullable[type.of]))
    BY <2>1, NullableDef
  <2>4. CASE type.t \in Wrappers
    <3>1. type.of \in Parts(type)
      BY <2>4 DEF Parts, Wrappers
    <3>2. Good(type.of)
      BY <1>2, <3>1, Levels
    <3>3. /\ u(type).base = u(type.of).base
          /\ u(type).nullable = (u(type.of).nullable \/ type.t = "Nullable")
      BY <2>2, <2>4
    <3> HIDE DEF u
    <3>4. type.t = "Nullable" \/ type.t = "LowCardinality"
      BY <2>4 DEF Wrappers
    <3> QED
      BY <2>3, <3>2, <3>3, <3>4
  <2>5. CASE type.t \notin Wrappers
    <3>1. type.t # "Nullable" /\ type.t # "LowCardinality"
      BY <2>5 DEF Wrappers
    <3>2. u(type).base = type /\ u(type).nullable = FALSE
      BY <2>2, <2>5
    <3> HIDE DEF u
    <3> QED
      BY <2>1, <2>3, <2>5, <3>1, <3>2
  <2> QED
    BY <2>4, <2>5
<1>3. S = Nat
  <2>1. \A n \in S : n + 1 \in S
    <3> HIDE DEF Good
    <3> QED
      BY <1>2
  <2> HIDE DEF S
  <2> QED
    BY <1>1, <2>1, AllLevels DEF S
<1> QED
  BY <1>3, Levels

\* The first keyword of the switch that the text contains decides the class.
LEMMA FirstFound ==
  ASSUME NEW base, NEW m \in Found(base), \A j \in Found(base) : m <= j
  PROVE  ClassFound(base) = Keywords[m][2] /\ Found(base) # {}
<1>1. DOMAIN Keywords = 1..8
  BY DEF Keywords
<1>2. Found(base) \subseteq Nat
  BY <1>1 DEF Found
<1>3. \A i \in Found(base) : (\A j \in Found(base) : i <= j) => i = m
  BY <1>2
<1>4. (CHOOSE i \in Found(base) : \A j \in Found(base) : i <= j) = m
  BY <1>3
<1> QED
  BY <1>4 DEF ClassFound

\* The class of a type which is no container, by the words it contains.
LEMMA ClassByWords ==
  ASSUME NEW base, base.t \notin {"Map", "Array"}
  PROVE  /\ Words[base] = {"INT"} => ParsedType(base) = "Int"
         /\ Words[base] = {"STRING"} => ParsedType(base) = "String"
         /\ Words[base] = {"FLOAT"} => ParsedType(base) = "Float"
         /\ Words[base] = {"BOOL"} => ParsedType(base) = "Bool"
         /\ Words[base] = {"DATETIME", "DATE"} => ParsedType(base) = "DateTime"
         /\ Words[base] = {"DATE"} => ParsedType(base) = "Date"
         /\ Words[base] = {"DECIMAL"} => ParsedType(base) = "Decimal"
         /\ Words[base] = {"ENUM"} => ParsedType(base) = "Enum"
         /\ (Words[base] = {} /\ base.t = "IPv4") => ParsedType(base) = "IP"
<1> DEFINE W == Words[base]
<1>1. /\ DOMAIN Keywords = 1..8
      /\ Keywords[1] = <<"INT", "Int">> /\ Keywords[2] = <<"STRING", "String">>
      /\ Keywords[3] = <<"FLOAT", "Float">> /\ Keywords[4] = <<"BOOL", "Bool">>
      /\ Keywords[5] = <<"DATETIME", "DateTime">> /\ Keywords[6] = <<"DATE", "Date">>
      /\ Keywords[7] = <<"DECIMAL", "Decimal">> /\ Keywords[8] = <<"ENUM", "Enum">>
  BY DEF Keywords
<1>2. ASSUME NEW m \in 1..8, Keywords[m][1] \in W,
             \A j \in 1..8 : Keywords[j][1] \in W => m <= j
      PROVE  ParsedType(base) = Keywords[m][2]
  <2>1. m \in Found(base) /\ \A j \in Found(base) : m <= j
    BY <1>1, <1>2 DEF Found
  <2> QED
    BY <2>1, FirstFound DEF ParsedType
<1>3. /\ Keywords[1][1] = "INT" /\ Keywords[2][1] = "STRING"
      /\ Keywords[3][1] = "FLOAT" /\ Keywords[4][1] = "BOOL"
      /\ Keywords[5][1] = "DATETIME" /\ Keywords[6][1] = "DATE"
      /\ Keywords[7][1] = "DECIMAL" /\ Keywords[8][1] = "ENUM"
  BY <1>1
<1>4. /\ Keywords[1][2] = "Int" /\ Keywords[2][2] = "String"
      /\ Keywords[3][2] = "Float" /\ Keywords[4][2] = "Bool"
      /\ Keywords[5][2] = "DateTime" /\ Keywords[6][2] = "Date"
      /\ Keywords[7][2] = "Decimal" /\ Keywords[8][2] = "Enum"
  BY <1>1
<1>5. \A j \in 1..8 : j = 1 \/ j = 2 \/ j = 3 \/ j = 4 \/ j = 5 \/ j = 6 \/ j = 7 \/ j = 8
  OBVIOUS
<1> HIDE DEF W
<1>a. W = {"INT"} => ParsedType(base) = "Int"
  BY <1>2, <1>3, <1>4, <1>5
<1>b. W = {"STRING"} => ParsedType(base) = "String"
  BY <1>2, <1>3, <1>4, <1>5
<1>c. W = {"FLOAT"} => ParsedType(base) = "Float"
  BY <1>2, <1>3, <1>4, <1>5
<1>d. W = {"BOOL"} => ParsedType(base) = "Bool"
  BY <1>2, <1>3, <1>4, <1>5
<1>e. W = {"DATETIME", "DATE"} => ParsedType(base) = "DateTime"
  BY <1>2, <1>3, <1>4, <1>5
<1>f. W = {"DATE"} => ParsedType(base) = "Date"
  BY <1>2, <1>3, <1>4, <1>5
<1>g. W = {"DECIMAL"} => ParsedType(base) = "Decimal"
  BY <1>2, <1>3, <1>4, <1>5
<1>h. W = {"ENUM"} => ParsedType(base) = "Enum"
  BY <1>2, <1>3, <1>4, <1>5
<1>i. (W = {} /\ base.t = "IPv4") => ParsedType(base) = "IP"
  <2>1. W = {} => Found(base) = {}
    BY DEF Found, W
  <2> QED
    BY <2>1 DEF ParsedType
<1> QED
  BY <1>a, <1>b, <1>c, <1>d, <1>e, <1>f, <1>g, <1>h, <1>i DEF W

\* The class of every type the README's table has.
LEMMA ClassOfBase ==
  ASSUME NEW base \in Types
  PROVE  /\ base.t \in {"Map", "Array"} => ParsedType(base) = base.t
         /\ base.t \in {"Int8", "Int64", "UInt64"} => ParsedType(base) = "Int"
         /\ base.t \in {"String", "FixedString"} => ParsedType(base) = "String"
         /\ base.t = "Float64" => ParsedType(base) = "Float"
         /\ base.t = "Bool" => ParsedType(base) = "Bool"
         /\ base.t = "DateTime" => ParsedType(base) = "DateTime"
         /\ base.t = "Date" => ParsedType(base) = "Date"
         /\ base.t = "Decimal" => ParsedType(base) = "Decimal"
         /\ base.t = "IPv4" => ParsedType(base) = "IP"
         /\ (base.t = "Enum" /\ base.words = {}) => ParsedType(base) = "Enum"
<1>1. Words[base] =
        CASE base.t = "Enum" -> {"ENUM"} \cup base.words
          [] base.t \in DOMAIN ScalarWords -> ScalarWords[base.t]
          [] OTHER -> UNION {Words[part] : part \in Parts(base)}
  BY WordsDef
<1>2. /\ "Enum" \notin DOMAIN ScalarWords
      /\ {"Int8", "Int64", "UInt64", "String", "FixedString", "Float64", "Bool", "DateTime", "Date",
          "Decimal", "IPv4"} \subseteq DOMAIN ScalarWords
  BY DEF ScalarWords
<1>3. base.t = "Enum" => Words[base] = {"ENUM"} \cup base.words
  BY <1>1, <1>2
<1>4. ASSUME base.t \in {"Int8", "Int64", "UInt64", "String", "FixedString", "Float64", "Bool",
                         "DateTime", "Date", "Decimal", "IPv4"}
      PROVE  Words[base] = ScalarWords[base.t]
  <2>1. base.t \in DOMAIN ScalarWords /\ base.t # "Enum"
    BY <1>2, <1>4
  <2> QED
    BY <1>1, <2>1
<1>5. /\ ScalarWords["Int8"] = {"INT"} /\ ScalarWords["Int64"] = {"INT"}
      /\ ScalarWords["UInt64"] = {"INT"} /\ ScalarWords["String"] = {"STRING"}
      /\ ScalarWords["FixedString"] = {"STRING"} /\ ScalarWords["Float64"] = {"FLOAT"}
      /\ ScalarWords["Bool"] = {"BOOL"} /\ ScalarWords["DateTime"] = {"DATETIME", "DATE"}
      /\ ScalarWords["Date"] = {"DATE"} /\ ScalarWords["Decimal"] = {"DECIMAL"}
      /\ ScalarWords["IPv4"] = {}
  BY DEF ScalarWords
<1>6. base.t \in {"Map", "Array"} => ParsedType(base) = base.t
  BY DEF ParsedType
<1>7. base.t \in {"Int8", "Int64", "UInt64"} => ParsedType(base) = "Int"
  BY <1>4, <1>5, ClassByWords
<1>8. base.t \in {"String", "FixedString"} => ParsedType(base) = "String"
  BY <1>4, <1>5, ClassByWords
<1>9. /\ base.t = "Float64" => ParsedType(base) = "Float"
      /\ base.t = "Bool" => ParsedType(base) = "Bool"
  BY <1>4, <1>5, ClassByWords
<1>10. /\ base.t = "DateTime" => ParsedType(base) = "DateTime"
       /\ base.t = "Date" => ParsedType(base) = "Date"
  BY <1>4, <1>5, ClassByWords
<1>11. /\ base.t = "Decimal" => ParsedType(base) = "Decimal"
       /\ base.t = "IPv4" => ParsedType(base) = "IP"
  BY <1>4, <1>5, ClassByWords
<1>12. (base.t = "Enum" /\ base.words = {}) => ParsedType(base) = "Enum"
  BY <1>3, ClassByWords
<1> QED
  BY <1>6, <1>7, <1>8, <1>9, <1>10, <1>11, <1>12

\* The Go type of a container, when the driver knows one.
LEMMA ContainerType ==
  ASSUME NEW base \in Types, base.t \in {"Map", "Array"},
         ScanType[base] # Unresolved
  PROVE  /\ ScanType[base] \in GoTypes
         /\ ScanType[base].k = IF base.t = "Map" THEN "map" ELSE "slice"
         /\ \A part \in GoParts(ScanType[base]) : part \in GoTypes
<1>1. ScanType[base] \in GoTypes
  BY DEF GoTypes
<1>2. MaxDepth \in Nat /\ ScanType[base] \in GoLevel(MaxDepth + 1)
  BY <1>1, GoLevels DEF TypesAssumption
<1>3. \A part \in GoParts(ScanType[base]) : part \in GoTypes
  BY <1>2, GoLevels
<1>4. CASE base.t = "Map"
  <2>1. ScanType[base] = [k |-> "map", key |-> ScanType[base.key],
                               of |-> ScanType[base.of]]
    BY <1>4, ScanTypeCases
  <2> QED
    BY <1>1, <1>3, <1>4, <2>1
<1>5. CASE base.t = "Array"
  <2>1. ScanType[base] = [k |-> "slice", of |-> ScanType[base.of]]
    BY <1>5, ScanTypeCases
  <2> QED
    BY <1>1, <1>3, <1>5, <2>1
<1> QED
  BY <1>4, <1>5

\* A container column: what the driver is handed, for any value and for none.
LEMMA ContainerFits ==
  ASSUME NEW type \in GoTypes, \A part \in GoParts(type) : part \in GoTypes
  PROVE  /\ type.k = "map" =>
                \A v \in Values :
                    BuildMap(v, type, ConvertElem[type.key], ConvertElem[type.of])
                        \in Outcomes[type]
         /\ type.k = "slice" =>
                \A v \in Values :
                    BuildSlice(v, type, ConvertElem[type.of]) \in Outcomes[type]
         /\ type.k \in {"map", "slice"} => EmptyContainer(type) \in Outcomes[type]
<1>1. ASSUME type.k = "map", NEW v \in Values
      PROVE  BuildMap(v, type, ConvertElem[type.key], ConvertElem[type.of])
                \in Outcomes[type]
  <2>1. \A e \in Values : /\ ConvertElem[type.key][e] \in Outcomes[type.key]
                          /\ ConvertElem[type.of][e] \in Outcomes[type.of]
    BY <1>1, ElemFits DEF GoParts
  <2>2. BuildMap(v, type, ConvertElem[type.key], ConvertElem[type.of])
          \in Mapping(type, Outcomes[type.key], Outcomes[type.of])
    BY <2>1, BuildMapFits
  <2> QED
    BY <1>1, <2>2, OutcomesCases
<1>2. ASSUME type.k = "slice", NEW v \in Values
      PROVE  BuildSlice(v, type, ConvertElem[type.of]) \in Outcomes[type]
  <2>1. \A e \in Values : ConvertElem[type.of][e] \in Outcomes[type.of]
    BY <1>2, ElemFits DEF GoParts
  <2>2. BuildSlice(v, type, ConvertElem[type.of]) \in Listing(type, Outcomes[type.of])
    BY <2>1, BuildSliceFits
  <2> QED
    BY <1>2, <2>2, OutcomesCases
<1>3. ASSUME type.k = "map" PROVE EmptyContainer(type) \in Outcomes[type]
  <2>1. EmptyContainer(type) = [go |-> "map", type |-> type, pairs |-> {}]
    BY <1>3 DEF EmptyContainer, MapOf
  <2>2. EmptyContainer(type) \in Mapping(type, Outcomes[type.key], Outcomes[type.of])
    BY <2>1 DEF Mapping
  <2> QED
    BY <1>3, <2>2, OutcomesCases
<1>4. ASSUME type.k = "slice" PROVE EmptyContainer(type) \in Outcomes[type]
  <2>1. EmptyContainer(type) = [go |-> "slice", type |-> type, elems |-> <<>>]
    BY <1>4 DEF EmptyContainer, SliceOf
  <2>2. <<>> \in Seq(Outcomes[type.of] \ {Panic})
    OBVIOUS
  <2>3. EmptyContainer(type) \in Listing(type, Outcomes[type.of])
    BY <2>1, <2>2 DEF Listing
  <2> QED
    BY <1>4, <2>3, OutcomesCases
<1> QED
  BY <1>1, <1>2, <1>3, <1>4

----------------------------------------------------------------------------
(* What a row sends.                                                        *)

\* Of the keywords a text contains one comes first.
LEMMA SomeFirst ==
  ASSUME NEW base, Found(base) # {}
  PROVE  \E m \in Found(base) : \A j \in Found(base) : m <= j
<1> DEFINE R == OpToRel(<, Nat)
           T == Found(base)
<1>1. DOMAIN Keywords = 1..8
  BY DEF Keywords
<1>2. T \subseteq Nat
  BY <1>1 DEF Found
<1>3. IsWellFoundedOn(R, Nat)
  BY NatLessThanWellFounded
<1> HIDE DEF R, T
<1>4. PICK m \in T : \A j \in T : <<j, m>> \notin R
  BY <1>2, <1>3, WFMin DEF T
<1>5. \A j \in T : ~(j < m)
  BY <1>2, <1>4 DEF R, OpToRel
<1> QED
  BY <1>2, <1>5 DEF T

\* No keyword makes a column an array.
LEMMA OnlyArrays ==
  ASSUME NEW base, ParsedType(base) = "Array"
  PROVE  base.t = "Array"
<1> SUFFICES ASSUME base.t \notin {"Map", "Array"} PROVE FALSE
  BY DEF ParsedType
<1>1. Found(base) # {} /\ ClassFound(base) = "Array"
  BY DEF ParsedType
<1>2. PICK m \in Found(base) : \A j \in Found(base) : m <= j
  BY <1>1, SomeFirst
<1>3. Keywords[m][2] = "Array"
  BY <1>1, <1>2, FirstFound
<1>4. m \in DOMAIN Keywords
  BY <1>2 DEF Found
<1> QED
  BY <1>3, <1>4 DEF Keywords

\* The fields of a parsed column.
LEMMA ParsedColumn ==
  ASSUME NEW type \in Types, NEW d, NEW c, c = ParseColumnType(type, d)
  PROVE  /\ c.type = type
         /\ c.base = Unwrapped[type].base /\ c.base \in Types /\ c.base.t \notin Wrappers
         /\ c.nullable = Unwrapped[type].nullable
         /\ c.class = ParsedType(c.base)
         /\ c.class = "Enum" => c.first = EnumFirst(c.base)
         /\ c.class \in {"Map", "Array"} => c.scan = ScanType[c.base]
<1> DEFINE u == Unwrapped[type]
           class == ParsedType(u.base)
<1>1. c = [type |-> type, base |-> u.base, nullable |-> u.nullable, class |-> class,
           default |-> DefaultValue(d, class),
           first |-> IF class = "Enum" THEN EnumFirst(u.base) ELSE EmptyText,
           scan |-> IF class \in {"Map", "Array"} THEN ScanType[u.base] ELSE Unresolved]
  BY DEF ParseColumnType, Unwrap
<1>2. u.base \in Types /\ u.base.t \notin Wrappers
  BY UnwrappedFits
<1> HIDE DEF u
<1> QED
  BY <1>1, <1>2 DEF u

\* A value the row gives, and one it does not give, for a container column.
LEMMA ContainerColumnFits ==
  ASSUME NEW c, c.base \in Types, c.base.t \in {"Map", "Array"}, HasPromise(c.base),
         c.class = ParsedType(c.base), c.scan = ScanType[c.base]
  PROVE  /\ \A v \in Values : Convert(v, c) \in Promised(c.base)
         /\ ~c.nullable => ZeroValue(c) \in Promised(c.base)
<1>1. /\ c.scan \in GoTypes /\ c.scan # Unresolved
      /\ c.scan.k = IF c.base.t = "Map" THEN "map" ELSE "slice"
      /\ \A part \in GoParts(c.scan) : part \in GoTypes
  BY ContainerType DEF HasPromise
<1>2. Promised(c.base) = Outcomes[c.scan]
  BY DEF Promised
<1>3. c.class = c.base.t
  BY ClassOfBase
<1>4. ASSUME NEW v \in Values PROVE Convert(v, c) \in Promised(c.base)
  <2>1. Convert(v, c) =
          CASE c.scan = Unresolved -> Nil
            [] c.scan.k = "map" ->
                 BuildMap(v, c.scan, ConvertElem[c.scan.key], ConvertElem[c.scan.of])
            [] c.scan.k = "slice" -> BuildSlice(v, c.scan, ConvertElem[c.scan.of])
    BY <1>3 DEF Convert
  <2>2. CASE c.base.t = "Map"
    <3>1. Convert(v, c) =
            BuildMap(v, c.scan, ConvertElem[c.scan.key], ConvertElem[c.scan.of])
      BY <1>1, <2>1, <2>2
    <3> QED
      BY <1>1, <1>2, <2>2, <3>1, ContainerFits
  <2>3. CASE c.base.t = "Array"
    <3>1. Convert(v, c) = BuildSlice(v, c.scan, ConvertElem[c.scan.of])
      BY <1>1, <2>1, <2>3
    <3> QED
      BY <1>1, <1>2, <2>3, <3>1, ContainerFits
  <2> QED
    BY <2>2, <2>3
<1>5. ASSUME ~c.nullable PROVE ZeroValue(c) \in Promised(c.base)
  <2>1. c.class \notin DOMAIN ZeroOf /\ c.class # "Enum"
    BY <1>3 DEF ZeroOf
  <2>2. ZeroValue(c) = EmptyContainer(c.scan)
    BY <1>1, <1>3, <1>5, <2>1 DEF ZeroValue
  <2> QED
    BY <1>1, <1>2, <2>2, ContainerFits
<1> QED
  BY <1>4, <1>5

\* The same for a column of scalars.
LEMMA ScalarColumnFits ==
  ASSUME NEW c, c.base \in Types, HasPromise(c.base),
         c.base.t \notin {"Map", "Array"} \cup Wrappers,
         c.base.t = "Enum" => c.base.words = {},
         c.class = ParsedType(c.base), c.class = "Enum" => c.first = EnumFirst(c.base)
  PROVE  /\ \A v \in Values : (c.base.t = "Enum" => v.go = "string") =>
                Convert(v, c) \in Promised(c.base)
         /\ ~c.nullable => ZeroValue(c) \in Promised(c.base)
<1> DEFINE t == c.base.t
<1>1. t \in {"Int8", "Int64", "UInt64", "String", "FixedString", "Float64", "Bool", "DateTime",
             "Date", "Decimal", "IPv4", "Enum"}
  <2>1. t \in DOMAIN ScalarWords \cup {"Enum"}
    BY DEF TypesAssumption, HasPromise
  <2>2. DOMAIN ScalarWords \subseteq
          {"Int8", "Int64", "UInt64", "String", "FixedString", "Float64", "Bool", "DateTime",
           "Date", "Decimal", "IPv4", "Point", "UUID", "Variant"}
    BY DEF ScalarWords
  <2> QED
    BY <2>1, <2>2 DEF HasPromise
<1>2. /\ DriverKind["String"] = "string" /\ DriverKind["FixedString"] = "string"
      /\ DriverKind["Float64"] = "float64" /\ DriverKind["Bool"] = "bool"
      /\ DriverKind["DateTime"] = "time" /\ DriverKind["Date"] = "time"
      /\ DriverKind["Decimal"] = "decimal" /\ DriverKind["IPv4"] = "ip"
  BY DEF DriverKind
<1>3. /\ DOMAIN ZeroOf = {"Unknown", "String", "Int", "Float", "Decimal", "Bool", "DateTime",
                               "Date", "IP"}
      /\ ZeroOf["String"] \in ScalarValues("string")
      /\ ZeroOf["Int"] \in ScalarValues("int64")
      /\ ZeroOf["Float"] \in ScalarValues("float64")
      /\ ZeroOf["Decimal"] \in ScalarValues("decimal")
      /\ ZeroOf["Bool"] \in ScalarValues("bool")
      /\ ZeroOf["DateTime"] \in ScalarValues("time")
      /\ ZeroOf["Date"] \in ScalarValues("time")
      /\ ZeroOf["IP"] \in ScalarValues("ip")
  <2>1. /\ ZeroOf["String"] = Go("string", 0, "empty")
        /\ ZeroOf["Int"] = Go("int64", 0, "int")
        /\ ZeroOf["Float"] = Go("float64", 0, "int")
        /\ ZeroOf["Decimal"] = Go("decimal", 0, "int")
        /\ ZeroOf["Bool"] = Go("bool", 0, "false")
        /\ ZeroOf["DateTime"] = Go("time", 0, "epoch")
        /\ ZeroOf["Date"] = Go("time", 0, "epoch")
        /\ ZeroOf["IP"] = Go("ip", 0, "zero")
    BY DEF ZeroOf, EmptyText, Text, Number, Truth, MinTime,
           Instant, ZeroIP
  <2>2. DOMAIN ZeroOf = {"Unknown", "String", "Int", "Float", "Decimal", "Bool", "DateTime",
                              "Date", "IP"}
    BY DEF ZeroOf
  <2>3. ASSUME NEW kind, NEW form \in {"int", "empty", "false", "epoch", "zero"}
        PROVE  Go(kind, 0, form) \in ScalarValues(kind)
    <3>1. form \in Forms /\ 0 \in Int
      BY FormsUsed
    <3> QED
      BY <3>1, GoIsScalar
  <2> QED
    BY <2>1, <2>2, <2>3
<1>4. ASSUME NEW class, c.class = class, class \in DOMAIN ZeroOf, ~c.nullable
      PROVE  ZeroValue(c) = ZeroOf[class]
  <2>1. class # "Enum" /\ class \notin {"Map", "Array"}
    BY <1>3, <1>4
  <2> QED
    BY <1>4, <2>1 DEF ZeroValue
<1>5. CASE t \in {"Int8", "Int64", "UInt64"}
  <2>1. c.class = "Int" /\ Promised(c.base) = ScalarValues("int64")
    BY <1>5, ClassOfBase DEF Promised
  <2>2. \A v : Convert(v, c) = AsInt(v)
    BY <2>1 DEF Convert
  <2>3. ~c.nullable => ZeroValue(c) = ZeroOf["Int"]
    BY <1>3, <1>4, <2>1
  <2> QED
    BY <1>3, <2>1, <2>2, <2>3, AsIntFits
<1>6. CASE t \in {"String", "FixedString"}
  <2>1. c.class = "String" /\ Promised(c.base) = ScalarValues("string")
    BY <1>2, <1>6, ClassOfBase DEF Promised
  <2>2. \A v : Convert(v, c) = AsString(v)
    BY <2>1 DEF Convert
  <2>3. ~c.nullable => ZeroValue(c) = ZeroOf["String"]
    BY <1>3, <1>4, <2>1
  <2> QED
    BY <1>3, <2>1, <2>2, <2>3, AsStringFits
<1>7. CASE t = "Float64"
  <2>1. c.class = "Float" /\ Promised(c.base) = ScalarValues("float64")
    BY <1>2, <1>7, ClassOfBase DEF Promised
  <2>2. \A v : Convert(v, c) = AsFloat(v)
    BY <2>1 DEF Convert
  <2>3. ~c.nullable => ZeroValue(c) = ZeroOf["Float"]
    BY <1>3, <1>4, <2>1
  <2> QED
    BY <1>3, <2>1, <2>2, <2>3, AsFloatFits
<1>8. CASE t = "Bool"
  <2>1. c.class = "Bool" /\ Promised(c.base) = ScalarValues("bool")
    BY <1>2, <1>8, ClassOfBase DEF Promised
  <2>2. \A v : Convert(v, c) = AsBool(v)
    BY <2>1 DEF Convert
  <2>3. ~c.nullable => ZeroValue(c) = ZeroOf["Bool"]
    BY <1>3, <1>4, <2>1
  <2> QED
    BY <1>3, <2>1, <2>2, <2>3, AsBoolFits
<1>9. CASE t = "DateTime"
  <2>1. c.class = "DateTime" /\ Promised(c.base) = ScalarValues("time")
    BY <1>2, <1>9, ClassOfBase DEF Promised
  <2>2. \A v : Convert(v, c) = AsDateTime(v)
    BY <2>1 DEF Convert
  <2>3. ~c.nullable => ZeroValue(c) = ZeroOf["DateTime"]
    BY <1>3, <1>4, <2>1
  <2> QED
    BY <1>3, <2>1, <2>2, <2>3, TimesFit
<1>10. CASE t = "Date"
  <2>1. c.class = "Date" /\ Promised(c.base) = ScalarValues("time")
    BY <1>2, <1>10, ClassOfBase DEF Promised
  <2>2. \A v : Convert(v, c) = AsDate(v)
    BY <2>1 DEF Convert
  <2>3. ~c.nullable => ZeroValue(c) = ZeroOf["Date"]
    BY <1>3, <1>4, <2>1
  <2> QED
    BY <1>3, <2>1, <2>2, <2>3, TimesFit
<1>11. CASE t = "Decimal"
  <2>1. c.class = "Decimal" /\ Promised(c.base) = ScalarValues("decimal") \cup {Panic}
    BY <1>2, <1>11, ClassOfBase DEF Promised
  <2>2. \A v : Convert(v, c) = AsDecimal(v)
    BY <2>1 DEF Convert
  <2>3. ~c.nullable => ZeroValue(c) = ZeroOf["Decimal"]
    BY <1>3, <1>4, <2>1
  <2> QED
    BY <1>3, <2>1, <2>2, <2>3, AsDecimalFits
<1>12. CASE t = "IPv4"
  <2>1. c.class = "IP" /\ Promised(c.base) = ScalarValues("ip")
    BY <1>2, <1>12, ClassOfBase DEF Promised
  <2>2. \A v : Convert(v, c) = AsIP(v)
    BY <2>1 DEF Convert
  <2>3. ~c.nullable => ZeroValue(c) = ZeroOf["IP"]
    BY <1>3, <1>4, <2>1
  <2> QED
    BY <1>3, <2>1, <2>2, <2>3, AsIPFits
<1>13. CASE t = "Enum"
  <2>1. c.class = "Enum" /\ Promised(c.base) = ScalarValues("string")
    BY <1>13, ClassOfBase DEF Promised
  <2>2. c.first = c.base.first /\ c.base.first \in ScalarValues("string")
    BY <1>13, <2>1 DEF EnumFirst, TypesAssumption
  <2>3. ASSUME NEW v \in Values, v.go = "string" PROVE Convert(v, c) \in ScalarValues("string")
    <3>1. v \in ScalarValues("string")
      BY <2>3 DEF ValuesAssumption, Pointee, Basic, IntKinds
    <3>2. Convert(v, c) = AsEnum(v, c.first)
      BY <2>1 DEF Convert
    <3> QED
      BY <2>2, <3>1, <3>2 DEF AsEnum
  <2>4. ~c.nullable => ZeroValue(c) = c.first
    BY <1>3, <2>1 DEF ZeroValue
  <2> QED
    BY <1>13, <2>1, <2>2, <2>3, <2>4
<1> QED
  BY <1>1, <1>5, <1>6, <1>7, <1>8, <1>9, <1>10, <1>11, <1>12, <1>13

----------------------------------------------------------------------------
(* The column in use is parsed from DESCRIBE, and what the driver was last    *)
(* handed is what the code makes of the value given for that column.        *)

ConvInv ==
    /\ \E type \in Types, d \in Defaults \cup {NoDefault} : col = ParseColumnType(type, d)
    /\ \/ value = NotSent /\ sent = NotSent
       \/ value \in Values /\ sent = GetColumnValue(value, col)

LEMMA ConvInvHolds == ConverterSpec => []ConvInv
<1>1. ConverterInit => ConvInv
  BY DEF ConverterInit, ConvInv
<1>2. ConvInv /\ [ConverterNext]_converterVars => ConvInv'
  <2> SUFFICES ASSUME ConvInv, [ConverterNext]_converterVars PROVE ConvInv'
    OBVIOUS
  <2>1. ASSUME NEW type \in Types, NEW d \in Defaults, Describe(type, d) PROVE ConvInv'
    BY <2>1 DEF Describe, ConvInv
  <2>2. ASSUME NEW v \in Values, AppendRow(v) PROVE ConvInv'
    BY <2>2 DEF AppendRow, ConvInv
  <2>3. CASE UNCHANGED converterVars
    BY <2>3 DEF converterVars, ConvInv
  <2> QED
    BY <2>1, <2>2, <2>3 DEF ConverterNext
<1> QED
  BY <1>1, <1>2, PTL DEF ConverterSpec

\* NotSent is no value the code handles.
LEMMA NotSentIsNone ==
    /\ NotSent.go = "none" /\ NotSent # Nil
    /\ Pointee(NotSent) = NotSent
  BY DEF NotSent, Nil, Go, Pointee

\* Whatever the row gives for a column of the README's table, or if it gives
\* nothing and there is no default, the driver gets NULL for a Nullable column or a
\* value of the promised Go type, inside containers of any depth too.  The
\* only other outcome is a panic, where a Decimal, a UUID or a Point is involved.
THEOREM SentFitsHolds == ConverterSpec => []SentFits
<1>1. ConvInv => SentFits
  <2> SUFFICES ASSUME ConvInv, sent # NotSent, HasPromise(col.base),
                      value # Nil \/ col.default = Nil,
                      col.base.t = "Enum" => col.base.words = {} /\ value.go \in {"nil", "string"}
               PROVE  sent \in Promised(col.base) \/ (sent = Nil /\ col.nullable)
    BY DEF SentFits
  <2>1. value \in Values /\ sent = GetColumnValue(value, col)
    BY DEF ConvInv
  <2>2. PICK type \in Types, d \in Defaults \cup {NoDefault} :
            col = ParseColumnType(type, d)
    BY DEF ConvInv
  <2>3. /\ col.base \in Types /\ col.base.t \notin Wrappers
        /\ col.class = ParsedType(col.base)
        /\ col.class = "Enum" => col.first = EnumFirst(col.base)
        /\ col.class \in {"Map", "Array"} => col.scan = ScanType[col.base]
    BY <2>2, ParsedColumn
  <2>4. /\ (col.base.t = "Enum" => value.go = "string") =>
                Convert(value, col) \in Promised(col.base)
        /\ ~col.nullable => ZeroValue(col) \in Promised(col.base)
    <3>1. CASE col.base.t \in {"Map", "Array"}
      <4>1. col.class = col.base.t
        BY <2>3, <3>1, ClassOfBase
      <4> QED
        BY <2>1, <2>3, <3>1, <4>1, ContainerColumnFits
    <3>2. CASE col.base.t \notin {"Map", "Array"}
      BY <2>1, <2>3, <3>2, ScalarColumnFits
    <3> QED
      BY <3>1, <3>2
  <2>5. CASE value = Nil
    <3>1. sent = ZeroValue(col)
      BY <2>1, <2>5 DEF GetColumnValue
    <3>2. col.nullable => ZeroValue(col) = Nil
      BY DEF ZeroValue
    <3> QED
      BY <2>4, <3>1, <3>2
  <2>6. CASE value # Nil
    <3>1. sent = Convert(value, col)
      BY <2>1, <2>6 DEF GetColumnValue
    <3>2. col.base.t = "Enum" => value.go = "string"
      <4>1. ASSUME value.go = "nil" PROVE value = Nil
        BY <2>1, <4>1 DEF ValuesAssumption
      <4> QED
        BY <2>6, <4>1
    <3> QED
      BY <2>4, <3>1, <3>2
  <2> QED
    BY <2>5, <2>6
<1> QED
  BY <1>1, ConvInvHolds, PTL

\* A row that gives nothing for a column that is Nullable, at whatever depth of
\* LowCardinality, and has no default, stores NULL and not a zero value.
THEOREM AbsentIsNullHolds == ConverterSpec => []AbsentIsNull
<1>1. ConvInv => AbsentIsNull
  <2> SUFFICES ASSUME ConvInv, value = Nil, Nullable[col.type], col.default = Nil
               PROVE  sent = Nil
    BY DEF AbsentIsNull
  <2>1. sent = GetColumnValue(value, col)
    BY NotSentIsNone DEF ConvInv
  <2>2. PICK type \in Types, d \in Defaults \cup {NoDefault} :
            col = ParseColumnType(type, d)
    BY DEF ConvInv
  <2>3. col.nullable
    BY <2>2, ParsedColumn, UnwrappedFits
  <2> QED
    BY <2>1, <2>3 DEF GetColumnValue, ZeroValue
<1> QED
  BY <1>1, ConvInvHolds, PTL

\* An integer of any Go type, or a pointer to one, reaches an integer column
\* unchanged, or as the largest int64 when it is larger.
THEOREM IntsKeptHolds == ConverterSpec => []IntsKept
<1>1. ConvInv => IntsKept
  <2> DEFINE given == Pointee(value)
  <2> SUFFICES ASSUME ConvInv, sent # NotSent, col.base.t = "Int64",
                      given.go \in Signed \cup Unsigned
               PROVE  sent = Number("int64", IF given.n > WordMax THEN WordMax ELSE given.n)
    BY DEF IntsKept
  <2>1. value \in Values /\ sent = GetColumnValue(value, col)
    BY DEF ConvInv
  <2>2. PICK type \in Types, d \in Defaults \cup {NoDefault} :
            col = ParseColumnType(type, d)
    BY DEF ConvInv
  <2>3. col.class = "Int"
    BY <2>2, ParsedColumn, ClassOfBase
  <2>4. /\ {"nil", "ptr"} \cap (Signed \cup Unsigned) = {}
        /\ (Signed \cup Unsigned) \cap (Floats \cup {"bool", "string", "json"}) = {}
        /\ (Signed \cup Unsigned) \cap Unpointed = {}
        /\ Signed \cup Unsigned \subseteq IntKinds
    BY DEF Signed, Unsigned, Floats, Unpointed, IntKinds, Numeric
  <2>5. Nil.go = "nil"
    BY DEF Nil, Go
  <2>6. value # Nil /\ KindOf(value) = given.go /\ (value.go = "ptr" => value.to # Nil)
    BY <2>1, <2>4, <2>5 DEF Pointee, KindOf, ValuesAssumption
  <2>7. Takes(value, IntKinds, Unpointed)
    BY <2>4, <2>6 DEF Takes, KindOf
  <2>8. sent = AsInt(value)
    BY <2>1, <2>3, <2>6 DEF GetColumnValue, Convert
  <2>9. AsInt(value) = Number("int64", Clamp(given.n))
    <3> HIDE DEF given
    <3>1. KindOf(value) \in Signed \cup Unsigned
      BY <2>6
    <3> QED
      BY <2>4, <2>7, <3>1 DEF AsInt, given
  <2> QED
    BY <2>8, <2>9 DEF Clamp
<1> QED
  BY <1>1, ConvInvHolds, PTL

\* An array column gets as many elements as the row gave, null ones included, and
\* element i is what element i alone is converted to.
THEOREM PositionsKeptHolds == ConverterSpec => []PositionsKept
<1>1. ConvInv => PositionsKept
  <2> DEFINE given == IF value.go = "string" /\ value.form = "json" THEN value.doc
                      ELSE Pointee(value)
             one(e) == SliceOf(given.type, <<e>>)
             of == ConvertElem[sent.type.of]
  <2> SUFFICES ASSUME ConvInv, col.class = "Array", sent.go = "slice", given.go = "slice"
               PROVE  /\ Len(sent.elems) = Len(given.elems)
                      /\ \A i \in DOMAIN given.elems :
                            sent.elems[i] = BuildSlice(one(given.elems[i]), sent.type, of).elems[1]
    BY DEF PositionsKept
  <2>1. value \in Values /\ sent = GetColumnValue(value, col)
    BY NotSentIsNone DEF ConvInv
  <2>2. PICK type \in Types, d \in Defaults \cup {NoDefault} :
            col = ParseColumnType(type, d)
    BY DEF ConvInv
  <2>3. value # Nil /\ Nil.go = "nil"
    BY DEF Nil, Go, Pointee
  <2>4. NormalizeSliceInput(value) = given /\ given # Nil
    <3>1. Pointee(value).go \notin Indexed
      BY DEF Pointee, Indexed
    <3>2. NormalizeSliceInput(value) = Source(value, "slice", {"string"})
      BY <3>1 DEF NormalizeSliceInput
    <3>3. Source(value, "slice", {"string"}) = IF given.go = "slice" THEN given ELSE Nil
      BY DEF Source
    <3> QED
      BY <2>3, <3>2, <3>3
  <2>5. given.elems \in Seq(Values)
    BY <2>1, <2>4 DEF ValuesAssumption
  <2>6. sent = BuildSlice(value, col.scan, ConvertElem[col.scan.of])
    <3>1. sent = Convert(value, col)
      BY <2>1, <2>3 DEF GetColumnValue
    <3>2. col.base \in Types /\ col.scan = ScanType[col.base] /\ col.class = ParsedType(col.base)
      BY <2>2, ParsedColumn
    <3>3. sent = CASE col.scan = Unresolved -> Nil
                   [] col.scan.k = "map" ->
                        BuildMap(value, col.scan, ConvertElem[col.scan.key],
                                      ConvertElem[col.scan.of])
                   [] col.scan.k = "slice" ->
                        BuildSlice(value, col.scan, ConvertElem[col.scan.of])
      BY <3>1 DEF Convert
    <3>4. col.scan # Unresolved
      BY <2>3, <3>3 DEF Unresolved
    <3>5. col.scan.k = "slice"
      BY <3>2, <3>4, OnlyArrays, ContainerType
    <3> QED
      BY <3>3, <3>4, <3>5
  <2>7. /\ sent = [go |-> "slice", type |-> col.scan,
                   elems |-> [i \in DOMAIN given.elems |->
                                   ConvertElem[col.scan.of][given.elems[i]]]]
        /\ \A i \in DOMAIN given.elems : ConvertElem[col.scan.of][given.elems[i]] # Panic
    <3> DEFINE elems == [i \in DOMAIN given.elems |-> ConvertElem[col.scan.of][given.elems[i]]]
    <3>1. sent = SliceOrPanic(col.scan, elems)
      BY <2>4, <2>6 DEF BuildSlice
    <3>2. sent # Panic
      BY DEF Panic, Go
    <3> HIDE DEF elems
    <3>3. ~\E i \in DOMAIN elems : elems[i] = Panic
      BY <3>1, <3>2 DEF SliceOrPanic
    <3>4. sent = [go |-> "slice", type |-> col.scan, elems |-> elems]
      BY <3>1, <3>3 DEF SliceOrPanic, SliceOf
    <3> QED
      BY <3>3, <3>4 DEF elems
  <2>8. /\ sent.type = col.scan
        /\ sent.elems = [i \in DOMAIN given.elems |-> of[given.elems[i]]]
        /\ \A i \in DOMAIN given.elems : of[given.elems[i]] # Panic
    BY <2>7
  <2>9. Len(given.elems) \in Nat /\ DOMAIN given.elems = 1..Len(given.elems)
    BY <2>5
  <2>10. ASSUME NEW e, of[e] # Panic
         PROVE  BuildSlice(one(e), sent.type, of).elems[1] = of[e]
    <3>1. one(e).go = "slice" /\ one(e).elems = <<e>>
      BY DEF SliceOf
    <3> DEFINE v == one(e)
    <3> HIDE DEF one
    <3>2. Pointee(v) = v
      BY <3>1 DEF Pointee
    <3>3. NormalizeSliceInput(v) = v
      BY <3>1, <3>2 DEF NormalizeSliceInput, Source, Indexed
    <3>4. v # Nil
      BY <2>3, <3>1
    <3> HIDE DEF of, v
    <3> DEFINE elems == [i \in DOMAIN v.elems |-> of[v.elems[i]]]
    <3>5. BuildSlice(v, sent.type, of) = SliceOrPanic(sent.type, elems)
      BY <3>3, <3>4 DEF BuildSlice
    <3>6. v.elems = <<e>>
      BY <3>1 DEF v
    <3>7. DOMAIN v.elems = {1} /\ v.elems[1] = e
      BY <3>6
    <3>8. DOMAIN elems = {1} /\ elems[1] = of[e]
      BY <3>7
    <3> HIDE DEF elems
    <3>9. ~\E i \in DOMAIN elems : elems[i] = Panic
      BY <2>10, <3>8
    <3>10. SliceOrPanic(sent.type, elems) = [go |-> "slice", type |-> sent.type, elems |-> elems]
      BY <3>9 DEF SliceOrPanic, SliceOf
    <3> QED
      BY <3>5, <3>8, <3>10 DEF v
  <2> HIDE DEF of, one
  <2>11. Len(sent.elems) = Len(given.elems)
    BY <2>8, <2>9
  <2>12. ASSUME NEW i \in DOMAIN given.elems
         PROVE  sent.elems[i] = BuildSlice(one(given.elems[i]), sent.type, of).elems[1]
    BY <2>8, <2>10
  <2> QED
    BY <2>11, <2>12
<1> QED
  BY <1>1, ConvInvHolds, PTL

=============================================================================
