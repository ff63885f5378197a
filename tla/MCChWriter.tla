----------------------------- MODULE MCChWriter -----------------------------
(* TLC instances of ChWriter: two tables, a nil row, single- and multi-row   *)
(* calls.  Every constant the runs vary is given in the cfg.                 *)
EXTENDS ChWriter, TLC

CONSTANTS r1, r2, r3, nil, t1, t2, w1, w2, k1

MCRows == {r1, r2, r3, nil}
MCNilRows == {nil}
MCTables == {t1, t2}
MCTableOf == [r \in MCRows |-> IF r = r1 THEN t2 ELSE t1]

\* A call with two tables, a call led by a nil row.
MCCalls == {<<r1, r2>>, <<nil, r3>>}

\* Goroutines inside Write are interchangeable.
MCSymmetry == Permutations({w1, w2})
=============================================================================
