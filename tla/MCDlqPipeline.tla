--------------------------- MODULE MCDlqPipeline ---------------------------
(* TLC instance of DlqPipeline: one call of two rows of two tables, a batch  *)
(* of two, an application that shuts down while a query, the reading of its  *)
(* rows and the write are under way.                                         *)
EXTENDS DlqPipeline

CONSTANTS r1, r2, t1, t2

MCRows == {r1, r2}
MCTables == {t1, t2}
MCTableOf == [r \in MCRows |-> IF r = r1 THEN t1 ELSE t2]
MCCalls == {<<r1, r2>>}
=============================================================================
