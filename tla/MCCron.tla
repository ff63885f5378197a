------------------------------- MODULE MCCron -------------------------------
(* TLC instance of Cron: a chain of two tasks, one of a single task, one     *)
(* without tasks and one with a bad spec; a custom middleware that panics.   *)
EXTENDS Cron

CONSTANTS report, purge, empty, bad

MCChains == {report, purge, empty, bad}
MCTaskCount == [c \in MCChains |-> CASE c = report -> 2 [] c = empty -> 0 [] OTHER -> 1]
MCCustom == <<"user">>
=============================================================================
