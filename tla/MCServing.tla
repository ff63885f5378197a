------------------------------ MODULE MCServing ------------------------------
(* TLC instance of Serving: two requests, two middlewares of one registry    *)
(* with the default skip list, two checkers under one name, of which one     *)
(* honours its context and the other does not.                               *)
EXTENDS Serving

MCNameOf == <<"db", "db">>
MCSkip == {"/health"}
=============================================================================
