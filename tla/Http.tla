-------------------------------- MODULE Http --------------------------------
(* The HTTP requests of a service, shared by Health and RedMetrics.  gin and *)
(* net/http are external; what the code sees of a request is in Serving.     *)
EXTENDS Naturals, FiniteSets

CONSTANT Requests

ASSUME RequestsAssumption == IsFiniteSet(Requests)
=============================================================================
