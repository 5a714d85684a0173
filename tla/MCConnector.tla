----------------------------- MODULE MCConnector -----------------------------
(* Connector on a small instance.  Callers, instances and subscriptions are *)
(* interchangeable, but liveness is checked in the same run: no symmetry.   *)
EXTENDS Connector
=============================================================================
