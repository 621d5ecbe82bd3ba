-------------------------- MODULE MCClockCoordinator --------------------------
(***************************************************************************)
(* The clock coordinator and its client for TLC.  Two connections are the  *)
(* request of pm-service and one that outlived its client.                 *)
(***************************************************************************)
EXTENDS ClockCoordinator, TLC

HandlerSymmetry == Permutations(Handlers)
=============================================================================
