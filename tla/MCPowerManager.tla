---------------------------- MODULE MCPowerManager ----------------------------
(***************************************************************************)
(* Instances of the power FSM for TLC.  Each cfg chooses the inputs whose  *)
(* interplay it explores: the commands, vehicle states, batteries,         *)
(* inhibitors and failures that occur, at most MaxInputs in a behaviour.   *)
(***************************************************************************)
EXTENDS PowerProperties
=============================================================================
