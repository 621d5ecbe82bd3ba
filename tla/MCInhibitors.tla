----------------------------- MODULE MCInhibitors -----------------------------
(***************************************************************************)
(* The inhibitors for TLC: a connection that comes and goes beside a field *)
(* of the hash that does.                                                  *)
(***************************************************************************)
EXTENDS Inhibitors
=============================================================================
