----------------------------- MODULE MCScheduler -----------------------------
(***************************************************************************)
(* The schedule for TLC: two occurrences, so that one can be missed and    *)
(* the next be due.                                                        *)
(***************************************************************************)
EXTENDS Scheduler
=============================================================================
