--------------------------- MODULE SuspendHandshake ---------------------------
(***************************************************************************)
(* What the clock coordinator promises to whoever suspends the board: a    *)
(* step of the system clock and an admitted suspend exclude each other,    *)
(* and there is never more than one step.                                  *)
(***************************************************************************)
VARIABLES stepping,     \* chrony is carrying out a makestep
          admitted      \* a suspend has been admitted and not been given back

Init == stepping = FALSE /\ admitted = FALSE

StartStep == ~stepping /\ ~admitted /\ stepping' = TRUE /\ UNCHANGED admitted

FinishStep == stepping /\ stepping' = FALSE /\ UNCHANGED admitted

Admit == ~stepping /\ ~admitted /\ admitted' = TRUE /\ UNCHANGED stepping

Release == admitted /\ admitted' = FALSE /\ UNCHANGED stepping

\* A reboot ends both.
Reboot == stepping' = FALSE /\ admitted' = FALSE

Next == StartStep \/ FinishStep \/ Admit \/ Release \/ Reboot

Spec == Init /\ [][Next]_<<stepping, admitted>>
=============================================================================
