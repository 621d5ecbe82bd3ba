---------------------------- MODULE InhibitorGate ----------------------------
(***************************************************************************)
(* What the inhibitors promise to the power FSM: the wait for a target     *)
(* goes on while something blocks the target, and it does not outlast the  *)
(* last thing that does.                                                   *)
(***************************************************************************)
CONSTANT Targets

VARIABLES stage,        \* whether the FSM waits, has gone on, or is elsewhere
          target,       \* what it waits for
          blocked       \* the targets that are blocked

vars == <<stage, target, blocked>>

Init == stage = "none" /\ target \in Targets /\ blocked \in SUBSET Targets

\* Inhibitors come and go.
Change == blocked' \in SUBSET Targets /\ UNCHANGED <<stage, target>>

Start == stage = "none" /\ stage' = "elsewhere" /\ UNCHANGED <<target, blocked>>

Wait ==
    /\ stage = "elsewhere" /\ stage' = "waiting"
    /\ target' \in Targets /\ UNCHANGED blocked

Proceed ==
    /\ stage = "waiting" /\ target \notin blocked
    /\ stage' = "issuing" /\ UNCHANGED <<target, blocked>>

\* Any other event of the FSM.
Leave ==
    /\ stage \in {"waiting", "issuing"} /\ stage' = "elsewhere"
    /\ target' \in Targets /\ UNCHANGED blocked

Next == Change \/ Start \/ Wait \/ Proceed \/ Leave

Spec == Init /\ [][Next]_vars /\ WF_vars(Proceed)
=============================================================================
