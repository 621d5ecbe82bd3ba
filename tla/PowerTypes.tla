------------------------------ MODULE PowerTypes ------------------------------
(***************************************************************************)
(* The vocabulary of pm-service's power FSM (internal/fsm/types.go): its   *)
(* states, targets and events, and the priority order of the targets.      *)
(* StateSuspended is left out: only EvLowPowerIssued leads there, and no   *)
(* code sends it.                                                          *)
(***************************************************************************)
EXTENDS Naturals, Sequences

CONSTANT DefaultStates   \* the values pm.default-state takes in this instance

States == {"running", "pre-suspend", "suspend-imminent", "low-power-imminent",
           "waiting-inhibitors", "issuing-low-power"}

LowPowerStates == States \ {"running"}

\* The states with a librefsm.WithTimeout.
TimedStates == LowPowerStates \ {"issuing-low-power"}

\* The states whose entry action does more than log.
EntryStates == {"low-power-imminent", "waiting-inhibitors", "issuing-low-power"}

Targets == {"run", "suspend", "hibernate", "hibernate-manual",
            "hibernate-timer", "hibernate-for", "reboot"}

\* The targets that end in poweroff or reboot rather than suspend-to-RAM.
HibernatePath == Targets \ {"run", "suspend"}

\* The targets that only an explicit user request, or a schedule, asks for.
ExplicitTargets == {"hibernate-manual", "hibernate-for"}

VehicleStates == {"stand-by", "parked", "shutting-down", "ready-to-drive"}

\* What isValidDefaultState accepts: everything but hibernate-for.
ValidDefaultStates == Targets \ {"hibernate-for"}

ASSUME DefaultStatesAssumption ==
    /\ DefaultStates \subseteq ValidDefaultStates
    /\ DefaultStates # {}

-----------------------------------------------------------------------------
(* Target priorities.                                                      *)

Tier(t) == IF t \in ExplicitTargets THEN 3
           ELSE IF t = "hibernate" THEN 2
           ELSE IF t = "hibernate-timer" THEN 1
           ELSE 0

\* A command replaces the current target unless that would be a downgrade.
IsPowerCommandHigherPriority(new, current) ==
    new = "run" \/ Tier(new) >= Tier(current)

-----------------------------------------------------------------------------
(* Events.  One record shape for all payloads; a field an event does not   *)
(* carry has the value its constructor gives it.                           *)

PowerCommandIds == {"power-suspend", "power-hibernate", "power-hibernate-for",
                    "power-hibernate-timer", "power-reboot",
                    "hibernation-timer-expired"}

\* The target each command event carries.
CommandTarget(id) ==
    IF id = "power-suspend" THEN "suspend"
    ELSE IF id = "power-hibernate" THEN "hibernate"
    ELSE IF id = "power-hibernate-for" THEN "hibernate-for"
    ELSE IF id = "power-reboot" THEN "reboot"
    ELSE "hibernate-timer"

\* Events on which a pending transition is first checked for cancellation.
RecheckIds == {"power-eligibility-changed", "pre-suspend-timeout",
               "suspend-imminent-timeout", "inhibitors-changed",
               "inhibitor-wait-timeout"}

EventIds == PowerCommandIds \cup RecheckIds \cup
    {"power-run", "explicit-hibernate", "hibernate-preparation-failed",
     "vehicle-state-changed", "battery-became-active",
     "battery-became-inactive", "suspend-cancelled",
     "late-blocking-inhibitor", "last-ditch-check", "last-ditch-disabled",
     "default-state-changed", "wakeup", "wakeup-rtc"}

WellFormed(e) ==
    /\ e.id \in PowerCommandIds => e.target = CommandTarget(e.id)
    /\ e.id = "power-run" => e.target = "run"
    /\ e.id = "explicit-hibernate" => e.target \in ExplicitTargets
    /\ e.id = "default-state-changed" =>
         e.target \in DefaultStates \ {"run"} /\ DefaultStates # {e.target}
    /\ e.id \in PowerCommandIds \cup {"power-run", "explicit-hibernate"}
         => (e.secs > 0 <=> e.target = "hibernate-for")

Events == {e \in [id : EventIds, target : Targets, secs : Nat,
                  vehicle : VehicleStates, request : Nat] : WellFormed(e)}

Signal(id) ==
    [id |-> id, target |-> "run", secs |-> 0,
     vehicle |-> "parked", request |-> 0]

Command(id, t, s) ==
    [id |-> id, target |-> t, secs |-> s,
     vehicle |-> "parked", request |-> 0]

VehicleStateChanged(v) ==
    [id |-> "vehicle-state-changed", target |-> "run", secs |-> 0,
     vehicle |-> v, request |-> 0]

PreparationFailed(r) ==
    [id |-> "hibernate-preparation-failed", target |-> "run", secs |-> 0,
     vehicle |-> "parked", request |-> r]

PowerRun == Signal("power-run")

\* The timeout event of a timed state.
TimeoutEvent(s) ==
    Signal(IF s = "pre-suspend" THEN "pre-suspend-timeout"
           ELSE IF s = "waiting-inhibitors" THEN "inhibitor-wait-timeout"
           ELSE "suspend-imminent-timeout")
=============================================================================
