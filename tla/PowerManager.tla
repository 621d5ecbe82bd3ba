----------------------------- MODULE PowerManager -----------------------------
(***************************************************************************)
(* pm-service's power FSM and the actions behind it: the single FSM        *)
(* goroutine that takes events from a FIFO queue                           *)
(* (internal/fsm/definition.go), the guards, transition actions and entry  *)
(* actions (internal/service/service.go, hibernate_request.go), and the    *)
(* goroutines that send it events, interleaved with the live Redis state   *)
(* those guards re-read.                                                   *)
(*                                                                         *)
(* An event is handled in one step, up to the next point at which the FSM  *)
(* goroutine blocks or hands over: `phase' says where it is.  "accept" is  *)
(* between the guard and the action of an explicit request, "enter" is     *)
(* before an entry action, and the others are the blocking points of       *)
(* EnterIssuingLowPower.                                                   *)
(***************************************************************************)
EXTENDS PowerTypes

CONSTANTS
    Commands,     \* the scooter:power commands users send
    Durations,    \* the wake durations users and the schedule ask for, in seconds
    Vehicles,     \* the vehicle states that occur
    Batteries,    \* the main-battery situations that occur
    Inhibitors,   \* the inhibitors clients may hold
    Inputs,       \* the other inputs this instance exercises
    MaxInputs     \* bound on the number of inputs in a behaviour

CommandNames == {"run", "suspend", "hibernate", "hibernate-for", "hibernate-auto",
                 "hibernate-timer", "reboot", "hibernate-cancel"}

\* Both slots in one value: nothing present, only empty packs, a charged pack,
\* or a pack that delivers power.
BatterySituations == {"absent", "empty", "charged", "active"}

\* A block inhibitor of librescoot-modem, any other block inhibitor, and a
\* suspend-only inhibitor.
InhibitorKinds == {"modem", "block", "suspend-only"}

InputKinds == {"reserve", "last-ditch-setting", "online-setting",
               "remote-access", "schedule", "hibernation-timer", "rejection",
               "issue-failure", "suspend-failure", "boot-grace"}

ASSUME ConstantsAssumption ==
    /\ Commands \subseteq CommandNames
    /\ Durations \subseteq Nat
    /\ Vehicles \subseteq VehicleStates /\ Vehicles # {}
    /\ Batteries \subseteq BatterySituations /\ Batteries # {}
    /\ Inhibitors \subseteq InhibitorKinds
    /\ Inputs \subseteq InputKinds
    /\ MaxInputs \in Nat

VARIABLES
    \* the FSM (librefsm)
    fsmState,          \* current state
    phase,             \* where the FSM goroutine is within a step
    stateTimer,        \* the timeout of the current state is running
    queue,             \* events sent and not yet handled
    \* fsmData
    target,            \* TargetPowerState
    vehicle,           \* VehicleState, as of the last event handled
    requestID,         \* HibernateRequestID; 0 is ""
    wakeSeconds,       \* HibernateForWakeSeconds
    automatic,         \* AutomaticLastDitch
    fallback,          \* LastDitchFallbackTarget; "none" is ""
    modemDisabled,     \* ModemDisabled
    \* other fields of Service
    wakeTimerArmed,    \* the nRF echoed this round's duration
    wakeTimerAcks,     \* the size-1 channel of echoed durations, as a set
    quiesceAcks,       \* the size-1 channel of suspending confirmations
    preparationTimer,  \* the request the preparation timeout is for, or 0
    hibernationTimer,  \* the auto-hibernation timer is active
    delayInhibitor,    \* "held", "removing" (removal scheduled) or "none"
    lastRequestID,     \* the last request ID drawn
    standbySeen,       \* lastDitchVehicleStandby
    defaultState,      \* config.DefaultState
    lastDitchEnabled,  \* pm.last-ditch-hibernate-enabled
    suspendWhenOnline, \* pm.suspend-when-online
    bootGrace,         \* lastDitchGraceUntil is in the future
    \* what Redis and the inhibitor manager hold now
    liveVehicle, liveBattery, reserveLow,
    remoteAccess,      \* a provider is connected or within reconnect grace
    inhibitors,
    wakeTimerSeconds,  \* power-manager wake-timer-seconds
    \* bluetooth-service and the nRF52
    armRequest,        \* a wake-timer-seconds value not yet applied, as a set
    nrfTimer,          \* the duration armed on the nRF52; 0 is disarmed
    nrfEcho,           \* an echo on its way back, as a set
    announced,         \* "suspending" on its way to the nRF52
    \* the rest of the world
    power,             \* "on", "asleep", "off" or "rebooting"
    unseen,            \* inputs that changed and were not yet notified
    late,              \* history: inputs changed after the last re-check
    inputs             \* inputs left in this behaviour

fsmVars == <<fsmState, phase, stateTimer, queue, delayInhibitor>>
dataVars == <<target, vehicle, requestID, wakeSeconds, automatic, fallback,
              modemDisabled>>
wakeVars == <<wakeTimerArmed, wakeTimerAcks, wakeTimerSeconds, armRequest>>
requestVars == <<preparationTimer, lastRequestID>>
settingVars == <<defaultState, lastDitchEnabled, suspendWhenOnline, bootGrace>>
liveVars == <<liveVehicle, liveBattery, reserveLow, remoteAccess, inhibitors>>
nrfVars == <<nrfTimer, nrfEcho>>
quiesceVars == <<quiesceAcks, announced>>
worldVars == <<settingVars, liveVars, nrfVars, power, unseen, inputs, standbySeen>>

vars == <<fsmVars, dataVars, wakeVars, requestVars, quiesceVars, worldVars,
          hibernationTimer, late>>

Watched == {"vehicle", "battery", "reserve", "inhibitors"}

\* The phases from which EnterIssuingLowPower goes down without another check.
CommittedPhases == {"prepare", "sleep", "final"}

Phases == {"idle", "accept", "enter", "wake-ack", "gate", "quiesce", "commit",
           "asleep", "resume"} \cup CommittedPhases

-----------------------------------------------------------------------------
(* Guards.  The targets and vehicle states they take come from the event   *)
(* if it carries one and from fsmData otherwise.                           *)

SuspendBlockedWhileOnline == ~suspendWhenOnline /\ remoteAccess

\* A mutant of the entry guard: the vehicle state is not looked at.
CanEnterAnywhere(t, v) ==
    /\ t # "run"
    /\ t = "suspend" => liveBattery = "absent" /\ ~SuspendBlockedWhileOnline

CanEnterLowPowerState(t, v) ==
    /\ t # "run"
    /\ v = "stand-by" \/ (t = "reboot" /\ v = "shutting-down")
    /\ t = "suspend" => liveBattery = "absent" /\ ~SuspendBlockedWhileOnline

IsLastDitchTriggered ==
    /\ lastDitchEnabled
    /\ liveBattery \in {"absent", "empty"}
    /\ reserveLow
    /\ ~bootGrace

\* A mutant of the re-check: recovery of the reserve is not noticed.
OnlySuspendIsCancelled ==
    /\ ~automatic
    /\ target = "suspend"
    /\ liveVehicle # "stand-by" \/ ~CanEnterLowPowerState(target, vehicle)

ShouldCancelLowPower ==
    IF automatic
    THEN ~IsLastDitchTriggered
    ELSE /\ target = "suspend"
         /\ liveVehicle # "stand-by" \/ ~CanEnterLowPowerState(target, vehicle)

\* The inhibitors that stand in the way of target t.
Blocking(t) == IF t \in HibernatePath THEN inhibitors \ {"suspend-only"}
               ELSE inhibitors

HasBlockingInhibitors(t) == Blocking(t) # {}
HasOnlyModemBlockingInhibitors(t) == Blocking(t) = {"modem"}

CanProceedPastModemWait(t) ==
    ~HasBlockingInhibitors(t) \/ HasOnlyModemBlockingInhibitors(t)

\* The conditions of explicitHibernateState, on the live vehicle state.
ExplicitHibernateAllowed(t) ==
    /\ liveVehicle \in {"stand-by", "parked"}
    /\ liveVehicle = "parked" /\ HasBlockingInhibitors(t)
         => HasOnlyModemBlockingInhibitors(t)

-----------------------------------------------------------------------------
(* The event loop.                                                         *)

Ev == Head(queue)

On(states, ids) ==
    /\ power = "on" /\ phase = "idle" /\ queue # << >>
    /\ fsmState \in states
    /\ Ev.id \in ids

\* The event is handled; the handler sends `sent'.
Take(sent) == queue' = Tail(queue) \o sent

\* A transition to state s, self-transitions included.  Leaving
\* issuing-low-power schedules the removal of the delay inhibitor.
Goto(s) ==
    /\ fsmState' = s
    /\ phase' = IF s \in EntryStates THEN "enter" ELSE "idle"
    /\ stateTimer' = (s \in TimedStates)
    /\ delayInhibitor' =
         IF fsmState = "issuing-low-power" /\ delayInhibitor # "none"
         THEN "removing" ELSE delayInhibitor
    /\ late' = {}

SetWakeTimer(n) == wakeTimerSeconds' = n /\ armRequest' = {n}

\* A mutant of clearHibernateRequest: the nRF keeps the cancelled duration.
ForgetWithoutDisarming ==
    /\ requestID' = 0 /\ preparationTimer' = 0 /\ wakeTimerArmed' = FALSE
    /\ UNCHANGED <<wakeTimerSeconds, armRequest>>

\* clearHibernateRequest but for HibernateForWakeSeconds, which a new command
\* sets in the same step.
ForgetHibernateRequest ==
    /\ requestID' = 0 /\ preparationTimer' = 0 /\ wakeTimerArmed' = FALSE
    /\ IF wakeSeconds > 0 \/ wakeTimerArmed
       THEN SetWakeTimer(0) ELSE UNCHANGED <<wakeTimerSeconds, armRequest>>

ClearHibernateRequest == ForgetHibernateRequest /\ wakeSeconds' = 0

ClearAutomaticLastDitch == automatic' = FALSE /\ fallback' = "none"

\* A mutant of OnPowerCommand: the automatic provenance outlives the target.
StoreKeepingProvenance(e) ==
    /\ ForgetHibernateRequest
    /\ target' = e.target
    /\ wakeSeconds' = e.secs
    /\ UNCHANGED <<automatic, fallback>>
    /\ modemDisabled' = (modemDisabled /\ e.target # "run")

\* OnPowerCommand for anything but an explicit request.
StorePowerCommand(e) ==
    /\ ForgetHibernateRequest
    /\ target' = e.target
    /\ wakeSeconds' = e.secs
    /\ ClearAutomaticLastDitch
    /\ modemDisabled' = (modemDisabled /\ e.target # "run")

OnPowerCommand ==
    /\ StorePowerCommand(Ev)
    /\ Take(<< >>)
    /\ UNCHANGED <<vehicle, wakeTimerAcks, lastRequestID, hibernationTimer,
                   quiesceVars, worldVars>>

-----------------------------------------------------------------------------
(* Cancelling a pending transition.                                        *)

\* OnLastDitchDisabled: back to the fallback, and have it evaluated.
OnLastDitchDisabled ==
    /\ target' = IF fallback = "none" THEN defaultState ELSE fallback
    /\ wakeSeconds' = 0 /\ wakeTimerArmed' = FALSE
    /\ ClearAutomaticLastDitch
    /\ modemDisabled' = FALSE
    /\ Take(<<VehicleStateChanged(liveVehicle)>>)

\* A mutant of OnLowPowerCancelled: the modem stays off.
CancelLeavingModemOff ==
    IF automatic THEN OnLastDitchDisabled
    ELSE /\ Take(<< >>)
         /\ UNCHANGED <<target, wakeSeconds, wakeTimerArmed, automatic, fallback,
                        modemDisabled>>

OnLowPowerCancelled ==
    IF automatic THEN OnLastDitchDisabled
    ELSE /\ modemDisabled' = FALSE
         /\ Take(<< >>)
         /\ UNCHANGED <<target, wakeSeconds, wakeTimerArmed, automatic, fallback>>

cancelUnchanged ==
    UNCHANGED <<vehicle, requestID, wakeTimerAcks, wakeTimerSeconds, armRequest,
                requestVars, hibernationTimer, quiesceVars, worldVars>>

GLowPowerCancelled ==
    \/ On(LowPowerStates, RecheckIds) /\ ShouldCancelLowPower
    \/ /\ On({"waiting-inhibitors", "issuing-low-power"}, {"suspend-cancelled"})
       /\ target = "suspend"

LowPowerCancelled ==
    /\ GLowPowerCancelled
    /\ Goto("running")
    /\ OnLowPowerCancelled
    /\ cancelUnchanged

GLastDitchCancelled == On(EntryStates, {"last-ditch-disabled"}) /\ automatic

LastDitchCancelled ==
    /\ GLastDitchCancelled
    /\ Goto("running")
    /\ OnLastDitchDisabled
    /\ cancelUnchanged

-----------------------------------------------------------------------------
(* Advancing: countdowns, and the inhibitor gate.                          *)

advanceUnchanged ==
    UNCHANGED <<target, vehicle, requestID, wakeSeconds, automatic, fallback,
                wakeVars, requestVars, hibernationTimer, quiesceVars, worldVars>>

GPreSuspendElapsed ==
    /\ On({"pre-suspend"}, {"pre-suspend-timeout"})
    /\ ~ShouldCancelLowPower
    /\ CanEnterLowPowerState(target, vehicle)

GImminentElapsed ==
    /\ On({"suspend-imminent", "low-power-imminent"}, {"suspend-imminent-timeout"})
    /\ ~ShouldCancelLowPower

GInhibitorsGone ==
    /\ On({"waiting-inhibitors"}, {"inhibitors-changed"})
    /\ ~ShouldCancelLowPower
    /\ ~HasBlockingInhibitors(target)

GModemWaitElapsed ==
    /\ On({"waiting-inhibitors"}, {"inhibitor-wait-timeout"})
    /\ ~ShouldCancelLowPower
    /\ CanProceedPastModemWait(target)

GLateInhibitor == On({"issuing-low-power"}, {"late-blocking-inhibitor"})

AdvanceTo(s) ==
    /\ Goto(s) /\ Take(<< >>)
    /\ UNCHANGED modemDisabled /\ advanceUnchanged

PreSuspendElapsed == GPreSuspendElapsed /\ AdvanceTo("suspend-imminent")
ImminentElapsed == GImminentElapsed /\ AdvanceTo("waiting-inhibitors")
InhibitorsGone == GInhibitorsGone /\ AdvanceTo("issuing-low-power")
ModemWaitElapsed == GModemWaitElapsed /\ AdvanceTo("issuing-low-power")
LateInhibitor == GLateInhibitor /\ AdvanceTo("waiting-inhibitors")

GOnlyModemLeft ==
    /\ On({"waiting-inhibitors"}, {"inhibitors-changed"})
    /\ ~ShouldCancelLowPower
    /\ HasOnlyModemBlockingInhibitors(target) /\ ~modemDisabled

\* Self-transition: the modem is asked to power off, the wait starts over.
OnlyModemLeft ==
    /\ GOnlyModemLeft
    /\ Goto("waiting-inhibitors") /\ Take(<< >>)
    /\ modemDisabled' = TRUE
    /\ advanceUnchanged

-----------------------------------------------------------------------------
(* Power commands.                                                         *)

GPowerRun == On(States, {"power-run"})

\* "run" wins in every state.
RunCommanded == GPowerRun /\ Goto("running") /\ OnPowerCommand

\* The command events that have an edge to a low-power state from state s.
UpgradeIds(s) ==
    IF s = "running" THEN PowerCommandIds
    ELSE IF s \in {"low-power-imminent", "issuing-low-power"}
         THEN {"power-hibernate", "power-hibernate-for"}
    ELSE PowerCommandIds \ {"power-suspend"}

GPowerCommand ==
    /\ On(States, UpgradeIds(fsmState))
    /\ IsPowerCommandHigherPriority(Ev.target, target)
    /\ CanEnterLowPowerState(Ev.target, vehicle)

EnterOnCommand ==
    /\ GPowerCommand
    /\ Goto(IF Ev.target = "suspend" THEN "suspend-imminent" ELSE "low-power-imminent")
    /\ OnPowerCommand

\* In running and issuing-low-power a command the vehicle state rejects is
\* stored, for the next vehicle event to pick up.
GStoredCommand ==
    /\ On({"running", "issuing-low-power"}, UpgradeIds(fsmState))
    /\ IsPowerCommandHigherPriority(Ev.target, target)
    /\ ~CanEnterLowPowerState(Ev.target, vehicle)

StoreCommand == GStoredCommand /\ Goto("running") /\ OnPowerCommand

-----------------------------------------------------------------------------
(* Explicit hibernation requests (hibernate_request.go).                   *)

GExplicitHibernate ==
    /\ On(States \ {"issuing-low-power"}, {"explicit-hibernate"})
    /\ IsPowerCommandHigherPriority(Ev.target, target)
    /\ ExplicitHibernateAllowed(Ev.target)

\* The guard holds; the action reads the live vehicle state once more.
AcceptExplicitHibernate ==
    /\ GExplicitHibernate
    /\ phase' = "accept"
    /\ UNCHANGED <<fsmState, stateTimer, queue, delayInhibitor, dataVars, wakeVars,
                   requestVars, quiesceVars, worldVars, hibernationTimer, late>>

explicitUnchanged ==
    UNCHANGED <<wakeTimerAcks, hibernationTimer, quiesceVars, worldVars>>

\* From parked the vehicle is asked to prepare and a timeout is started; in
\* stand-by the FSM sends itself the vehicle event that starts the countdown.
RecordExplicitHibernate ==
    /\ power = "on" /\ phase = "accept"
    /\ ExplicitHibernateAllowed(Ev.target)
    /\ Goto("running")
    /\ vehicle' = liveVehicle
    /\ lastRequestID' = lastRequestID + 1
    /\ requestID' = lastRequestID + 1
    /\ preparationTimer' = IF liveVehicle = "stand-by" THEN 0 ELSE lastRequestID + 1
    /\ target' = Ev.target
    /\ wakeSeconds' = Ev.secs
    /\ ClearAutomaticLastDitch
    /\ wakeTimerArmed' = FALSE
    /\ IF wakeSeconds > 0 \/ wakeTimerArmed
       THEN SetWakeTimer(0) ELSE UNCHANGED <<wakeTimerSeconds, armRequest>>
    /\ UNCHANGED modemDisabled
    /\ Take(IF liveVehicle = "stand-by"
            THEN <<VehicleStateChanged("stand-by")>> ELSE << >>)
    /\ explicitUnchanged

\* The vehicle state or the inhibitors changed since the guard.
RejectExplicitHibernate ==
    /\ power = "on" /\ phase = "accept"
    /\ ~ExplicitHibernateAllowed(Ev.target)
    /\ Goto("running")
    /\ ClearHibernateRequest
    /\ target' = "run"
    /\ Take(<< >>)
    /\ UNCHANGED <<vehicle, automatic, fallback, modemDisabled, lastRequestID>>
    /\ explicitUnchanged

GPreparationFailed ==
    /\ On({"running"}, {"hibernate-preparation-failed"})
    /\ Ev.request # 0 /\ Ev.request = requestID

OnHibernatePreparationFailed ==
    /\ GPreparationFailed
    /\ Goto("running")
    /\ ClearHibernateRequest
    /\ target' = "run"
    /\ Take(<< >>)
    /\ UNCHANGED <<vehicle, automatic, fallback, modemDisabled, lastRequestID>>
    /\ explicitUnchanged

-----------------------------------------------------------------------------
(* Vehicle, battery, default-state and last-ditch events.                  *)

\* An explicit request ends when the shutdown it waits for is interrupted.
RequestInterrupted(new) ==
    /\ requestID # 0
    /\ new # "stand-by"
    /\ \/ new = "ready-to-drive"
       \/ vehicle = "stand-by"
       \/ vehicle = "shutting-down" /\ new # "shutting-down"

\* Leaving stand-by, or riding off, drops the stored intent.
IntentDropped(new) ==
    \/ vehicle = "stand-by" /\ new # "stand-by"
    \/ new = "ready-to-drive"

SetHibernationTimer(new) ==
    hibernationTimer' =
        IF vehicle = "ready-to-drive" /\ new # "ready-to-drive" THEN TRUE
        ELSE IF vehicle # "ready-to-drive" /\ new = "ready-to-drive" THEN FALSE
        ELSE hibernationTimer

\* A mutant of OnVehicleStateChanged: an interrupted shutdown does not end the
\* request that waits for it.
KeepInterruptedRequest(new) ==
    /\ vehicle' = new
    /\ preparationTimer' = IF new = "stand-by" THEN 0 ELSE preparationTimer
    /\ UNCHANGED <<requestID, wakeSeconds, wakeTimerArmed, wakeTimerSeconds, armRequest>>
    /\ target' = IF IntentDropped(new) THEN defaultState ELSE target
    /\ automatic' = (automatic /\ ~IntentDropped(new))
    /\ fallback' = IF IntentDropped(new) THEN "none" ELSE fallback
    /\ modemDisabled' = (modemDisabled /\ ~IntentDropped(new))
    /\ SetHibernationTimer(new)

\* A mutant of OnVehicleStateChanged: any vehicle event stops the preparation
\* timeout, not only the arrival in stand-by.
StopTimeoutEarly(new) ==
    /\ vehicle' = new
    /\ IF RequestInterrupted(new)
       THEN ClearHibernateRequest
       ELSE /\ preparationTimer' = 0
            /\ UNCHANGED <<requestID, wakeSeconds, wakeTimerArmed, wakeTimerSeconds,
                           armRequest>>
    /\ target' = IF IntentDropped(new) THEN defaultState
                 ELSE IF RequestInterrupted(new) THEN "run" ELSE target
    /\ automatic' = (automatic /\ ~IntentDropped(new))
    /\ fallback' = IF IntentDropped(new) THEN "none" ELSE fallback
    /\ modemDisabled' = (modemDisabled /\ ~IntentDropped(new))
    /\ SetHibernationTimer(new)

OnVehicleStateChanged(new) ==
    /\ vehicle' = new
    /\ IF RequestInterrupted(new)
       THEN ClearHibernateRequest
       ELSE /\ preparationTimer' = IF new = "stand-by" THEN 0 ELSE preparationTimer
            /\ UNCHANGED <<requestID, wakeSeconds, wakeTimerArmed, wakeTimerSeconds,
                           armRequest>>
    /\ target' = IF IntentDropped(new) THEN defaultState
                 ELSE IF RequestInterrupted(new) THEN "run" ELSE target
    /\ automatic' = (automatic /\ ~IntentDropped(new))
    /\ fallback' = IF IntentDropped(new) THEN "none" ELSE fallback
    /\ modemDisabled' = (modemDisabled /\ ~IntentDropped(new))
    /\ SetHibernationTimer(new)

vehicleUnchanged ==
    UNCHANGED <<wakeTimerAcks, lastRequestID, quiesceVars, worldVars>>

\* Where a vehicle event, or a wakeup, leads with the stored target.
Destination(v, suspendState) ==
    IF ~CanEnterLowPowerState(target, v) THEN "running"
    ELSE IF target = "suspend" THEN suspendState
    ELSE "low-power-imminent"

GVehicleChanged == On({"running"}, {"vehicle-state-changed"})

VehicleChangedInRunning ==
    /\ GVehicleChanged
    /\ Goto(Destination(Ev.vehicle, "pre-suspend"))
    /\ OnVehicleStateChanged(Ev.vehicle)
    /\ Take(<< >>)
    /\ vehicleUnchanged

GVehicleLeft ==
    /\ On(LowPowerStates \ {"issuing-low-power"}, {"vehicle-state-changed"})
    /\ Ev.vehicle # "stand-by"

OnVehicleLeftLowPowerState ==
    /\ GVehicleLeft
    /\ Goto("running")
    /\ ClearHibernateRequest
    /\ vehicle' = Ev.vehicle
    /\ SetHibernationTimer(Ev.vehicle)
    /\ target' = defaultState
    /\ ClearAutomaticLastDitch
    /\ modemDisabled' = FALSE
    /\ Take(<< >>)
    /\ vehicleUnchanged

dataUnchanged ==
    UNCHANGED <<vehicle, requestID, wakeTimerAcks, wakeTimerSeconds, armRequest,
                requestVars, hibernationTimer, quiesceVars, worldVars>>

GBatteryInactive == On({"running"}, {"battery-became-inactive"})

\* The event is of one slot: while the copy of the other is active, it switches
\* the modem on as an active battery does.
BatteryBecameInactive ==
    /\ GBatteryInactive
    /\ Goto(IF target = "suspend" THEN Destination(vehicle, "pre-suspend") ELSE "running")
    /\ Take(<< >>)
    /\ modemDisabled' \in {modemDisabled, modemDisabled /\ target # "suspend"}
    /\ UNCHANGED <<target, wakeSeconds, wakeTimerArmed, automatic, fallback>>
    /\ dataUnchanged

GBatteryActive ==
    \/ On({"pre-suspend", "suspend-imminent"}, {"battery-became-active"})
    \/ On({"waiting-inhibitors"}, {"battery-became-active"}) /\ target = "suspend"

BatteryBecameActive ==
    /\ GBatteryActive
    /\ Goto("running")
    /\ modemDisabled' = (modemDisabled /\ target # "suspend")
    /\ Take(<< >>)
    /\ UNCHANGED <<target, wakeSeconds, wakeTimerArmed, automatic, fallback>>
    /\ dataUnchanged

GDefaultState == On({"running"}, {"default-state-changed"})

OnDefaultStateChanged ==
    /\ GDefaultState
    /\ Goto("running")
    /\ target' = Ev.target
    /\ ClearAutomaticLastDitch
    /\ wakeSeconds' = 0 /\ wakeTimerArmed' = FALSE
    /\ Take(<< >>)
    /\ UNCHANGED modemDisabled
    /\ dataUnchanged

GLastDitchFallback == On(EntryStates, {"default-state-changed"}) /\ automatic

\* Self-transition: only the fallback changes, but the state is re-entered.
OnLastDitchDefaultStateChanged ==
    /\ GLastDitchFallback
    /\ Goto(fsmState)
    /\ fallback' = Ev.target
    /\ Take(<< >>)
    /\ UNCHANGED <<target, wakeSeconds, wakeTimerArmed, automatic, modemDisabled>>
    /\ dataUnchanged

BeginAutomaticLastDitch ==
    /\ fallback' = IF automatic THEN fallback ELSE target
    /\ automatic' = TRUE
    /\ target' = "hibernate"
    /\ wakeSeconds' = 0 /\ wakeTimerArmed' = FALSE

GLastDitchTriggered ==
    /\ On({"running", "pre-suspend", "suspend-imminent"}, {"last-ditch-check"})
    /\ IsLastDitchTriggered
    /\ target \in {"run", "suspend"}
    /\ CanEnterLowPowerState("hibernate", vehicle)

OnLastDitchTriggered ==
    /\ GLastDitchTriggered
    /\ Goto("low-power-imminent")
    /\ BeginAutomaticLastDitch
    /\ Take(<< >>)
    /\ UNCHANGED modemDisabled
    /\ dataUnchanged

WakeupIds == {"wakeup", "wakeup-rtc"}

GLastDitchWakeup ==
    /\ On({"issuing-low-power"}, WakeupIds)
    /\ IsLastDitchTriggered
    /\ target \in {"run", "suspend"}
    /\ CanEnterLowPowerState(target, vehicle)

OnLastDitchWakeup ==
    /\ GLastDitchWakeup
    /\ Goto("low-power-imminent")
    /\ BeginAutomaticLastDitch
    /\ Take(<< >>)
    /\ UNCHANGED modemDisabled
    /\ dataUnchanged

GWakeup == On({"issuing-low-power"}, WakeupIds) /\ ~GLastDitchWakeup

OnWakeup ==
    /\ GWakeup
    /\ Goto(Destination(vehicle, IF Ev.id = "wakeup" THEN "pre-suspend"
                                 ELSE "suspend-imminent"))
    /\ Take(<< >>)
    /\ UNCHANGED <<target, wakeSeconds, wakeTimerArmed, automatic, fallback, modemDisabled>>
    /\ dataUnchanged

\* An event without an enabled edge is dropped.
DropEvent ==
    /\ On(States, EventIds)
    /\ ~ \/ GLowPowerCancelled \/ GLastDitchCancelled \/ GPreSuspendElapsed
         \/ GImminentElapsed \/ GInhibitorsGone \/ GModemWaitElapsed
         \/ GLateInhibitor \/ GOnlyModemLeft \/ GPowerRun \/ GPowerCommand
         \/ GStoredCommand \/ GExplicitHibernate \/ GPreparationFailed
         \/ GVehicleChanged \/ GVehicleLeft \/ GBatteryInactive
         \/ GBatteryActive \/ GDefaultState \/ GLastDitchFallback
         \/ GLastDitchTriggered \/ GLastDitchWakeup \/ GWakeup
    /\ Take(<< >>)
    /\ UNCHANGED <<fsmState, phase, stateTimer, delayInhibitor, dataVars, wakeVars,
                   requestVars, quiesceVars, worldVars, hibernationTimer, late>>

-----------------------------------------------------------------------------
(* Entry actions.                                                          *)

Entering(s) == power = "on" /\ phase = "enter" /\ fsmState = s

stepUnchanged ==
    UNCHANGED <<fsmState, stateTimer, target, vehicle, automatic, fallback,
                lastRequestID, hibernationTimer>>

\* A timed hibernation asks the nRF for its wake timer as early as possible
\* and forgets an echo of an earlier round.
EnterLowPowerImminent ==
    /\ Entering("low-power-imminent")
    /\ phase' = "idle"
    /\ IF target = "hibernate-for" /\ wakeSeconds > 0
       THEN wakeTimerArmed' = FALSE /\ wakeTimerAcks' = {} /\ SetWakeTimer(wakeSeconds)
       ELSE UNCHANGED wakeVars
    /\ stepUnchanged
    /\ UNCHANGED <<queue, delayInhibitor, requestID, wakeSeconds, modemDisabled,
                   preparationTimer, quiesceVars, worldVars, late>>

\* A mutant of cancelIneligibleLowPower: it sends what only a last-ditch
\* transition listens to.
CancelEntryUnheard == queue' = Append(queue, Signal("last-ditch-disabled"))

\* cancelIneligibleLowPower: the event that leaves the state is queued.
CancelEntry ==
    queue' = Append(queue, Signal(IF automatic THEN "last-ditch-disabled"
                                  ELSE "suspend-cancelled"))

EnterWaitingInhibitors ==
    /\ Entering("waiting-inhibitors")
    /\ phase' = "idle"
    /\ IF ShouldCancelLowPower
       THEN CancelEntry /\ UNCHANGED modemDisabled
       ELSE /\ queue' = IF HasBlockingInhibitors(target) THEN queue
                        ELSE Append(queue, Signal("inhibitors-changed"))
            /\ modemDisabled' = (modemDisabled \/ HasOnlyModemBlockingInhibitors(target))
    /\ stepUnchanged
    /\ UNCHANGED <<delayInhibitor, requestID, wakeSeconds, preparationTimer, wakeVars,
                   quiesceVars, worldVars, late>>

-----------------------------------------------------------------------------
(* EnterIssuingLowPower, from one blocking point to the next.              *)

issuingUnchanged ==
    /\ stepUnchanged
    /\ UNCHANGED <<delayInhibitor, settingVars, liveVars, nrfVars, unseen, inputs,
                   standbySeen>>

EnterIssuingLowPower ==
    /\ Entering("issuing-low-power")
    /\ IF ShouldCancelLowPower
       THEN phase' = "idle" /\ CancelEntry
       ELSE /\ phase' = IF target = "hibernate-for" /\ wakeSeconds > 0 /\ ~wakeTimerArmed
                        THEN "wake-ack" ELSE "gate"
            /\ UNCHANGED queue
    /\ UNCHANGED <<requestID, wakeSeconds, modemDisabled, preparationTimer, wakeVars,
                   quiesceVars, power, late>>
    /\ issuingUnchanged

\* waitForWakeTimer: only an echo of the requested duration ends the wait.
WakeTimerAcked ==
    /\ power = "on" /\ phase = "wake-ack" /\ wakeTimerAcks # {}
    /\ wakeTimerAcks' = {}
    /\ IF wakeSeconds \in wakeTimerAcks
       THEN phase' = "gate" /\ wakeTimerArmed' = TRUE
       ELSE UNCHANGED <<phase, wakeTimerArmed>>
    /\ UNCHANGED <<queue, requestID, wakeSeconds, modemDisabled, preparationTimer,
                   wakeTimerSeconds, armRequest, quiesceVars, power, late>>
    /\ issuingUnchanged

WakeTimerAckTimeout ==
    /\ power = "on" /\ phase = "wake-ack"
    /\ phase' = "idle"
    /\ ClearHibernateRequest
    /\ queue' = Append(queue, PowerRun)
    /\ UNCHANGED <<modemDisabled, wakeTimerAcks, quiesceVars, power, late>>
    /\ issuingUnchanged

issuingDataUnchanged ==
    UNCHANGED <<requestID, wakeSeconds, preparationTimer, wakeVars>>

\* The entry action backs out through the event loop.
AbortSuspend ==
    /\ phase' = "idle"
    /\ modemDisabled' = FALSE
    /\ queue' = Append(queue, PowerRun)

\* A mutant of the last inhibitor check: it only looks at the modem.
GateIgnoresBlocks(t) == "modem" \in Blocking(t)

LateBlockingInhibitor(t) == HasBlockingInhibitors(t)

\* The inhibitors once more; for suspend also the live vehicle state, and then
\* the announcement to the nRF.
InhibitorGate ==
    /\ power = "on" /\ phase = "gate"
    /\ IF LateBlockingInhibitor(target)
       THEN /\ phase' = "idle"
            /\ queue' = Append(queue, Signal("late-blocking-inhibitor"))
            /\ UNCHANGED <<modemDisabled, quiesceVars, late>>
       ELSE IF target # "suspend"
       THEN /\ phase' = "final" /\ late' = {}
            /\ UNCHANGED <<queue, modemDisabled, quiesceVars>>
       ELSE IF liveVehicle # "stand-by"
       THEN AbortSuspend /\ UNCHANGED <<quiesceVars, late>>
       ELSE /\ phase' = "quiesce"
            /\ quiesceAcks' = FALSE /\ announced' = TRUE
            /\ UNCHANGED <<queue, modemDisabled, late>>
    /\ UNCHANGED power /\ issuingDataUnchanged
    /\ issuingUnchanged

Quiesced ==
    /\ power = "on" /\ phase = "quiesce" /\ quiesceAcks
    /\ quiesceAcks' = FALSE
    /\ phase' = "commit"
    /\ UNCHANGED <<queue, modemDisabled, announced, power, late>>
    /\ issuingDataUnchanged /\ issuingUnchanged

QuiesceTimeout ==
    /\ power = "on" /\ phase = "quiesce"
    /\ AbortSuspend
    /\ UNCHANGED <<quiesceVars, power, late>>
    /\ issuingDataUnchanged /\ issuingUnchanged

\* A mutant of the commit: nothing is read again after the nRF's confirmation.
CommitBlindly ==
    /\ power = "on" /\ phase = "commit"
    /\ phase' = "prepare" /\ late' = {}
    /\ UNCHANGED <<queue, modemDisabled, quiesceVars, power>>
    /\ issuingDataUnchanged /\ issuingUnchanged

\* Vehicle state and eligibility once more after the wait.
CommitSuspend ==
    /\ power = "on" /\ phase = "commit"
    /\ IF liveVehicle # "stand-by"
       THEN AbortSuspend /\ UNCHANGED late
       ELSE IF ShouldCancelLowPower
       THEN phase' = "idle" /\ CancelEntry /\ UNCHANGED <<modemDisabled, late>>
       ELSE phase' = "prepare" /\ late' = {} /\ UNCHANGED <<queue, modemDisabled>>
    /\ UNCHANGED <<quiesceVars, power>>
    /\ issuingDataUnchanged /\ issuingUnchanged

\* The clock coordinator admits the suspend.
ClockPrepared ==
    /\ power = "on" /\ phase = "prepare"
    /\ phase' = "sleep"
    /\ UNCHANGED <<queue, modemDisabled, quiesceVars, power, late>>
    /\ issuingDataUnchanged /\ issuingUnchanged

\* The coordinator refuses, or logind does not complete the suspend.
SuspendFails ==
    /\ power = "on" /\ phase \in {"prepare", "sleep"}
    /\ "suspend-failure" \in Inputs
    /\ AbortSuspend
    /\ UNCHANGED <<quiesceVars, power, late>>
    /\ issuingDataUnchanged /\ issuingUnchanged

Suspend ==
    /\ power = "on" /\ phase = "sleep"
    /\ power' = "asleep" /\ phase' = "asleep"
    /\ UNCHANGED <<queue, modemDisabled, quiesceVars, late>>
    /\ issuingDataUnchanged /\ issuingUnchanged

\* The board resumes.  Notifications published while it was frozen may be lost
\* and the remote-access reconnect grace starts over.
Resume ==
    /\ power = "asleep"
    /\ power' = "on" /\ phase' = "resume"
    /\ \E lost \in SUBSET (unseen \ {"inhibitors"}) : unseen' = unseen \ lost
    /\ remoteAccess' = TRUE
    /\ stepUnchanged
    /\ UNCHANGED <<queue, delayInhibitor, requestID, wakeSeconds, modemDisabled,
                   preparationTimer, wakeVars, quiesceVars, settingVars, liveVehicle,
                   liveBattery, reserveLow, inhibitors, nrfVars, inputs, standbySeen,
                   late>>

\* The rest of handleWakeupAfterSuspend, after the wait for fresh telemetry.
HandleWakeupAfterSuspend ==
    /\ power = "on" /\ phase = "resume"
    /\ phase' = "idle"
    /\ modemDisabled' = FALSE
    /\ delayInhibitor' = "held"
    /\ \E id \in WakeupIds :
         queue' = (IF delayInhibitor = "none"
                   THEN Append(queue, Signal("inhibitors-changed")) ELSE queue)
                  \o <<Signal(id)>>
    /\ stepUnchanged
    /\ UNCHANGED <<requestID, wakeSeconds, preparationTimer, wakeVars, quiesceVars,
                   worldVars, late>>

\* poweroff or reboot; an automatic hibernation re-reads its condition first.
IssueCommand ==
    /\ power = "on" /\ phase = "final"
    /\ phase' = "idle"
    /\ IF target # "reboot" /\ ShouldCancelLowPower
       THEN CancelEntry /\ UNCHANGED power
       ELSE /\ power' = IF target = "reboot" THEN "rebooting" ELSE "off"
            /\ UNCHANGED queue
    /\ UNCHANGED <<modemDisabled, quiesceVars, late>>
    /\ issuingDataUnchanged /\ issuingUnchanged

\* systemd refuses: the error is dropped by the event loop.
IssueCommandFails ==
    /\ power = "on" /\ phase = "final"
    /\ "issue-failure" \in Inputs
    /\ ~(target # "reboot" /\ ShouldCancelLowPower)
    /\ phase' = "idle"
    /\ UNCHANGED <<queue, modemDisabled, quiesceVars, power, late>>
    /\ issuingDataUnchanged /\ issuingUnchanged

-----------------------------------------------------------------------------
(* The goroutines that send events: timers and watchers.                   *)

Input == inputs > 0 /\ inputs' = inputs - 1

SentOnly ==
    UNCHANGED <<fsmState, phase, dataVars, wakeVars, quiesceVars, liveVars,
                nrfVars, power, hibernationTimer, late>>

\* The timeout of the current state; its event may be stale when handled.
StateTimeout ==
    /\ power = "on" /\ stateTimer
    /\ stateTimer' = FALSE
    /\ queue' = Append(queue, TimeoutEvent(fsmState))
    /\ SentOnly
    /\ UNCHANGED <<delayInhibitor, requestVars, settingVars, unseen, inputs, standbySeen>>

\* The 30 s preparation timeout of an explicit request.
PreparationTimeout ==
    /\ power = "on" /\ preparationTimer # 0
    /\ preparationTimer' = 0
    /\ queue' = Append(queue, PreparationFailed(preparationTimer))
    /\ SentOnly
    /\ UNCHANGED <<stateTimer, delayInhibitor, lastRequestID, settingVars, unseen,
                   inputs, standbySeen>>

\* The delay inhibitor is removed some time after issuing-low-power was left.
RemoveDelayInhibitor ==
    /\ power = "on" /\ delayInhibitor = "removing"
    /\ delayInhibitor' = "none"
    /\ queue' = Append(queue, Signal("inhibitors-changed"))
    /\ SentOnly
    /\ UNCHANGED <<stateTimer, requestVars, settingVars, unseen, inputs, standbySeen>>

\* sendLastDitchCheck, with `standby' the mirrored vehicle state.
LastDitchCheck(standby) ==
    <<Signal("power-eligibility-changed")>> \o
    (IF IsLastDitchTriggered /\ standby
     THEN <<Command("last-ditch-check", "hibernate", 0)>> ELSE << >>)

BatteryEvents ==
    <<Signal(IF liveBattery = "active" THEN "battery-became-active"
             ELSE "battery-became-inactive")>>

\* A watcher, or the inhibitor manager, reports a change.
Notify(input) ==
    /\ power = "on" /\ input \in unseen
    /\ unseen' = unseen \ {input}
    /\ standbySeen' = IF input = "vehicle" THEN liveVehicle = "stand-by" ELSE standbySeen
    /\ queue' = queue \o
         (IF input = "inhibitors" THEN <<Signal("inhibitors-changed")>>
          ELSE (IF input = "vehicle" THEN <<VehicleStateChanged(liveVehicle)>>
                ELSE IF input = "battery" THEN BatteryEvents ELSE << >>)
               \o LastDitchCheck(standbySeen'))
    /\ SentOnly
    /\ UNCHANGED <<stateTimer, delayInhibitor, requestVars, settingVars, inputs>>

\* The end of the grace after boot; counted as an input to bound when it may come.
BootGraceExpires ==
    /\ Input /\ power = "on" /\ bootGrace
    /\ bootGrace' = FALSE
    /\ queue' = queue \o
         (<<Signal("power-eligibility-changed")>> \o
          (IF lastDitchEnabled /\ liveBattery \in {"absent", "empty"} /\ reserveLow
              /\ standbySeen
           THEN <<Command("last-ditch-check", "hibernate", 0)>> ELSE << >>))
    /\ SentOnly
    /\ UNCHANGED <<stateTimer, delayInhibitor, requestVars, defaultState,
                   lastDitchEnabled, suspendWhenOnline, unseen, standbySeen>>

-----------------------------------------------------------------------------
(* bluetooth-service and the nRF52 (external).                             *)

nrfUnchanged ==
    UNCHANGED <<fsmVars, dataVars, requestVars, settingVars, liveVars, power, unseen,
                inputs, standbySeen, hibernationTimer, late, wakeTimerArmed,
                wakeTimerSeconds>>

\* The nRF applies the latest wake-timer-seconds and echoes it.
NrfApplies ==
    /\ armRequest # {}
    /\ \E n \in armRequest : nrfTimer' = n /\ nrfEcho' = {n}
    /\ armRequest' = {}
    /\ UNCHANGED <<wakeTimerAcks, quiesceVars>>
    /\ nrfUnchanged

\* onWakeTimerAckSeconds: the latest echo replaces one nobody read.
EchoArrives ==
    /\ power = "on" /\ nrfEcho # {}
    /\ wakeTimerAcks' = nrfEcho
    /\ nrfEcho' = {}
    /\ UNCHANGED <<armRequest, nrfTimer, quiesceVars>>
    /\ nrfUnchanged

\* onPowerStateSent("suspending").
SuspendingConfirmed ==
    /\ power = "on" /\ announced
    /\ announced' = FALSE /\ quiesceAcks' = TRUE
    /\ UNCHANGED <<armRequest, wakeTimerAcks, nrfVars>>
    /\ nrfUnchanged

-----------------------------------------------------------------------------
(* Inputs: the vehicle, batteries, inhibitor clients, users and settings.  *)

\* Live state x changed; `late' remembers it if nothing checks it any more.
Touch(x) ==
    /\ unseen' = unseen \cup ({x} \cap Watched)
    /\ late' = IF phase \in CommittedPhases THEN late \cup {x} ELSE late

liveUnchanged ==
    UNCHANGED <<fsmVars, dataVars, wakeVars, requestVars, settingVars, nrfVars,
                quiesceVars, hibernationTimer, standbySeen>>

VehicleMoves(v) ==
    /\ Input /\ power \in {"on", "asleep"}
    /\ liveVehicle # v /\ liveVehicle' = v
    /\ Touch("vehicle")
    /\ UNCHANGED <<liveBattery, reserveLow, remoteAccess, inhibitors, power>>
    /\ liveUnchanged

BatteryChanges(b) ==
    /\ Input /\ power \in {"on", "asleep"}
    /\ liveBattery # b /\ liveBattery' = b
    /\ Touch("battery")
    /\ UNCHANGED <<liveVehicle, reserveLow, remoteAccess, inhibitors, power>>
    /\ liveUnchanged

ReserveChanges ==
    /\ "reserve" \in Inputs /\ Input /\ power \in {"on", "asleep"}
    /\ reserveLow' = ~reserveLow
    /\ Touch("reserve")
    /\ UNCHANGED <<liveVehicle, liveBattery, remoteAccess, inhibitors, power>>
    /\ liveUnchanged

\* A provider connects or disconnects, or the grace ends: nobody is told.
RemoteAccessChanges ==
    /\ "remote-access" \in Inputs /\ Input /\ power = "on"
    /\ remoteAccess' = ~remoteAccess
    /\ Touch("remote-access")
    /\ UNCHANGED <<liveVehicle, liveBattery, reserveLow, inhibitors, power>>
    /\ liveUnchanged

\* A client takes or releases an inhibitor; the modem releases its own when
\* it is off and takes it back when it runs.
InhibitorToggles(i) ==
    /\ Input /\ power = "on"
    /\ inhibitors' = IF i \in inhibitors THEN inhibitors \ {i} ELSE inhibitors \cup {i}
    /\ Touch("inhibitors")
    /\ UNCHANGED <<liveVehicle, liveBattery, reserveLow, remoteAccess, power>>
    /\ liveUnchanged

sendUnchanged ==
    UNCHANGED <<fsmState, phase, stateTimer, delayInhibitor, dataVars, wakeTimerArmed,
                wakeTimerAcks, requestVars, liveVars, nrfVars, quiesceVars, power,
                unseen, standbySeen, hibernationTimer, late>>

Send(e) == queue' = Append(queue, e)

\* onPowerCommand for everything but hibernate-cancel.
PowerCommandReceived(c) ==
    /\ Input /\ power = "on" /\ c \in Commands \ {"hibernate-cancel"}
    /\ \/ c = "run" /\ Send(PowerRun)
       \/ c = "suspend" /\ Send(Command("power-suspend", "suspend", 0))
       \/ c = "hibernate" /\ Send(Command("explicit-hibernate", "hibernate-manual", 0))
       \/ c = "hibernate-auto" /\ Send(Command("power-hibernate", "hibernate", 0))
       \/ c = "hibernate-timer" /\ Send(Command("power-hibernate-timer", "hibernate-timer", 0))
       \/ c = "reboot" /\ Send(Command("power-reboot", "reboot", 0))
       \/ /\ c = "hibernate-for"
          /\ \E d \in Durations \ {0} :
               Send(Command("explicit-hibernate", "hibernate-for", d))
    /\ UNCHANGED <<settingVars, wakeTimerSeconds, armRequest>>
    /\ sendUnchanged

\* hibernate-cancel disarms the wake timer at once, ahead of the event loop.
HibernateCancelReceived ==
    /\ Input /\ power = "on" /\ "hibernate-cancel" \in Commands
    /\ SetWakeTimer(0)
    /\ Send(PowerRun)
    /\ UNCHANGED settingVars
    /\ sendUnchanged

\* A mutant of the scheduler's callback: a zero duration is let through.
ScheduleAnyDuration ==
    /\ "schedule" \in Inputs /\ Input /\ power = "on"
    /\ \E d \in Durations : Send(Command("power-hibernate-for", "hibernate-for", d))
    /\ UNCHANGED <<settingVars, wakeTimerSeconds, armRequest>>
    /\ sendUnchanged

\* The scheduler fires with its configured duration.
ScheduledHibernate ==
    /\ "schedule" \in Inputs /\ Input /\ power = "on"
    /\ \E d \in Durations \ {0} : Send(Command("power-hibernate-for", "hibernate-for", d))
    /\ UNCHANGED <<settingVars, wakeTimerSeconds, armRequest>>
    /\ sendUnchanged

HibernationTimerExpires ==
    /\ "hibernation-timer" \in Inputs /\ Input /\ power = "on" /\ hibernationTimer
    /\ Send(Command("hibernation-timer-expired", "hibernate-timer", 0))
    /\ UNCHANGED <<settingVars, wakeTimerSeconds, armRequest>>
    /\ sendUnchanged

\* vehicle-service refuses to prepare some request it was sent.
VehicleRejectsPreparation ==
    /\ "rejection" \in Inputs /\ Input /\ power = "on"
    /\ \E r \in 1..lastRequestID : Send(PreparationFailed(r))
    /\ UNCHANGED <<settingVars, wakeTimerSeconds, armRequest>>
    /\ sendUnchanged

\* onDefaultStateSetting.
DefaultStateSet(d) ==
    /\ Input /\ power = "on" /\ d # defaultState
    /\ defaultState' = d
    /\ queue' = queue \o
         (IF d = "run" THEN <<PowerRun>>
          ELSE <<Command("default-state-changed", d, 0), VehicleStateChanged(liveVehicle)>>)
    /\ UNCHANGED <<lastDitchEnabled, suspendWhenOnline, bootGrace, wakeTimerSeconds,
                   armRequest>>
    /\ sendUnchanged

\* onLastDitchHibernateEnabledSetting; enabling re-evaluates the condition.
LastDitchSet ==
    /\ "last-ditch-setting" \in Inputs /\ Input /\ power = "on"
    /\ lastDitchEnabled' = ~lastDitchEnabled
    /\ queue' = queue \o
         (IF lastDitchEnabled THEN <<Signal("last-ditch-disabled")>>
          ELSE <<Signal("power-eligibility-changed")>> \o
               (IF /\ liveBattery \in {"absent", "empty"} /\ reserveLow
                   /\ ~bootGrace /\ standbySeen
                THEN <<Command("last-ditch-check", "hibernate", 0)>> ELSE << >>))
    /\ UNCHANGED <<defaultState, suspendWhenOnline, bootGrace, wakeTimerSeconds, armRequest>>
    /\ sendUnchanged

SuspendWhenOnlineSet ==
    /\ "online-setting" \in Inputs /\ Input /\ power = "on"
    /\ suspendWhenOnline' = ~suspendWhenOnline
    /\ Send(Signal("power-eligibility-changed"))
    /\ UNCHANGED <<defaultState, lastDitchEnabled, bootGrace, wakeTimerSeconds, armRequest>>
    /\ sendUnchanged

-----------------------------------------------------------------------------
(* The specification.                                                      *)

\* What Run sends as it starts: the vehicle event that evaluates a default state
\* other than "run", then the initial synchronisation of every watcher.
StartupEvents(standby) ==
    (IF defaultState = "run" THEN << >> ELSE <<VehicleStateChanged(liveVehicle)>>)
    \o (<<VehicleStateChanged(liveVehicle)>> \o LastDitchCheck(standby))
    \o (BatteryEvents \o LastDitchCheck(standby))
    \o LastDitchCheck(standby)

\* Run: caches equal Redis and the target is the default state.
Init ==
    /\ defaultState \in DefaultStates
    /\ liveVehicle \in Vehicles /\ liveBattery \in Batteries
    /\ reserveLow \in IF "reserve" \in Inputs THEN BOOLEAN ELSE {FALSE}
    /\ remoteAccess = TRUE
    /\ suspendWhenOnline \in IF "online-setting" \in Inputs THEN BOOLEAN ELSE {TRUE}
    /\ bootGrace \in IF "boot-grace" \in Inputs THEN BOOLEAN ELSE {FALSE}
    /\ lastDitchEnabled = TRUE
    /\ inhibitors = {}
    /\ fsmState = "running" /\ phase = "idle" /\ stateTimer = FALSE
    /\ queue = StartupEvents(liveVehicle = "stand-by")
    /\ delayInhibitor = "held"
    /\ target = defaultState /\ vehicle = liveVehicle
    /\ requestID = 0 /\ wakeSeconds = 0
    /\ automatic = FALSE /\ fallback = "none" /\ modemDisabled = FALSE
    /\ wakeTimerArmed = FALSE /\ wakeTimerAcks = {} /\ wakeTimerSeconds = 0
    /\ armRequest = {} /\ nrfTimer = 0 /\ nrfEcho = {}
    /\ quiesceAcks = FALSE /\ announced = FALSE
    /\ preparationTimer = 0 /\ lastRequestID = 0
    /\ hibernationTimer = (liveVehicle # "ready-to-drive")
    /\ standbySeen = (liveVehicle = "stand-by")
    /\ power = "on" /\ unseen = {} /\ late = {} /\ inputs = MaxInputs

HandleEvent ==
    \/ LowPowerCancelled \/ LastDitchCancelled
    \/ PreSuspendElapsed \/ ImminentElapsed \/ InhibitorsGone
    \/ ModemWaitElapsed \/ LateInhibitor \/ OnlyModemLeft
    \/ RunCommanded \/ EnterOnCommand \/ StoreCommand
    \/ AcceptExplicitHibernate \/ RecordExplicitHibernate
    \/ RejectExplicitHibernate \/ OnHibernatePreparationFailed
    \/ VehicleChangedInRunning \/ OnVehicleLeftLowPowerState
    \/ BatteryBecameInactive \/ BatteryBecameActive
    \/ OnDefaultStateChanged \/ OnLastDitchDefaultStateChanged
    \/ OnLastDitchTriggered \/ OnLastDitchWakeup \/ OnWakeup
    \/ DropEvent

EnterState ==
    \/ EnterLowPowerImminent \/ EnterWaitingInhibitors \/ EnterIssuingLowPower
    \/ WakeTimerAcked \/ WakeTimerAckTimeout \/ InhibitorGate
    \/ Quiesced \/ QuiesceTimeout \/ CommitSuspend \/ ClockPrepared
    \/ SuspendFails \/ Suspend \/ HandleWakeupAfterSuspend
    \/ IssueCommand \/ IssueCommandFails

SendEvent ==
    \/ StateTimeout \/ PreparationTimeout \/ RemoveDelayInhibitor
    \/ BootGraceExpires
    \/ \E input \in Watched : Notify(input)

Nrf == NrfApplies \/ EchoArrives \/ SuspendingConfirmed

World ==
    \/ \E v \in Vehicles : VehicleMoves(v)
    \/ \E b \in Batteries : BatteryChanges(b)
    \/ ReserveChanges \/ RemoteAccessChanges
    \/ \E i \in Inhibitors : InhibitorToggles(i)
    \/ \E c \in CommandNames : PowerCommandReceived(c)
    \/ HibernateCancelReceived \/ ScheduledHibernate \/ HibernationTimerExpires
    \/ VehicleRejectsPreparation
    \/ \E d \in DefaultStates : DefaultStateSet(d)
    \/ LastDitchSet \/ SuspendWhenOnlineSet

Next == HandleEvent \/ EnterState \/ SendEvent \/ Nrf \/ Resume \/ World

Spec == Init /\ [][Next]_vars
=============================================================================
