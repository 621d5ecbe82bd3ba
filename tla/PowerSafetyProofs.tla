--------------------------- MODULE PowerSafetyProofs ---------------------------
(***************************************************************************)
(* Safety of the power FSM, for every choice of commands, durations,       *)
(* inputs and bounds: the nRF's wake timer belongs to a timed hibernation, *)
(* a request keeps its target, and every low-power state fits its target.  *)
(***************************************************************************)
EXTENDS PowerManagerProofs

-----------------------------------------------------------------------------
(* The wake timer.                                                         *)

\* What makes it inductive: the suspend countdowns have the target suspend, a
\* timed hibernation is under way only in stand-by (so that a stale wakeup
\* does not take it back to running), and the FSM waits for the nRF's echo
\* only for a timed hibernation.
WakeInv ==
    /\ WakeTimerBelongsToTarget
    /\ fsmState \in {"pre-suspend", "suspend-imminent"} => target = "suspend"
    /\ fsmState \in EntryStates /\ target = "hibernate-for" => vehicle = "stand-by"
    /\ phase = "wake-ack" =>
         fsmState = "issuing-low-power" /\ target = "hibernate-for"

\* Forgetting a request disarms the timer (clearHibernateRequest).
LEMMA ForgetDisarms ==
    ASSUME TypeInv, WakeTimerBelongsToTarget, ForgetHibernateRequest
    PROVE  wakeTimerSeconds' = 0 /\ wakeTimerArmed' = FALSE
<1>1. SetWakeTimer(0) \/ (~(wakeSeconds > 0) /\ UNCHANGED wakeTimerSeconds)
  BY Zenon DEF ForgetHibernateRequest
<1>2. ~(wakeSeconds > 0) => wakeTimerSeconds = 0
  BY DEF WakeTimerBelongsToTarget, TypeInv, TypeOK, WakeTypeOK
<1> QED
  BY <1>1, <1>2 DEF SetWakeTimer, ForgetHibernateRequest

\* Every edge of definition.go keeps the wake timer with its hibernation.
LEMMA WakeOfHandler ==
    TypeInv /\ AutomaticProvenance /\ WakeInv /\ HandleEvent => WakeInv'
<1> SUFFICES ASSUME TypeInv, AutomaticProvenance, WakeInv, HandleEvent PROVE WakeInv'
  OBVIOUS
<1>t. wakeTimerSeconds \in Nat /\ wakeTimerArmed \in BOOLEAN /\ automatic \in BOOLEAN
  BY DEF TypeInv, TypeOK, WakeTypeOK, DataTypeOK
\* Outside a timed hibernation the timer is off.
<1>o. fsmState \notin EntryStates \/ target # "hibernate-for" =>
        wakeTimerSeconds = 0 /\ wakeTimerArmed = FALSE
  BY <1>t DEF WakeInv, WakeTimerBelongsToTarget
<1>g. \A s : Goto(s) => fsmState' = s /\ phase' \in {"enter", "idle"}
  BY DEF Goto
\* Ways back to running with the timer off.
<1>r. ASSUME wakeTimerSeconds' = 0, wakeTimerArmed' = FALSE, Goto("running")
      PROVE  WakeInv'
  BY <1>r, <1>g DEF WakeInv, WakeTimerBelongsToTarget, EntryStates
\* Transitions along an unchanged path.
<1>k. ASSUME UNCHANGED <<target, vehicle, wakeSeconds, wakeTimerArmed, wakeTimerSeconds>>,
             NEW s \in EntryStates, Goto(s),
             fsmState \in EntryStates \/ target # "hibernate-for"
      PROVE  WakeInv'
  BY <1>k, <1>g, <1>o DEF WakeInv, WakeTimerBelongsToTarget, EntryStates
<1>1. CASE LowPowerCancelled
  <2>1. target # "hibernate-for"
    BY <1>1 DEF LowPowerCancelled, GLowPowerCancelled, ShouldCancelLowPower, On,
                AutomaticProvenance, LowPowerStates
  <2>2. wakeTimerArmed' = FALSE /\ wakeTimerSeconds' = 0
    BY <1>1, <1>o, <2>1 DEF LowPowerCancelled, OnLowPowerCancelled, OnLastDitchDisabled,
                            cancelUnchanged
  <2> QED
    BY <1>1, <1>r, <2>2 DEF LowPowerCancelled
<1>2. CASE LastDitchCancelled
  BY <1>2, <1>o, <1>r DEF LastDitchCancelled, GLastDitchCancelled, OnLastDitchDisabled,
                          cancelUnchanged, On, AutomaticProvenance, EntryStates
<1>3. CASE PreSuspendElapsed
  <2>1. /\ fsmState = "pre-suspend" /\ Goto("suspend-imminent")
        /\ UNCHANGED <<target, wakeTimerArmed, wakeTimerSeconds>>
    BY <1>3 DEF PreSuspendElapsed, GPreSuspendElapsed, On, AdvanceTo, advanceUnchanged,
                wakeVars
  <2> QED
    BY <2>1, <1>g, <1>o DEF WakeInv, WakeTimerBelongsToTarget, EntryStates
<1>4. CASE ImminentElapsed \/ InhibitorsGone \/ ModemWaitElapsed \/ LateInhibitor
           \/ OnlyModemLeft
  <2>1. /\ \E s \in EntryStates : Goto(s)
        /\ fsmState \in EntryStates \cup {"suspend-imminent"}
        /\ UNCHANGED <<target, vehicle, wakeSeconds, wakeTimerArmed, wakeTimerSeconds>>
    BY <1>4 DEF ImminentElapsed, InhibitorsGone, ModemWaitElapsed, LateInhibitor,
                OnlyModemLeft, GImminentElapsed, GInhibitorsGone, GModemWaitElapsed,
                GLateInhibitor, GOnlyModemLeft, On, AdvanceTo, advanceUnchanged,
                wakeVars, EntryStates
  <2>2. fsmState \in EntryStates \/ target # "hibernate-for"
    BY <2>1 DEF WakeInv
  <2> QED
    BY <1>k, <2>1, <2>2
<1>5. CASE RunCommanded \/ StoreCommand
  <2>1. Goto("running") /\ ForgetHibernateRequest
    BY <1>5 DEF RunCommanded, StoreCommand, OnPowerCommand, StorePowerCommand
  <2> QED
    BY <1>r, <2>1, ForgetDisarms DEF WakeInv
<1>6. CASE EnterOnCommand
  <2>1. /\ ForgetHibernateRequest /\ target' = Ev.target /\ vehicle' = vehicle
        /\ Goto(IF Ev.target = "suspend" THEN "suspend-imminent"
                ELSE "low-power-imminent")
        /\ CanEnterLowPowerState(Ev.target, vehicle)
    BY <1>6 DEF EnterOnCommand, GPowerCommand, OnPowerCommand, StorePowerCommand
  <2>2. wakeTimerSeconds' = 0 /\ wakeTimerArmed' = FALSE
    BY <2>1, ForgetDisarms DEF WakeInv
  <2> QED
    BY <1>g, <2>1, <2>2 DEF WakeInv, WakeTimerBelongsToTarget, CanEnterLowPowerState,
                            EntryStates
<1>7. CASE AcceptExplicitHibernate
  BY <1>7 DEF AcceptExplicitHibernate, dataVars, wakeVars, WakeInv,
              WakeTimerBelongsToTarget
<1>8. CASE RecordExplicitHibernate
  <2>1. SetWakeTimer(0) \/ (~(wakeSeconds > 0) /\ UNCHANGED wakeTimerSeconds)
    BY <1>8, Zenon DEF RecordExplicitHibernate
  <2>2. ~(wakeSeconds > 0) => wakeTimerSeconds = 0
    BY <1>t DEF WakeInv, WakeTimerBelongsToTarget
  <2>3. wakeTimerSeconds' = 0
    BY <2>1, <2>2 DEF SetWakeTimer
  <2> QED
    BY <1>8, <1>r, <2>3 DEF RecordExplicitHibernate
<1>9. CASE RejectExplicitHibernate \/ OnHibernatePreparationFailed
           \/ OnVehicleLeftLowPowerState
  <2>1. Goto("running") /\ ForgetHibernateRequest
    BY <1>9 DEF RejectExplicitHibernate, OnHibernatePreparationFailed,
                OnVehicleLeftLowPowerState, ClearHibernateRequest
  <2> QED
    BY <1>r, <2>1, ForgetDisarms DEF WakeInv
<1>10. CASE VehicleChangedInRunning
  <2>1. /\ fsmState = "running" /\ Goto(Destination(Ev.vehicle, "pre-suspend"))
        /\ OnVehicleStateChanged(Ev.vehicle)
    BY <1>10 DEF VehicleChangedInRunning, GVehicleChanged, On
  <2>2. wakeTimerSeconds = 0 /\ wakeTimerArmed = FALSE
    BY <1>o, <2>1 DEF EntryStates
  <2>3. wakeTimerSeconds' = 0 /\ wakeTimerArmed' = FALSE
    <3>1. CASE RequestInterrupted(Ev.vehicle)
      BY <2>1, <3>1, ForgetDisarms DEF OnVehicleStateChanged, ClearHibernateRequest, WakeInv
    <3>2. CASE ~RequestInterrupted(Ev.vehicle)
      BY <2>1, <2>2, <3>2 DEF OnVehicleStateChanged
    <3> QED
      BY <3>1, <3>2
  <2>4. CASE Destination(Ev.vehicle, "pre-suspend") = "running"
    BY <1>r, <2>1, <2>3, <2>4
  <2>5. CASE Destination(Ev.vehicle, "pre-suspend") # "running"
    <3>1. CanEnterLowPowerState(target, Ev.vehicle)
      BY <2>5 DEF Destination
    <3>2. vehicle' = Ev.vehicle /\ (Ev.vehicle = "stand-by" => target' = target)
      BY <2>1 DEF OnVehicleStateChanged, IntentDropped, RequestInterrupted
    <3>3. fsmState' = IF target = "suspend" THEN "pre-suspend" ELSE "low-power-imminent"
      BY <1>g, <2>1, <3>1 DEF Destination
    <3>4. Ev.vehicle = "stand-by" \/ (target = "reboot" /\ Ev.vehicle = "shutting-down")
      BY <3>1 DEF CanEnterLowPowerState
    <3>5. target' = "hibernate-for" => Ev.vehicle = "stand-by"
      BY <2>1, <3>4, DefaultStatesAssumption
         DEF OnVehicleStateChanged, TypeInv, TypeOK, SettingTypeOK, ValidDefaultStates
    <3> QED
      BY <1>g, <2>1, <2>3, <3>2, <3>3, <3>4, <3>5
         DEF WakeInv, WakeTimerBelongsToTarget, EntryStates
  <2> QED
    BY <2>4, <2>5
<1>11. CASE BatteryBecameInactive
  <2>1. /\ fsmState = "running"
        /\ UNCHANGED <<target, vehicle, wakeTimerArmed, wakeTimerSeconds>>
        /\ Goto(IF target = "suspend" THEN Destination(vehicle, "pre-suspend")
                ELSE "running")
    BY <1>11 DEF BatteryBecameInactive, GBatteryInactive, On, dataUnchanged
  <2>2. wakeTimerSeconds = 0 /\ wakeTimerArmed = FALSE
    BY <1>o, <2>1 DEF EntryStates
  <2>3. fsmState' = "running" \/ (target = "suspend" /\ fsmState' = "pre-suspend")
    BY <1>g, <2>1 DEF Destination
  <2> QED
    BY <1>g, <2>1, <2>2, <2>3 DEF WakeInv, WakeTimerBelongsToTarget, EntryStates
<1>12. CASE BatteryBecameActive
  <2>1. /\ fsmState \notin EntryStates \/ target # "hibernate-for"
        /\ UNCHANGED <<wakeTimerArmed, wakeTimerSeconds>> /\ Goto("running")
    BY <1>12 DEF BatteryBecameActive, GBatteryActive, On, dataUnchanged, EntryStates
  <2> QED
    BY <1>o, <1>r, <2>1
<1>13. CASE OnDefaultStateChanged
  <2>1. /\ fsmState = "running" /\ Goto("running")
        /\ wakeTimerArmed' = FALSE /\ wakeTimerSeconds' = wakeTimerSeconds
    BY <1>13 DEF OnDefaultStateChanged, GDefaultState, On, dataUnchanged
  <2> QED
    BY <1>o, <1>r, <2>1 DEF EntryStates
<1>14. CASE OnLastDitchDefaultStateChanged
  <2>1. /\ fsmState \in EntryStates /\ Goto(fsmState)
        /\ UNCHANGED <<target, vehicle, wakeSeconds, wakeTimerArmed, wakeTimerSeconds>>
    BY <1>14 DEF OnLastDitchDefaultStateChanged, GLastDitchFallback, On, dataUnchanged
  <2> QED
    BY <1>k, <2>1
<1>15. CASE OnLastDitchTriggered \/ OnLastDitchWakeup
  <2>1. /\ target # "hibernate-for" /\ target' = "hibernate" /\ wakeTimerArmed' = FALSE
        /\ wakeTimerSeconds' = wakeTimerSeconds /\ Goto("low-power-imminent")
    BY <1>15 DEF OnLastDitchTriggered, OnLastDitchWakeup, GLastDitchTriggered,
                 GLastDitchWakeup, BeginAutomaticLastDitch, dataUnchanged
  <2> QED
    BY <1>g, <1>o, <2>1 DEF WakeInv, WakeTimerBelongsToTarget
<1>16. CASE OnWakeup
  <2>1. /\ fsmState = "issuing-low-power"
        /\ UNCHANGED <<target, vehicle, wakeSeconds, wakeTimerArmed, wakeTimerSeconds>>
        /\ \E s \in {"pre-suspend", "suspend-imminent"} : Goto(Destination(vehicle, s))
    BY <1>16 DEF OnWakeup, GWakeup, On, dataUnchanged
  <2>2. CASE target = "hibernate-for"
    <3>1. CanEnterLowPowerState(target, vehicle)
      BY <2>1, <2>2 DEF WakeInv, CanEnterLowPowerState, EntryStates
    <3> QED
      BY <1>k, <2>1, <2>2, <3>1 DEF Destination, EntryStates
  <2>3. CASE target # "hibernate-for"
    <3>1. wakeTimerSeconds = 0 /\ wakeTimerArmed = FALSE
      BY <1>o, <2>3
    <3>2. /\ fsmState' \in {"pre-suspend", "suspend-imminent"} => target = "suspend"
          /\ phase' \in {"enter", "idle"}
      BY <1>g, <2>1 DEF Destination
    <3> QED
      BY <2>1, <2>3, <3>1, <3>2 DEF WakeInv, WakeTimerBelongsToTarget
  <2> QED
    BY <2>2, <2>3
<1>17. CASE DropEvent
  BY <1>17 DEF DropEvent, dataVars, wakeVars, WakeInv, WakeTimerBelongsToTarget
<1> QED
  BY <1>1, <1>2, <1>3, <1>4, <1>5, <1>6, <1>7, <1>8, <1>9, <1>10, <1>11, <1>12, <1>13,
     <1>14, <1>15, <1>16, <1>17 DEF HandleEvent

\* So do the entry actions, and the resume from suspend-to-RAM.
LEMMA WakeOfEntry ==
    TypeInv /\ WakeInv /\ (EnterState \/ Resume) => WakeInv'
<1> SUFFICES ASSUME TypeInv, WakeInv, EnterState \/ Resume PROVE WakeInv'
  OBVIOUS
<1>f. UNCHANGED <<fsmState, target, vehicle>>
  BY EntryFrame DEF stepUnchanged
<1>1. CASE EnterLowPowerImminent
  <2>1. /\ fsmState = "low-power-imminent" /\ phase' = "idle" /\ UNCHANGED wakeSeconds
        /\ \/ /\ target = "hibernate-for" /\ wakeSeconds > 0 /\ wakeTimerArmed' = FALSE
           \/ UNCHANGED <<wakeTimerArmed, wakeTimerSeconds>>
    BY <1>1 DEF EnterLowPowerImminent, Entering, wakeVars
  <2> QED
    BY <1>f, <2>1 DEF WakeInv, WakeTimerBelongsToTarget, EntryStates
<1>2. CASE EnterIssuingLowPower
  <2>1. /\ fsmState = "issuing-low-power"
        /\ phase' = "wake-ack" => target = "hibernate-for"
        /\ UNCHANGED <<wakeSeconds, wakeTimerArmed, wakeTimerSeconds>>
    BY <1>2 DEF EnterIssuingLowPower, Entering, wakeVars
  <2> QED
    BY <1>f, <2>1 DEF WakeInv, WakeTimerBelongsToTarget
<1>3. CASE WakeTimerAcked
  <2>1. /\ phase = "wake-ack" /\ UNCHANGED <<wakeSeconds, wakeTimerSeconds>>
    BY <1>3 DEF WakeTimerAcked
  <2> QED
    BY <1>f, <2>1 DEF WakeInv, WakeTimerBelongsToTarget, EntryStates
<1>4. CASE WakeTimerAckTimeout
  <2>1. ForgetHibernateRequest /\ phase' = "idle"
    BY <1>4 DEF WakeTimerAckTimeout, ClearHibernateRequest
  <2>2. wakeTimerSeconds' = 0 /\ wakeTimerArmed' = FALSE
    BY <2>1, ForgetDisarms DEF WakeInv
  <2> QED
    BY <1>f, <2>1, <2>2 DEF WakeInv, WakeTimerBelongsToTarget
<1>5. CASE \/ EnterWaitingInhibitors \/ InhibitorGate \/ Quiesced \/ QuiesceTimeout
           \/ CommitSuspend \/ ClockPrepared \/ SuspendFails \/ Suspend
           \/ HandleWakeupAfterSuspend \/ IssueCommand \/ IssueCommandFails \/ Resume
  <2>1. phase' # "wake-ack" /\ UNCHANGED <<wakeSeconds, wakeVars>>
    BY <1>5 DEF EnterWaitingInhibitors, InhibitorGate, Quiesced, QuiesceTimeout,
                CommitSuspend, ClockPrepared, SuspendFails, Suspend,
                HandleWakeupAfterSuspend, IssueCommand, IssueCommandFails, Resume,
                AbortSuspend, issuingDataUnchanged
  <2> QED
    BY <1>f, <2>1 DEF WakeInv, WakeTimerBelongsToTarget, wakeVars
<1> QED
  BY <1>1, <1>2, <1>3, <1>4, <1>5 DEF EnterState

\* The wake timer stays with its hibernation, whatever step is taken.
LEMMA WakeInvariant == Spec => []WakeInv
<1>1. Init => WakeInv
  BY DEF Init, WakeInv, WakeTimerBelongsToTarget, EntryStates
<1>2. TypeInv /\ AutomaticProvenance /\ WakeInv /\ [Next]_vars => WakeInv'
  <2> SUFFICES ASSUME TypeInv, AutomaticProvenance, WakeInv, [Next]_vars PROVE WakeInv'
    OBVIOUS
  <2>1. CASE SendEvent \/ Nrf \/ World
    <3>1. /\ UNCHANGED <<fsmState, phase, dataVars, wakeTimerArmed>>
          /\ wakeTimerSeconds' \in {wakeTimerSeconds, 0}
      BY <2>1, EnvironmentFrame
    <3> QED
      BY <3>1 DEF dataVars, WakeInv, WakeTimerBelongsToTarget
  <2>2. CASE UNCHANGED vars
    BY <2>2 DEF vars, fsmVars, dataVars, wakeVars, WakeInv, WakeTimerBelongsToTarget
  <2> QED
    BY <2>1, <2>2, WakeOfHandler, WakeOfEntry DEF Next
<1> QED
  BY <1>1, <1>2, TypeInvariant, AutomaticProvenanceHolds, PTL DEF Spec

\* A wake duration is published, and believed armed on the nRF52, only while
\* the timed hibernation it was asked for is under way (service.go,
\* EnterLowPowerImminent, waitForWakeTimer and clearHibernateRequest).
THEOREM WakeTimerBelongsToTargetHolds == Spec => []WakeTimerBelongsToTarget
<1>1. WakeInv => WakeTimerBelongsToTarget
  BY DEF WakeInv
<1> QED
  BY <1>1, WakeInvariant, PTL

-----------------------------------------------------------------------------
(* Outstanding requests.                                                   *)

\* Every edge of definition.go that replaces the target of an outstanding
\* request ends the request, while pm.default-state does not change.
LEMMA RequestOfHandler ==
    ASSUME \E d \in Targets : DefaultStates = {d}
    PROVE  TypeInv /\ AutomaticProvenance /\ RequestKeepsItsTarget /\ HandleEvent
             => RequestKeepsItsTarget'
<1> SUFFICES ASSUME TypeInv, AutomaticProvenance, RequestKeepsItsTarget, HandleEvent
             PROVE  RequestKeepsItsTarget'
  OBVIOUS
\* Handlers that end the request, and handlers that keep request and target.
<1>d. requestID' = 0 => RequestKeepsItsTarget'
  BY DEF RequestKeepsItsTarget
<1>k. UNCHANGED <<requestID, target>> => RequestKeepsItsTarget'
  BY DEF RequestKeepsItsTarget
\* No request is outstanding while the target is another one.
<1>o. target \notin ExplicitTargets /\ requestID' = requestID => requestID' = 0
  BY DEF RequestKeepsItsTarget
<1>1. CASE LowPowerCancelled
  <2>1. requestID' = requestID
    BY <1>1 DEF LowPowerCancelled, cancelUnchanged
  <2>2. CASE automatic
    BY <1>1, <1>d, <1>o, <2>1, <2>2 DEF AutomaticProvenance, ExplicitTargets
  <2>3. CASE ~automatic
    BY <1>1, <1>k, <2>1, <2>3 DEF LowPowerCancelled, OnLowPowerCancelled
  <2> QED
    BY <2>2, <2>3
<1>2. CASE LastDitchCancelled
  BY <1>2, <1>d, <1>o DEF LastDitchCancelled, GLastDitchCancelled, cancelUnchanged,
                          AutomaticProvenance, ExplicitTargets
<1>3. CASE PreSuspendElapsed \/ ImminentElapsed \/ InhibitorsGone \/ ModemWaitElapsed
           \/ LateInhibitor \/ OnlyModemLeft
  BY <1>3, <1>k DEF PreSuspendElapsed, ImminentElapsed, InhibitorsGone, ModemWaitElapsed,
                    LateInhibitor, OnlyModemLeft, AdvanceTo, advanceUnchanged
<1>4. CASE RunCommanded \/ EnterOnCommand \/ StoreCommand
  BY <1>4, <1>d DEF RunCommanded, EnterOnCommand, StoreCommand, OnPowerCommand,
                    StorePowerCommand, ForgetHibernateRequest
<1>5. CASE AcceptExplicitHibernate \/ DropEvent
  BY <1>5, <1>k DEF AcceptExplicitHibernate, DropEvent, dataVars
<1>6. CASE RecordExplicitHibernate
  <2>1. Ev \in Events /\ Ev.id = "explicit-hibernate" /\ target' = Ev.target
    BY <1>6, HeadType DEF RecordExplicitHibernate, TypeInv, AcceptHasEvent
  <2> QED
    BY <2>1 DEF Events, WellFormed, RequestKeepsItsTarget
<1>7. CASE RejectExplicitHibernate \/ OnHibernatePreparationFailed
           \/ OnVehicleLeftLowPowerState
  BY <1>7, <1>d DEF RejectExplicitHibernate, OnHibernatePreparationFailed,
                    OnVehicleLeftLowPowerState, ClearHibernateRequest,
                    ForgetHibernateRequest
<1>8. CASE VehicleChangedInRunning
  <2>1. OnVehicleStateChanged(Ev.vehicle)
    BY <1>8 DEF VehicleChangedInRunning
  <2>2. CASE RequestInterrupted(Ev.vehicle)
    BY <1>d, <2>1, <2>2 DEF OnVehicleStateChanged, ClearHibernateRequest,
                            ForgetHibernateRequest
  <2>3. CASE ~RequestInterrupted(Ev.vehicle)
    <3>1. requestID' = requestID
      BY <2>1, <2>3 DEF OnVehicleStateChanged
    <3>2. IntentDropped(Ev.vehicle) => requestID = 0
      BY <2>3 DEF IntentDropped, RequestInterrupted
    <3>3. ~IntentDropped(Ev.vehicle) => target' = target
      BY <2>1, <2>3 DEF OnVehicleStateChanged
    <3> QED
      BY <1>d, <1>k, <3>1, <3>2, <3>3
  <2> QED
    BY <2>2, <2>3
<1>9. CASE BatteryBecameInactive \/ BatteryBecameActive \/ OnWakeup
           \/ OnLastDitchDefaultStateChanged
  BY <1>9, <1>k DEF BatteryBecameInactive, BatteryBecameActive, OnWakeup,
                    OnLastDitchDefaultStateChanged, dataUnchanged
\* With a single default state no such event is ever queued.
<1>10. CASE OnDefaultStateChanged
  <2>1. queue # << >> /\ Ev.id = "default-state-changed"
    BY <1>10 DEF OnDefaultStateChanged, GDefaultState, On
  <2>2. Ev.target \in DefaultStates /\ DefaultStates # {Ev.target}
    BY <2>1, HeadType DEF Events, WellFormed
  <2> QED
    BY <2>2
<1>11. CASE OnLastDitchTriggered \/ OnLastDitchWakeup
  BY <1>11, <1>d, <1>o DEF OnLastDitchTriggered, OnLastDitchWakeup, GLastDitchTriggered,
                           GLastDitchWakeup, dataUnchanged, ExplicitTargets
<1> QED
  BY <1>1, <1>2, <1>3, <1>4, <1>5, <1>6, <1>7, <1>8, <1>9, <1>10, <1>11 DEF HandleEvent

\* Whatever replaces the target of an explicit request ends the request, in
\* whatever order commands, vehicle events, cancellations and last-ditch checks
\* arrive (hibernate_request.go, clearHibernateRequest), while pm.default-state
\* keeps its value.
THEOREM RequestKeepsItsTargetHolds ==
    ASSUME \E d \in Targets : DefaultStates = {d}
    PROVE  Spec => []RequestKeepsItsTarget
<1>1. Init => RequestKeepsItsTarget
  BY DEF Init, RequestKeepsItsTarget
<1>2. TypeInv /\ AutomaticProvenance /\ RequestKeepsItsTarget /\ [Next]_vars
        => RequestKeepsItsTarget'
  <2> SUFFICES ASSUME TypeInv, AutomaticProvenance, RequestKeepsItsTarget, [Next]_vars
               PROVE  RequestKeepsItsTarget'
    OBVIOUS
  <2>1. CASE SendEvent \/ Nrf \/ World
    BY <2>1, EnvironmentFrame DEF dataVars, RequestKeepsItsTarget
  <2>2. CASE EnterState \/ Resume
    <3>1. target' = target
      BY <2>2, EntryFrame DEF stepUnchanged
    <3>2. requestID' \in {requestID, 0}
      BY <2>2 DEF EnterState, Resume, EnterLowPowerImminent, EnterWaitingInhibitors,
                  EnterIssuingLowPower, WakeTimerAcked, WakeTimerAckTimeout,
                  InhibitorGate, Quiesced, QuiesceTimeout, CommitSuspend, ClockPrepared,
                  SuspendFails, Suspend, HandleWakeupAfterSuspend, IssueCommand,
                  IssueCommandFails, issuingDataUnchanged, ClearHibernateRequest,
                  ForgetHibernateRequest
    <3> QED
      BY <3>1, <3>2 DEF RequestKeepsItsTarget
  <2>3. CASE UNCHANGED vars
    BY <2>3 DEF vars, dataVars, RequestKeepsItsTarget
  <2> QED
    BY <2>1, <2>2, <2>3, RequestOfHandler DEF Next
<1> QED
  BY <1>1, <1>2, TypeInvariant, AutomaticProvenanceHolds, PTL DEF Spec

-----------------------------------------------------------------------------
(* States and targets.                                                     *)

\* What makes it inductive: a reboot that waits in running does so because the
\* vehicle is in use, and no cancelled last-ditch hibernation falls back to one.
PathInv ==
    /\ PathMatchesTarget
    /\ fsmState = "running" /\ target = "reboot" =>
         vehicle \notin {"stand-by", "shutting-down"}
    /\ fallback # "reboot"

\* Every edge of definition.go leads to a state that fits the target it leaves
\* behind, where pm.default-state is not reboot.
LEMMA PathOfHandler ==
    ASSUME "reboot" \notin DefaultStates
    PROVE  TypeInv /\ AutomaticProvenance /\ PathInv /\ HandleEvent => PathInv'
<1> SUFFICES ASSUME TypeInv, AutomaticProvenance, PathInv, HandleEvent PROVE PathInv'
  OBVIOUS
<1>t. /\ automatic \in BOOLEAN /\ fsmState \in States /\ target \in Targets
      /\ defaultState # "reboot"
  BY DEF TypeInv, TypeOK, FsmTypeOK, DataTypeOK, SettingTypeOK
<1>g. \A s : Goto(s) => fsmState' = s
  BY DEF Goto
<1>n. "running" \notin LowPowerStates
  BY DEF LowPowerStates
\* Ways back to running.
<1>r. ASSUME Goto("running"), fallback' # "reboot",
             target' = "reboot" => vehicle' \notin {"stand-by", "shutting-down"}
      PROVE  PathInv'
  BY <1>r, <1>g, <1>n DEF PathInv, PathMatchesTarget
\* Transitions along an unchanged path.
<1>k. ASSUME UNCHANGED <<target, vehicle, fallback>>, fsmState \in LowPowerStates,
             NEW s \in LowPowerStates, Goto(s),
             s = "low-power-imminent" => target \in HibernatePath,
             s \in {"pre-suspend", "suspend-imminent"} => target = "suspend"
      PROVE  PathInv'
  BY <1>k, <1>g DEF PathInv, PathMatchesTarget, LowPowerStates
<1>1. CASE LowPowerCancelled
  <2>1. Goto("running") /\ fsmState \in LowPowerStates
    BY <1>1 DEF LowPowerCancelled, GLowPowerCancelled, On, LowPowerStates, States
  <2>2. target' # "reboot" /\ fallback' # "reboot"
    <3>1. CASE automatic
      BY <1>1, <1>t, <3>1 DEF LowPowerCancelled, OnLowPowerCancelled, OnLastDitchDisabled,
                              ClearAutomaticLastDitch, PathInv
    <3>2. CASE ~automatic
      BY <1>1, <1>t, <3>2 DEF LowPowerCancelled, GLowPowerCancelled, OnLowPowerCancelled,
                              ShouldCancelLowPower, PathInv
    <3> QED
      BY <3>1, <3>2
  <2> QED
    BY <1>r, <2>1, <2>2
<1>2. CASE LastDitchCancelled
  BY <1>2, <1>r, <1>t DEF LastDitchCancelled, OnLastDitchDisabled,
                          ClearAutomaticLastDitch, PathInv
<1>3. CASE PreSuspendElapsed
  <2>1. /\ fsmState = "pre-suspend" /\ UNCHANGED <<target, vehicle, fallback>>
        /\ Goto("suspend-imminent")
    BY <1>3 DEF PreSuspendElapsed, GPreSuspendElapsed, On, AdvanceTo, advanceUnchanged
  <2> QED
    BY <1>k, <2>1 DEF PathInv, PathMatchesTarget, LowPowerStates, States
<1>4. CASE ImminentElapsed \/ InhibitorsGone \/ ModemWaitElapsed \/ LateInhibitor
           \/ OnlyModemLeft
  <2>1. /\ fsmState # "running" /\ UNCHANGED <<target, vehicle, fallback>>
        /\ \E s \in {"waiting-inhibitors", "issuing-low-power"} : Goto(s)
    BY <1>4 DEF ImminentElapsed, InhibitorsGone, ModemWaitElapsed, LateInhibitor,
                OnlyModemLeft, GImminentElapsed, GInhibitorsGone, GModemWaitElapsed,
                GLateInhibitor, GOnlyModemLeft, On, AdvanceTo, advanceUnchanged
  <2> QED
    BY <1>k, <1>t, <2>1 DEF LowPowerStates, States
<1>5. CASE RunCommanded
  <2>1. Ev \in Events /\ Ev.id = "power-run"
    BY <1>5, HeadType DEF RunCommanded, GPowerRun, On
  <2>2. Goto("running") /\ target' = Ev.target /\ fallback' = "none"
    BY <1>5 DEF RunCommanded, OnPowerCommand, StorePowerCommand, ClearAutomaticLastDitch
  <2> QED
    BY <1>r, <2>1, <2>2 DEF Events, WellFormed
<1>6. CASE StoreCommand
  <2>1. /\ Goto("running") /\ target' = Ev.target /\ fallback' = "none"
        /\ vehicle' = vehicle /\ ~CanEnterLowPowerState(Ev.target, vehicle)
    BY <1>6 DEF StoreCommand, GStoredCommand, OnPowerCommand, StorePowerCommand,
                ClearAutomaticLastDitch
  <2> QED
    BY <1>r, <2>1 DEF CanEnterLowPowerState
<1>7. CASE EnterOnCommand
  <2>1. /\ target' = Ev.target /\ fallback' = "none" /\ vehicle' = vehicle
        /\ fsmState' = IF Ev.target = "suspend" THEN "suspend-imminent"
                       ELSE "low-power-imminent"
        /\ CanEnterLowPowerState(Ev.target, vehicle) /\ Ev.target \in Targets
    BY <1>7, HeadType DEF EnterOnCommand, GPowerCommand, On, OnPowerCommand,
                          StorePowerCommand, ClearAutomaticLastDitch, Goto
  <2> QED
    BY <2>1 DEF PathInv, PathMatchesTarget, CanEnterLowPowerState, HibernatePath
<1>8. CASE AcceptExplicitHibernate \/ DropEvent
  BY <1>8 DEF AcceptExplicitHibernate, DropEvent, dataVars, PathInv, PathMatchesTarget
<1>9. CASE RecordExplicitHibernate
  <2>1. Ev \in Events /\ Ev.id = "explicit-hibernate" /\ target' = Ev.target
    BY <1>9, HeadType DEF RecordExplicitHibernate, TypeInv, AcceptHasEvent
  <2>2. target' # "reboot"
    BY <2>1 DEF Events, WellFormed, ExplicitTargets
  <2> QED
    BY <1>9, <1>r, <2>2 DEF RecordExplicitHibernate, ClearAutomaticLastDitch
<1>10. CASE RejectExplicitHibernate \/ OnHibernatePreparationFailed
  BY <1>10, <1>r DEF RejectExplicitHibernate, OnHibernatePreparationFailed, PathInv
<1>11. CASE VehicleChangedInRunning
  <2>1. /\ fsmState = "running" /\ Goto(Destination(Ev.vehicle, "pre-suspend"))
        /\ OnVehicleStateChanged(Ev.vehicle) /\ vehicle' = Ev.vehicle
    BY <1>11 DEF VehicleChangedInRunning, GVehicleChanged, On, OnVehicleStateChanged
  <2>2. fallback' # "reboot"
    BY <2>1 DEF OnVehicleStateChanged, PathInv
  <2>3. \/ target' = target
        \/ target' \in {defaultState, "run"}
    BY <2>1 DEF OnVehicleStateChanged
  <2>4. CASE CanEnterLowPowerState(target, Ev.vehicle)
    <3>1. \/ Ev.vehicle = "stand-by"
          \/ target = "reboot" /\ Ev.vehicle = "shutting-down" /\ vehicle # "stand-by"
      BY <2>1, <2>4 DEF CanEnterLowPowerState, PathInv
    <3>2. target' = target
      BY <2>1, <3>1, <2>4 DEF OnVehicleStateChanged, IntentDropped, RequestInterrupted,
                              PathInv
    <3>3. fsmState' = IF target = "suspend" THEN "pre-suspend" ELSE "low-power-imminent"
      BY <1>g, <2>1, <2>4 DEF Destination
    <3> QED
      BY <1>t, <2>1, <2>2, <2>4, <3>1, <3>2, <3>3
         DEF PathInv, PathMatchesTarget, CanEnterLowPowerState, HibernatePath
  <2>5. CASE ~CanEnterLowPowerState(target, Ev.vehicle)
    <3>1. Goto("running")
      BY <2>1, <2>5 DEF Destination
    <3>2. target' = "reboot" => Ev.vehicle \notin {"stand-by", "shutting-down"}
      BY <1>t, <2>3, <2>5 DEF CanEnterLowPowerState
    <3> QED
      BY <1>r, <2>1, <2>2, <3>1, <3>2
  <2> QED
    BY <2>4, <2>5
<1>12. CASE OnVehicleLeftLowPowerState
  BY <1>12, <1>r, <1>t DEF OnVehicleLeftLowPowerState, ClearAutomaticLastDitch
<1>13. CASE BatteryBecameInactive
  <2>1. /\ fsmState = "running" /\ UNCHANGED <<target, vehicle, fallback>>
        /\ fsmState' = IF target = "suspend" THEN Destination(vehicle, "pre-suspend")
                       ELSE "running"
    BY <1>13, <1>g DEF BatteryBecameInactive, GBatteryInactive, On, dataUnchanged
  <2>2. \/ fsmState' = "running"
        \/ /\ target = "suspend" /\ fsmState' = "pre-suspend"
           /\ CanEnterLowPowerState(target, vehicle)
    BY <2>1 DEF Destination
  <2> QED
    BY <1>n, <2>1, <2>2 DEF PathInv, PathMatchesTarget, CanEnterLowPowerState
<1>14. CASE BatteryBecameActive
  <2>1. /\ target = "suspend" /\ UNCHANGED <<target, fallback>> /\ Goto("running")
    BY <1>14 DEF BatteryBecameActive, GBatteryActive, On, PathInv, PathMatchesTarget
  <2> QED
    BY <1>r, <2>1 DEF PathInv
<1>15. CASE OnDefaultStateChanged
  <2>1. queue # << >> /\ Ev.id = "default-state-changed" /\ Ev.target # "reboot"
    BY <1>15, HeadType DEF OnDefaultStateChanged, GDefaultState, On, Events, WellFormed
  <2> QED
    BY <1>15, <1>r, <2>1 DEF OnDefaultStateChanged, ClearAutomaticLastDitch
<1>16. CASE OnLastDitchDefaultStateChanged
  <2>1. /\ queue # << >> /\ Ev.id = "default-state-changed"
        /\ fsmState' = fsmState /\ UNCHANGED <<target, vehicle>> /\ fallback' = Ev.target
    BY <1>16, <1>g DEF OnLastDitchDefaultStateChanged, GLastDitchFallback, On, dataUnchanged
  <2>2. Ev.target # "reboot"
    BY <2>1, HeadType DEF Events, WellFormed
  <2> QED
    BY <2>1, <2>2 DEF PathInv, PathMatchesTarget
<1>17. CASE OnLastDitchTriggered \/ OnLastDitchWakeup
  <2>1. /\ fsmState' = "low-power-imminent" /\ target' = "hibernate"
        /\ vehicle' = vehicle /\ vehicle = "stand-by" /\ target \in {"run", "suspend"}
        /\ fallback' \in {fallback, target}
    BY <1>17, <1>g DEF OnLastDitchTriggered, OnLastDitchWakeup, GLastDitchTriggered,
                       GLastDitchWakeup, BeginAutomaticLastDitch, dataUnchanged,
                       CanEnterLowPowerState
  <2> QED
    BY <2>1 DEF PathInv, PathMatchesTarget, HibernatePath, Targets
<1>18. CASE OnWakeup
  <2>1. /\ fsmState = "issuing-low-power" /\ UNCHANGED <<target, vehicle, fallback>>
        /\ \E s \in {"pre-suspend", "suspend-imminent"} : Goto(Destination(vehicle, s))
    BY <1>18 DEF OnWakeup, GWakeup, On, dataUnchanged
  <2>2. fsmState \in LowPowerStates
    BY <2>1 DEF LowPowerStates, States
  <2>3. CASE CanEnterLowPowerState(target, vehicle)
    <3>1. PICK s \in {"pre-suspend", "suspend-imminent"} : Goto(Destination(vehicle, s))
      BY <2>1
    <3>2. Destination(vehicle, s) = IF target = "suspend" THEN s ELSE "low-power-imminent"
      BY <2>3 DEF Destination
    <3>3. target # "run"
      BY <2>3 DEF CanEnterLowPowerState
    <3> QED
      BY <1>k, <1>t, <2>1, <2>2, <3>1, <3>2, <3>3 DEF LowPowerStates, States, HibernatePath
  <2>4. CASE ~CanEnterLowPowerState(target, vehicle)
    <3>1. Goto("running") /\ target # "reboot"
      BY <2>1, <2>2, <2>4 DEF Destination, CanEnterLowPowerState, PathInv, PathMatchesTarget
    <3> QED
      BY <1>r, <2>1, <3>1 DEF PathInv
  <2> QED
    BY <2>3, <2>4
<1> QED
  BY <1>1, <1>2, <1>3, <1>4, <1>5, <1>6, <1>7, <1>8, <1>9, <1>10, <1>11, <1>12, <1>13,
     <1>14, <1>15, <1>16, <1>17, <1>18 DEF HandleEvent

\* In every low-power state there is a target, the vehicle is (for all the FSM
\* has been told) where that target may be entered, and the countdown that runs
\* is the target's own (definition.go's edges, CanEnterLowPowerState), where
\* pm.default-state is not reboot.
THEOREM PathMatchesTargetHolds ==
    ASSUME "reboot" \notin DefaultStates
    PROVE  Spec => []PathMatchesTarget
<1>1. Init => PathInv
  BY DEF Init, PathInv, PathMatchesTarget, LowPowerStates
<1>2. TypeInv /\ AutomaticProvenance /\ PathInv /\ [Next]_vars => PathInv'
  <2> SUFFICES ASSUME TypeInv, AutomaticProvenance, PathInv, [Next]_vars PROVE PathInv'
    OBVIOUS
  <2>1. CASE SendEvent \/ Nrf \/ World
    BY <2>1, EnvironmentFrame DEF dataVars, PathInv, PathMatchesTarget
  <2>2. CASE EnterState \/ Resume
    BY <2>2, EntryFrame DEF stepUnchanged, PathInv, PathMatchesTarget
  <2>3. CASE UNCHANGED vars
    BY <2>3 DEF vars, fsmVars, dataVars, PathInv, PathMatchesTarget
  <2> QED
    BY <2>1, <2>2, <2>3, PathOfHandler DEF Next
<1>3. PathInv => PathMatchesTarget
  BY DEF PathInv
<1> QED
  BY <1>1, <1>2, <1>3, TypeInvariant, AutomaticProvenanceHolds, PTL DEF Spec

-----------------------------------------------------------------------------
(* The last checks before the board goes down.                             *)

\* What EnterIssuingLowPower has established on its way: past the last check of
\* a condition, the condition held then, and a change since is in `late'.
CommitInv ==
    /\ phase \in {"wake-ack", "gate", "quiesce", "commit"} \cup CommittedPhases =>
         fsmState = "issuing-low-power"
    /\ phase \in {"quiesce", "commit", "prepare", "sleep"} => target = "suspend"
    /\ phase = "final" => Blocking(target) = {} \/ "inhibitors" \in late
    /\ phase \in {"prepare", "sleep"} =>
         /\ liveVehicle = "stand-by" \/ "vehicle" \in late
         /\ liveBattery = "absent" \/ "battery" \in late

\* Handling an event leaves the FSM goroutine outside EnterIssuingLowPower, and
\* the board on.
LEMMA HandlerFrame ==
    ASSUME HandleEvent
    PROVE  phase' \in {"idle", "enter", "accept"} /\ power' = power
<1>g. \A s : Goto(s) => phase' \in {"enter", "idle"}
  BY DEF Goto
<1>w. UNCHANGED worldVars => power' = power
  BY DEF worldVars
<1>1. CASE LowPowerCancelled \/ LastDitchCancelled
  BY <1>1, <1>g, <1>w DEF LowPowerCancelled, LastDitchCancelled, cancelUnchanged
<1>2. CASE PreSuspendElapsed \/ ImminentElapsed \/ InhibitorsGone \/ ModemWaitElapsed
           \/ LateInhibitor \/ OnlyModemLeft
  BY <1>2, <1>g, <1>w DEF PreSuspendElapsed, ImminentElapsed, InhibitorsGone,
     ModemWaitElapsed, LateInhibitor, OnlyModemLeft, AdvanceTo, advanceUnchanged
<1>3. CASE RunCommanded \/ EnterOnCommand \/ StoreCommand
  BY <1>3, <1>g, <1>w DEF RunCommanded, EnterOnCommand, StoreCommand, OnPowerCommand
<1>4. CASE RecordExplicitHibernate \/ RejectExplicitHibernate
           \/ OnHibernatePreparationFailed
  BY <1>4, <1>g, <1>w DEF RecordExplicitHibernate, RejectExplicitHibernate,
     OnHibernatePreparationFailed, explicitUnchanged
<1>5. CASE VehicleChangedInRunning \/ OnVehicleLeftLowPowerState
  BY <1>5, <1>g, <1>w DEF VehicleChangedInRunning, OnVehicleLeftLowPowerState,
     vehicleUnchanged
<1>6. CASE BatteryBecameInactive \/ BatteryBecameActive \/ OnDefaultStateChanged
           \/ OnLastDitchDefaultStateChanged \/ OnLastDitchTriggered
           \/ OnLastDitchWakeup \/ OnWakeup
  BY <1>6, <1>g, <1>w DEF BatteryBecameInactive, BatteryBecameActive,
     OnDefaultStateChanged, OnLastDitchDefaultStateChanged, OnLastDitchTriggered,
     OnLastDitchWakeup, OnWakeup, dataUnchanged
<1>7. CASE AcceptExplicitHibernate \/ DropEvent
  BY <1>7, <1>w DEF AcceptExplicitHibernate, DropEvent, On
<1> QED
  BY <1>1, <1>2, <1>3, <1>4, <1>5, <1>6, <1>7 DEF HandleEvent

\* A change of the live state past the last check is remembered; nothing else
\* the other goroutines and the world do matters.
LEMMA CommitOfEnvironment ==
    CommitInv /\ (SendEvent \/ Nrf \/ World) => CommitInv' /\ power' = power
<1> SUFFICES ASSUME CommitInv, SendEvent \/ Nrf \/ World
             PROVE  CommitInv' /\ power' = power
  OBVIOUS
<1>f. UNCHANGED <<fsmState, phase, target>>
  BY EnvironmentFrame DEF dataVars
<1>k. UNCHANGED <<liveVars, late>> => CommitInv'
  BY <1>f DEF CommitInv, liveVars, Blocking
<1>1. CASE SendEvent
  <2>1. SentOnly
    BY <1>1 DEF SendEvent, StateTimeout, PreparationTimeout, RemoveDelayInhibitor,
                BootGraceExpires, Notify
  <2> QED
    BY <1>k, <2>1 DEF SentOnly
<1>2. CASE Nrf
  BY <1>2, <1>k DEF Nrf, NrfApplies, EchoArrives, SuspendingConfirmed, nrfUnchanged
<1>3. CASE World
  <2>1. ASSUME NEW x, Touch(x), UNCHANGED power,
               x = "vehicle" \/ liveVehicle' = liveVehicle,
               x = "battery" \/ liveBattery' = liveBattery,
               x = "inhibitors" \/ inhibitors' = inhibitors
        PROVE  CommitInv' /\ power' = power
    <3>1. phase \in CommittedPhases => late' = late \cup {x}
      BY <2>1 DEF Touch
    <3> QED
      BY <1>f, <2>1, <3>1 DEF CommitInv, CommittedPhases, Blocking
  <2>2. CASE \E v \in Vehicles : VehicleMoves(v)
    BY <2>1, <2>2 DEF VehicleMoves
  <2>3. CASE \E b \in Batteries : BatteryChanges(b)
    BY <2>1, <2>3 DEF BatteryChanges
  <2>4. CASE ReserveChanges
    BY <2>1, <2>4 DEF ReserveChanges
  <2>5. CASE RemoteAccessChanges
    BY <2>1, <2>5 DEF RemoteAccessChanges
  <2>6. CASE \E i \in Inhibitors : InhibitorToggles(i)
    BY <2>1, <2>6 DEF InhibitorToggles
  <2>7. CASE sendUnchanged
    BY <1>k, <2>7 DEF sendUnchanged
  <2> QED
    BY <1>3, <2>2, <2>3, <2>4, <2>5, <2>6, <2>7
       DEF World, PowerCommandReceived, HibernateCancelReceived, ScheduledHibernate,
           HibernationTimerExpires, VehicleRejectsPreparation, DefaultStateSet,
           LastDitchSet, SuspendWhenOnlineSet
<1> QED
  BY <1>1, <1>2, <1>3

\* EnterIssuingLowPower goes from check to check in this order.
LEMMA CommitOfEntry ==
    AutomaticProvenance /\ CommitInv /\ (EnterState \/ Resume) => CommitInv'
<1> SUFFICES ASSUME AutomaticProvenance, CommitInv, EnterState \/ Resume PROVE CommitInv'
  OBVIOUS
<1>f. UNCHANGED <<fsmState, target>>
  BY EntryFrame DEF stepUnchanged
<1>o. phase' \in {"idle", "resume", "asleep"} => CommitInv'
  BY DEF CommitInv, CommittedPhases
<1>l. issuingUnchanged => UNCHANGED <<liveVehicle, liveBattery, inhibitors>>
  BY DEF issuingUnchanged, liveVars
<1>1. CASE EnterLowPowerImminent \/ EnterWaitingInhibitors \/ WakeTimerAckTimeout
           \/ QuiesceTimeout \/ SuspendFails \/ Suspend \/ HandleWakeupAfterSuspend
           \/ IssueCommand \/ IssueCommandFails \/ Resume
  BY <1>1, <1>o DEF EnterLowPowerImminent, EnterWaitingInhibitors, WakeTimerAckTimeout,
     QuiesceTimeout, SuspendFails, Suspend, HandleWakeupAfterSuspend, IssueCommand,
     IssueCommandFails, Resume, AbortSuspend
<1>2. CASE EnterIssuingLowPower
  <2>1. fsmState = "issuing-low-power" /\ phase' \in {"idle", "wake-ack", "gate"}
    BY <1>2 DEF EnterIssuingLowPower, Entering
  <2> QED
    BY <1>f, <2>1 DEF CommitInv
<1>3. CASE WakeTimerAcked
  <2>1. phase = "wake-ack" /\ phase' \in {"wake-ack", "gate"}
    BY <1>3 DEF WakeTimerAcked
  <2> QED
    BY <1>f, <2>1 DEF CommitInv
<1>4. CASE InhibitorGate
  <2>1. /\ phase = "gate" /\ issuingUnchanged
        /\ \/ phase' = "idle"
           \/ phase' = "final" /\ Blocking(target) = {}
           \/ phase' = "quiesce" /\ target = "suspend"
    BY <1>4 DEF InhibitorGate, AbortSuspend, LateBlockingInhibitor, HasBlockingInhibitors
  <2>2. Blocking(target)' = Blocking(target)
    BY <1>f, <1>l, <2>1 DEF Blocking
  <2> QED
    BY <1>f, <2>1, <2>2 DEF CommitInv
<1>5. CASE Quiesced
  <2>1. phase = "quiesce" /\ phase' = "commit"
    BY <1>5 DEF Quiesced
  <2> QED
    BY <1>f, <2>1 DEF CommitInv
<1>6. CASE CommitSuspend
  <2>1. /\ phase = "commit" /\ issuingUnchanged
        /\ \/ phase' = "idle"
           \/ phase' = "prepare" /\ liveVehicle = "stand-by" /\ ~ShouldCancelLowPower
    BY <1>6 DEF CommitSuspend, AbortSuspend
  <2>2. fsmState = "issuing-low-power" /\ target = "suspend"
    BY <2>1 DEF CommitInv
  <2>3. ~automatic
    BY <2>2 DEF AutomaticProvenance
  <2>4. ~ShouldCancelLowPower => liveBattery = "absent"
    BY <2>2, <2>3 DEF ShouldCancelLowPower, CanEnterLowPowerState
  <2> QED
    BY <1>f, <1>l, <2>1, <2>2, <2>4 DEF CommitInv
<1>7. CASE ClockPrepared
  <2>1. phase = "prepare" /\ phase' = "sleep" /\ issuingUnchanged /\ late' = late
    BY <1>7 DEF ClockPrepared
  <2> QED
    BY <1>f, <1>l, <2>1 DEF CommitInv, CommittedPhases
<1> QED
  BY <1>1, <1>2, <1>3, <1>4, <1>5, <1>6, <1>7 DEF EnterState

\* The progress of EnterIssuingLowPower, as an invariant.
LEMMA CommitInvariant == Spec => []CommitInv
<1>1. Init => CommitInv
  BY DEF Init, CommitInv, CommittedPhases
<1>2. AutomaticProvenance /\ CommitInv /\ [Next]_vars => CommitInv'
  <2> SUFFICES ASSUME AutomaticProvenance, CommitInv, [Next]_vars PROVE CommitInv'
    OBVIOUS
  <2>1. CASE HandleEvent
    BY <2>1, HandlerFrame DEF CommitInv, CommittedPhases
  <2>2. CASE UNCHANGED vars
    BY <2>2 DEF vars, fsmVars, dataVars, worldVars, liveVars, CommitInv, Blocking
  <2> QED
    BY <2>1, <2>2, CommitOfEnvironment, CommitOfEntry DEF Next
<1> QED
  BY <1>1, <1>2, AutomaticProvenanceHolds, PTL DEF Spec

\* Only the last step of EnterIssuingLowPower takes the board down.
LEMMA GoingDown ==
    ASSUME CommitInv, Next, power = "on", power' # "on"
    PROVE  \/ Suspend /\ power' = "asleep"
           \/ IssueCommand /\ power' \in {"off", "rebooting"}
<1>1. ~(HandleEvent \/ SendEvent \/ Nrf \/ World \/ Resume)
  BY HandlerFrame, CommitOfEnvironment DEF Resume
<1>2. EnterState
  BY <1>1 DEF Next
<1> QED
  BY <1>2 DEF EnterState, EnterLowPowerImminent, EnterWaitingInhibitors,
     EnterIssuingLowPower, WakeTimerAcked, WakeTimerAckTimeout, InhibitorGate, Quiesced,
     QuiesceTimeout, CommitSuspend, ClockPrepared, SuspendFails, Suspend,
     HandleWakeupAfterSuspend, IssueCommand, IssueCommandFails, worldVars

\* The board is powered off or rebooted only while no block inhibitor is held,
\* unless a client took one after the last check (service.go, the gate of
\* EnterIssuingLowPower), whatever clients do.
THEOREM PoweroffIsUnblockedHolds == Spec => PoweroffIsUnblocked
<1>1. CommitInv /\ [Next]_vars =>
        [power = "on" /\ power' \in {"off", "rebooting"} =>
           Blocking(target) = {} \/ "inhibitors" \in late]_vars
  BY GoingDown DEF IssueCommand, CommitInv
<1> QED
  BY <1>1, CommitInvariant, PTL DEF Spec, PoweroffIsUnblocked

\* The board suspends only while the vehicle is in stand-by and no main battery
\* is inserted, unless that changed after the last check, which comes after the
\* wait for the nRF's confirmation (service.go, EnterIssuingLowPower).
THEOREM SuspendIsEligibleHolds == Spec => SuspendIsEligible
<1>1. CommitInv /\ [Next]_vars =>
        [power = "on" /\ power' = "asleep" =>
           /\ liveVehicle = "stand-by" \/ "vehicle" \in late
           /\ liveBattery = "absent" \/ "battery" \in late]_vars
  BY GoingDown DEF Suspend, CommitInv
<1> QED
  BY <1>1, CommitInvariant, PTL DEF Spec, SuspendIsEligible

=============================================================================
