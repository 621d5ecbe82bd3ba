-------------------------- MODULE PowerManagerProofs --------------------------
(***************************************************************************)
(* Proofs about the power FSM, for every choice of commands, durations,    *)
(* inputs and bounds.                                                      *)
(***************************************************************************)
EXTENDS PowerProperties, TLAPS

-----------------------------------------------------------------------------
(* The queue.                                                              *)

\* Sending events keeps the queue well formed and its head in place.
LEMMA SendKeepsHead ==
    ASSUME NEW s \in Seq(Events), NEW t \in Seq(Events)
    PROVE  /\ s \o t \in Seq(Events)
           /\ s # << >> => s \o t # << >> /\ Head(s \o t) = Head(s)
BY SMT

\* Sending one event does, too.
LEMMA AppendKeepsHead ==
    ASSUME NEW s \in Seq(Events), NEW e \in Events
    PROVE  /\ Append(s, e) \in Seq(Events)
           /\ s # << >> => Append(s, e) # << >> /\ Head(Append(s, e)) = Head(s)
BY SMT

\* What is taken from the queue, and what stays, is well formed.
LEMMA TakeFromQueue ==
    ASSUME NEW s \in Seq(Events), s # << >>
    PROVE  Head(s) \in Events /\ Tail(s) \in Seq(Events)
BY SMT

\* The short sequences the handlers send are sequences of events.
LEMMA SmallSeqs ==
    /\ << >> \in Seq(Events)
    /\ \A e \in Events : <<e>> \in Seq(Events)
    /\ \A e, f \in Events : <<e, f>> \in Seq(Events)
BY SMT

\* Every event the code sends carries the payload its handlers rely on.
LEMMA SignalType ==
    ASSUME NEW id \in EventIds \ (PowerCommandIds \cup
                        {"explicit-hibernate", "default-state-changed"})
    PROVE  Signal(id) \in Events
BY DEF Signal, Events, WellFormed, Targets, VehicleStates

\* So do the events of the watchers, the timers and the last-ditch check.
LEMMA EventTypes ==
    /\ \A v \in VehicleStates : VehicleStateChanged(v) \in Events
    /\ \A r \in Nat : PreparationFailed(r) \in Events
    /\ PowerRun \in Events
    /\ \A s \in States : TimeoutEvent(s) \in Events
    /\ Command("last-ditch-check", "hibernate", 0) \in Events
BY SignalType
   DEF VehicleStateChanged, PreparationFailed, PowerRun, TimeoutEvent, Command,
       Events, WellFormed, Targets, VehicleStates, EventIds, PowerCommandIds,
       RecheckIds

\* Commands carry the target of their event, and a duration exactly when that
\* target is hibernate-for.
LEMMA CommandType ==
    /\ Command("power-suspend", "suspend", 0) \in Events
    /\ Command("power-hibernate", "hibernate", 0) \in Events
    /\ Command("power-hibernate-timer", "hibernate-timer", 0) \in Events
    /\ Command("power-reboot", "reboot", 0) \in Events
    /\ Command("hibernation-timer-expired", "hibernate-timer", 0) \in Events
    /\ Command("explicit-hibernate", "hibernate-manual", 0) \in Events
    /\ \A d \in Nat \ {0} :
          /\ Command("explicit-hibernate", "hibernate-for", d) \in Events
          /\ Command("power-hibernate-for", "hibernate-for", d) \in Events
BY DEF Command, Events, WellFormed, CommandTarget, PowerCommandIds, EventIds, Targets,
       VehicleStates, ExplicitTargets

\* What sendLastDitchCheck (service.go) sends.
LEMMA LastDitchCheckType == \A b : LastDitchCheck(b) \in Seq(Events)
BY SignalType, EventTypes, SmallSeqs, SendKeepsHead
   DEF LastDitchCheck, EventIds, PowerCommandIds, RecheckIds

\* What the battery watchers (service.go) send.
LEMMA BatteryEventsType == BatteryEvents \in Seq(Events)
BY SignalType, SmallSeqs DEF BatteryEvents, EventIds, PowerCommandIds, RecheckIds

-----------------------------------------------------------------------------
(* Type correctness.                                                       *)

\* Type correctness, strengthened to be inductive.
TypeInv == TypeOK /\ AcceptHasEvent

\* What Run (service.go) sets up is well typed.
LEMMA InitType == Init => TypeInv
<1> SUFFICES ASSUME Init PROVE TypeInv
  OBVIOUS
<1> USE DefaultStatesAssumption, ConstantsAssumption DEF Init
<1>1. FsmTypeOK
  BY DEF FsmTypeOK, States, Phases
<1>2. QueueTypeOK
  <2>1. \A s, t \in Seq(Events) : s \o t \in Seq(Events)
    OBVIOUS
  <2>2. << >> \in Seq(Events) /\ <<VehicleStateChanged(liveVehicle)>> \in Seq(Events)
    BY EventTypes, SmallSeqs
  <2>3. StartupEvents(liveVehicle = "stand-by") \in Seq(Events)
    BY <2>1, <2>2, LastDitchCheckType, BatteryEventsType DEF StartupEvents
  <2> QED
    BY <2>3 DEF QueueTypeOK
<1>3. AcceptHasEvent
  BY DEF AcceptHasEvent
<1>4. DataTypeOK
  BY DEF DataTypeOK, ValidDefaultStates
<1>5. SettingTypeOK
  <2>1. suspendWhenOnline \in BOOLEAN
    OBVIOUS
  <2>2. bootGrace \in BOOLEAN
    OBVIOUS
  <2> QED
    BY <2>1, <2>2 DEF SettingTypeOK
<1>6. WakeTypeOK /\ RequestTypeOK
  BY DEF WakeTypeOK, RequestTypeOK
<1>7. WorldTypeOK
  BY DEF WorldTypeOK
<1> QED
  BY <1>1, <1>2, <1>3, <1>4, <1>5, <1>6, <1>7 DEF TypeInv, TypeOK

\* A transition leaves the FSM's own variables well typed.
LEMMA GotoType ==
    ASSUME FsmTypeOK, NEW s \in States, Goto(s)
    PROVE  /\ fsmState' \in States /\ phase' \in Phases \ {"accept"}
           /\ stateTimer' \in BOOLEAN /\ late' = {}
           /\ delayInhibitor' \in {"held", "removing", "none"}
BY DEF FsmTypeOK, Goto, Phases, CommittedPhases

\* Handling an event and sending others keeps the queue well formed.
LEMMA TakeType ==
    ASSUME QueueTypeOK, queue # << >>, NEW sent \in Seq(Events), Take(sent)
    PROVE  QueueTypeOK'
BY TakeFromQueue, SendKeepsHead DEF QueueTypeOK, Take

\* A handled event leaves everything well typed if its transition goes to some
\* state and what the handler writes is well typed.
LEMMA HandledType ==
    ASSUME TypeInv, NEW s \in States, Goto(s),
           QueueTypeOK', DataTypeOK', RequestTypeOK', hibernationTimer' \in BOOLEAN,
           wakeTimerArmed' \in BOOLEAN, wakeTimerAcks' = wakeTimerAcks,
           wakeTimerSeconds' \in Nat, armRequest' \in SUBSET Nat,
           UNCHANGED <<quiesceVars, worldVars>>
    PROVE  TypeInv'
<1>1. FsmTypeOK' /\ late' = {} /\ AcceptHasEvent'
  BY GotoType DEF TypeInv, TypeOK, FsmTypeOK, AcceptHasEvent
<1>2. WakeTypeOK'
  BY DEF TypeInv, TypeOK, WakeTypeOK, worldVars, nrfVars
<1>3. SettingTypeOK' /\ WorldTypeOK'
  BY <1>1 DEF TypeInv, TypeOK, SettingTypeOK, WorldTypeOK, worldVars, settingVars,
              liveVars, quiesceVars
<1> QED
  BY <1>1, <1>2, <1>3 DEF TypeInv, TypeOK

\* What the event at the head of the queue may carry.
LEMMA HeadType ==
    ASSUME TypeInv, queue # << >>
    PROVE  /\ Ev \in Events
           /\ Ev.target \in Targets /\ Ev.secs \in Nat /\ Ev.vehicle \in VehicleStates
BY TakeFromQueue DEF TypeInv, TypeOK, QueueTypeOK, Ev, Events

\* The states the edges of definition.go lead to.
LEMMA StateNames ==
    /\ {"running", "pre-suspend", "suspend-imminent", "low-power-imminent",
        "waiting-inhibitors", "issuing-low-power"} \subseteq States
    /\ \A v, x : x \in {"pre-suspend", "suspend-imminent"} =>
                    Destination(v, x) \in States
BY DEF States, Destination

\* What the helpers write.
LEMMA ForgetType ==
    ASSUME TypeOK, ForgetHibernateRequest
    PROVE  /\ requestID' = 0 /\ preparationTimer' = 0 /\ wakeTimerArmed' = FALSE
           /\ wakeTimerSeconds' \in Nat /\ armRequest' \in SUBSET Nat
<1>1. \/ SetWakeTimer(0)
      \/ UNCHANGED <<wakeTimerSeconds, armRequest>>
  BY Zenon DEF ForgetHibernateRequest
<1>2. SetWakeTimer(0) => wakeTimerSeconds' \in Nat /\ armRequest' \in SUBSET Nat
  BY DEF SetWakeTimer
<1>3. UNCHANGED <<wakeTimerSeconds, armRequest>> =>
        wakeTimerSeconds' \in Nat /\ armRequest' \in SUBSET Nat
  BY DEF TypeOK, WakeTypeOK
<1> QED
  BY <1>1, <1>2, <1>3 DEF ForgetHibernateRequest

\* What OnLastDitchDisabled (service.go) writes.
LEMMA LastDitchDisabledType ==
    ASSUME TypeInv, queue # << >>, OnLastDitchDisabled
    PROVE  /\ target' \in Targets /\ wakeSeconds' = 0 /\ wakeTimerArmed' = FALSE
           /\ automatic' = FALSE /\ fallback' = "none" /\ modemDisabled' = FALSE
           /\ QueueTypeOK'
<1>1. QueueTypeOK'
  BY TakeType, SmallSeqs, EventTypes
     DEF OnLastDitchDisabled, TypeInv, TypeOK, WorldTypeOK
<1>2. target' \in Targets
  BY DefaultStatesAssumption
     DEF OnLastDitchDisabled, TypeInv, TypeOK, DataTypeOK, SettingTypeOK,
         ValidDefaultStates
<1> QED
  BY <1>1, <1>2 DEF OnLastDitchDisabled, ClearAutomaticLastDitch

\* What either way of cancelling a transition writes.
LEMMA CancelledType ==
    ASSUME TypeInv, queue # << >>, OnLowPowerCancelled \/ OnLastDitchDisabled,
           cancelUnchanged
    PROVE  /\ QueueTypeOK' /\ DataTypeOK' /\ RequestTypeOK'
           /\ wakeTimerArmed' \in BOOLEAN
<1>1. RequestTypeOK' /\ vehicle' = vehicle /\ requestID' = requestID
  BY DEF TypeInv, TypeOK, RequestTypeOK, requestVars, cancelUnchanged
<1>2. CASE OnLastDitchDisabled
  <2>1. /\ target' \in Targets /\ wakeSeconds' = 0 /\ wakeTimerArmed' = FALSE
        /\ automatic' = FALSE /\ fallback' = "none" /\ modemDisabled' = FALSE
        /\ QueueTypeOK'
    BY <1>2, LastDitchDisabledType
  <2> QED
    BY <1>1, <2>1 DEF TypeInv, TypeOK, DataTypeOK
<1>3. CASE OnLowPowerCancelled /\ ~OnLastDitchDisabled
  BY <1>1, <1>3, TakeType, SmallSeqs
     DEF OnLowPowerCancelled, TypeInv, TypeOK, DataTypeOK, WakeTypeOK
<1> QED
  BY <1>2, <1>3

\* What OnPowerCommand (service.go) writes.
LEMMA OnPowerCommandType ==
    ASSUME TypeInv, queue # << >>, OnPowerCommand
    PROVE  /\ QueueTypeOK' /\ DataTypeOK' /\ RequestTypeOK'
           /\ wakeTimerArmed' \in BOOLEAN /\ wakeTimerSeconds' \in Nat
           /\ armRequest' \in SUBSET Nat
<1>1. QueueTypeOK'
  BY TakeType, SmallSeqs DEF OnPowerCommand, TypeInv, TypeOK
<1>2. /\ requestID' = 0 /\ preparationTimer' = 0 /\ wakeTimerArmed' = FALSE
      /\ wakeTimerSeconds' \in Nat /\ armRequest' \in SUBSET Nat
  BY ForgetType DEF OnPowerCommand, StorePowerCommand, TypeInv
<1>3. DataTypeOK'
  BY <1>2, HeadType
     DEF OnPowerCommand, StorePowerCommand, ClearAutomaticLastDitch, TypeInv, TypeOK,
         DataTypeOK
<1> QED
  BY <1>1, <1>2, <1>3 DEF OnPowerCommand, TypeInv, TypeOK, RequestTypeOK

\* What OnVehicleStateChanged (service.go) writes.
LEMMA OnVehicleStateChangedType ==
    ASSUME TypeInv, NEW v \in VehicleStates, OnVehicleStateChanged(v),
           lastRequestID' = lastRequestID
    PROVE  /\ DataTypeOK' /\ RequestTypeOK' /\ hibernationTimer' \in BOOLEAN
           /\ wakeTimerArmed' \in BOOLEAN /\ wakeTimerSeconds' \in Nat
           /\ armRequest' \in SUBSET Nat
<1>1. /\ requestID' \in Nat /\ wakeSeconds' \in Nat /\ preparationTimer' \in Nat
      /\ wakeTimerArmed' \in BOOLEAN /\ wakeTimerSeconds' \in Nat
      /\ armRequest' \in SUBSET Nat
  <2>1. CASE RequestInterrupted(v)
    <3>1. ForgetHibernateRequest /\ wakeSeconds' = 0
      BY <2>1 DEF OnVehicleStateChanged, ClearHibernateRequest
    <3> QED
      BY <3>1, ForgetType DEF TypeInv
  <2>2. CASE ~RequestInterrupted(v)
    <3>1. /\ preparationTimer' = IF v = "stand-by" THEN 0 ELSE preparationTimer
          /\ UNCHANGED <<requestID, wakeSeconds, wakeTimerArmed, wakeTimerSeconds,
                         armRequest>>
      BY <2>2 DEF OnVehicleStateChanged
    <3> QED
      BY <3>1 DEF TypeInv, TypeOK, DataTypeOK, WakeTypeOK, RequestTypeOK
  <2> QED
    BY <2>1, <2>2
<1>2. target' \in Targets /\ vehicle' \in VehicleStates
  BY DefaultStatesAssumption
     DEF OnVehicleStateChanged, TypeInv, TypeOK, DataTypeOK, SettingTypeOK,
         ValidDefaultStates, Targets
<1>3. /\ automatic' \in BOOLEAN /\ fallback' \in Targets \cup {"none"}
      /\ modemDisabled' \in BOOLEAN /\ hibernationTimer' \in BOOLEAN
  BY DEF OnVehicleStateChanged, SetHibernationTimer, TypeInv, TypeOK, DataTypeOK,
         FsmTypeOK
<1> QED
  BY <1>1, <1>2, <1>3 DEF TypeInv, TypeOK, DataTypeOK, RequestTypeOK

\* A step that only moves the phase or the queue.
LEMMA IdleType ==
    ASSUME TypeInv, phase' \in Phases, QueueTypeOK', AcceptHasEvent',
           UNCHANGED <<fsmState, stateTimer, delayInhibitor, dataVars, wakeVars,
                       requestVars, quiesceVars, worldVars, hibernationTimer, late>>
    PROVE  TypeInv'
BY DEF TypeInv, TypeOK, FsmTypeOK, DataTypeOK, WakeTypeOK, RequestTypeOK,
       SettingTypeOK, WorldTypeOK, dataVars, wakeVars, requestVars, quiesceVars,
       worldVars, settingVars, liveVars, nrfVars

\* A handler that ends a failed explicit request (hibernate_request.go).
LEMMA ClearedType ==
    ASSUME TypeInv, queue # << >>, Goto("running"), "running" \in States,
           ClearHibernateRequest, target' = "run", Take(<< >>),
           UNCHANGED <<vehicle, automatic, fallback, modemDisabled, lastRequestID>>,
           explicitUnchanged
    PROVE  TypeInv'
<1>1. /\ requestID' = 0 /\ preparationTimer' = 0 /\ wakeTimerArmed' = FALSE
      /\ wakeTimerSeconds' \in Nat /\ armRequest' \in SUBSET Nat
  BY ForgetType DEF TypeInv, ClearHibernateRequest
<1>2. QueueTypeOK'
  BY TakeType, SmallSeqs DEF TypeInv, TypeOK
<1>3. DataTypeOK' /\ RequestTypeOK'
  BY <1>1 DEF TypeInv, TypeOK, DataTypeOK, RequestTypeOK, ClearHibernateRequest, Targets
<1>4. /\ hibernationTimer' \in BOOLEAN /\ wakeTimerAcks' = wakeTimerAcks
      /\ UNCHANGED <<quiesceVars, worldVars>>
  BY DEF TypeInv, TypeOK, FsmTypeOK, explicitUnchanged
<1> QED
  BY <1>1, <1>2, <1>3, <1>4, HandledType

\* A handler that only touches target, provenance and modem.
LEMMA DataHandledType ==
    ASSUME TypeInv, queue # << >>, Take(<< >>), dataUnchanged,
           NEW s \in States, Goto(s),
           target' \in Targets, wakeSeconds' \in Nat, wakeTimerArmed' \in BOOLEAN,
           automatic' \in BOOLEAN, fallback' \in Targets \cup {"none"},
           modemDisabled' \in BOOLEAN
    PROVE  TypeInv'
<1>1. QueueTypeOK'
  BY TakeType, SmallSeqs DEF TypeInv, TypeOK
<1>2. DataTypeOK' /\ RequestTypeOK'
  BY DEF TypeInv, TypeOK, DataTypeOK, RequestTypeOK, dataUnchanged, requestVars
<1>3. /\ hibernationTimer' \in BOOLEAN /\ wakeTimerAcks' = wakeTimerAcks
      /\ wakeTimerSeconds' \in Nat /\ armRequest' \in SUBSET Nat
      /\ UNCHANGED <<quiesceVars, worldVars>>
  BY DEF TypeInv, TypeOK, FsmTypeOK, WakeTypeOK, dataUnchanged
<1> QED
  BY <1>1, <1>2, <1>3, HandledType

\* A handler that moves on to state s, with or without the modem.
LEMMA AdvancedType ==
    ASSUME TypeInv, queue # << >>, NEW s \in States, Goto(s), Take(<< >>),
           modemDisabled' \in BOOLEAN, advanceUnchanged
    PROVE  TypeInv'
<1>t. /\ FsmTypeOK /\ QueueTypeOK /\ DataTypeOK /\ WakeTypeOK /\ RequestTypeOK
  BY DEF TypeInv, TypeOK
<1>1. QueueTypeOK' /\ DataTypeOK' /\ RequestTypeOK'
  BY <1>t, TakeType, SmallSeqs DEF DataTypeOK, RequestTypeOK, advanceUnchanged, requestVars
<1>2. /\ hibernationTimer' \in BOOLEAN /\ wakeTimerArmed' \in BOOLEAN
      /\ wakeTimerSeconds' \in Nat /\ armRequest' \in SUBSET Nat
      /\ wakeTimerAcks' = wakeTimerAcks /\ UNCHANGED <<quiesceVars, worldVars>>
  BY <1>t DEF FsmTypeOK, WakeTypeOK, advanceUnchanged, wakeVars
<1> QED
  BY <1>1, <1>2, HandledType

\* A handler that stores a power command on the way to state s.
LEMMA CommandedType ==
    ASSUME TypeInv, queue # << >>, NEW s \in States, Goto(s), OnPowerCommand
    PROVE  TypeInv'
<1>1. /\ QueueTypeOK' /\ DataTypeOK' /\ RequestTypeOK'
      /\ wakeTimerArmed' \in BOOLEAN /\ wakeTimerSeconds' \in Nat
      /\ armRequest' \in SUBSET Nat
  BY OnPowerCommandType
<1>2. /\ hibernationTimer' \in BOOLEAN
      /\ wakeTimerAcks' = wakeTimerAcks /\ UNCHANGED <<quiesceVars, worldVars>>
  BY DEF TypeInv, TypeOK, FsmTypeOK, OnPowerCommand
<1> QED
  BY <1>1, <1>2, HandledType

\* A handler that cancels the transition and returns to running.
LEMMA RestoredType ==
    ASSUME TypeInv, queue # << >>, Goto("running"),
           OnLowPowerCancelled \/ OnLastDitchDisabled, cancelUnchanged
    PROVE  TypeInv'
<1>1. /\ QueueTypeOK' /\ DataTypeOK' /\ RequestTypeOK' /\ wakeTimerArmed' \in BOOLEAN
  BY CancelledType
<1>2. /\ hibernationTimer' \in BOOLEAN
      /\ wakeTimerSeconds' \in Nat /\ armRequest' \in SUBSET Nat
      /\ wakeTimerAcks' = wakeTimerAcks /\ UNCHANGED <<quiesceVars, worldVars>>
  BY DEF TypeInv, TypeOK, FsmTypeOK, WakeTypeOK, cancelUnchanged
<1> QED
  BY <1>1, <1>2, StateNames, HandledType

\* Handling an event keeps the state well typed, whichever edge it takes.
LEMMA HandleEventType == TypeInv /\ HandleEvent => TypeInv'
<1> SUFFICES ASSUME TypeInv, HandleEvent PROVE TypeInv'
  OBVIOUS
<1> USE StateNames DEF On
<1>t. /\ FsmTypeOK /\ QueueTypeOK /\ DataTypeOK /\ WakeTypeOK /\ RequestTypeOK
      /\ defaultState \in Targets
  BY DefaultStatesAssumption DEF TypeInv, TypeOK, SettingTypeOK, ValidDefaultStates
<1>1. CASE LowPowerCancelled
  BY <1>1, RestoredType DEF LowPowerCancelled, GLowPowerCancelled
<1>2. CASE LastDitchCancelled
  BY <1>2, RestoredType DEF LastDitchCancelled, GLastDitchCancelled
<1>3. ASSUME NEW s \in States, queue # << >>, AdvanceTo(s) PROVE TypeInv'
  BY <1>3, <1>t, AdvancedType DEF AdvanceTo, DataTypeOK
<1>4. CASE PreSuspendElapsed
  BY <1>3, <1>4 DEF PreSuspendElapsed, GPreSuspendElapsed
<1>5. CASE ImminentElapsed
  BY <1>3, <1>5 DEF ImminentElapsed, GImminentElapsed
<1>6. CASE InhibitorsGone \/ ModemWaitElapsed
  BY <1>3, <1>6 DEF InhibitorsGone, GInhibitorsGone, ModemWaitElapsed, GModemWaitElapsed
<1>7. CASE LateInhibitor
  BY <1>3, <1>7 DEF LateInhibitor, GLateInhibitor
<1>8. CASE OnlyModemLeft
  BY <1>8, AdvancedType DEF OnlyModemLeft, GOnlyModemLeft
<1>9. CASE RunCommanded
  BY <1>9, CommandedType DEF RunCommanded, GPowerRun
<1>10. CASE StoreCommand
  BY <1>10, CommandedType DEF StoreCommand, GStoredCommand
<1>11. CASE EnterOnCommand
  BY <1>11, CommandedType DEF EnterOnCommand, GPowerCommand
<1>12. CASE AcceptExplicitHibernate
  <2>1. /\ queue # << >> /\ Ev.id = "explicit-hibernate"
        /\ phase' = "accept" /\ queue' = queue
        /\ UNCHANGED <<fsmState, stateTimer, delayInhibitor, dataVars, wakeVars,
                      requestVars, quiesceVars, worldVars, hibernationTimer, late>>
    BY <1>12 DEF AcceptExplicitHibernate, GExplicitHibernate
  <2>2. QueueTypeOK' /\ AcceptHasEvent' /\ phase' \in Phases
    BY <1>t, <2>1 DEF QueueTypeOK, AcceptHasEvent, Ev, Phases
  <2> QED
    BY <2>1, <2>2, IdleType
<1>13. CASE RecordExplicitHibernate
  <2>1. /\ queue # << >> /\ Goto("running") /\ "running" \in States
        /\ Ev.target \in Targets /\ Ev.secs \in Nat
        /\ liveVehicle \in VehicleStates
    BY <1>13, HeadType DEF RecordExplicitHibernate, TypeInv, TypeOK, AcceptHasEvent,
                            WorldTypeOK
  <2>2. QueueTypeOK'
    BY <1>t, <1>13, <2>1, TakeType, SmallSeqs, EventTypes DEF RecordExplicitHibernate
  <2>3. /\ requestID' \in Nat /\ preparationTimer' \in Nat /\ lastRequestID' \in Nat
    BY <1>t, <1>13 DEF RecordExplicitHibernate, RequestTypeOK
  <2>4. wakeTimerSeconds' \in Nat /\ armRequest' \in SUBSET Nat /\ wakeTimerArmed' = FALSE
    <3>1. SetWakeTimer(0) \/ UNCHANGED <<wakeTimerSeconds, armRequest>>
      BY <1>13, Zenon DEF RecordExplicitHibernate
    <3>2. SetWakeTimer(0) => wakeTimerSeconds' \in Nat /\ armRequest' \in SUBSET Nat
      BY DEF SetWakeTimer
    <3>3. UNCHANGED <<wakeTimerSeconds, armRequest>> =>
            wakeTimerSeconds' \in Nat /\ armRequest' \in SUBSET Nat
      BY <1>t DEF WakeTypeOK
    <3> QED
      BY <1>13, <3>1, <3>2, <3>3 DEF RecordExplicitHibernate
  <2>5. /\ target' = Ev.target /\ vehicle' = liveVehicle /\ wakeSeconds' = Ev.secs
        /\ automatic' = FALSE /\ fallback' = "none"
        /\ UNCHANGED <<modemDisabled, wakeTimerAcks, hibernationTimer, quiesceVars,
                      worldVars>>
    BY <1>13 DEF RecordExplicitHibernate, ClearAutomaticLastDitch, explicitUnchanged
  <2>6. DataTypeOK' /\ RequestTypeOK' /\ hibernationTimer' \in BOOLEAN
    BY <1>t, <2>1, <2>3, <2>5 DEF DataTypeOK, RequestTypeOK, FsmTypeOK
  <2> QED
    BY <2>1, <2>2, <2>4, <2>5, <2>6, HandledType
<1>14. CASE RejectExplicitHibernate
  <2>1. /\ queue # << >> /\ Goto("running") /\ "running" \in States
        /\ ClearHibernateRequest /\ target' = "run" /\ Take(<< >>)
        /\ UNCHANGED <<vehicle, automatic, fallback, modemDisabled, lastRequestID>>
        /\ explicitUnchanged
    BY <1>14 DEF RejectExplicitHibernate, AcceptHasEvent, TypeInv
  <2> QED
    BY <2>1, ClearedType
<1>15. CASE OnHibernatePreparationFailed
  <2>1. /\ queue # << >> /\ Goto("running") /\ "running" \in States
        /\ ClearHibernateRequest /\ target' = "run" /\ Take(<< >>)
        /\ UNCHANGED <<vehicle, automatic, fallback, modemDisabled, lastRequestID>>
        /\ explicitUnchanged
    BY <1>15 DEF OnHibernatePreparationFailed, GPreparationFailed
  <2> QED
    BY <2>1, ClearedType
<1>16. CASE VehicleChangedInRunning
  <2>1. /\ queue # << >> /\ OnVehicleStateChanged(Ev.vehicle) /\ Take(<< >>)
        /\ vehicleUnchanged
        /\ \E s \in States : Goto(s)
    BY <1>16 DEF VehicleChangedInRunning, GVehicleChanged
  <2>2. Ev.vehicle \in VehicleStates
    BY <2>1, HeadType
  <2>3. QueueTypeOK' /\ lastRequestID' = lastRequestID
    BY <1>t, <2>1, TakeType, SmallSeqs DEF vehicleUnchanged
  <2>4. /\ wakeTimerAcks' = wakeTimerAcks
        /\ UNCHANGED <<quiesceVars, worldVars>>
    BY <2>1 DEF vehicleUnchanged
  <2> QED
    BY <2>1, <2>2, <2>3, <2>4, OnVehicleStateChangedType, HandledType
<1>17. CASE OnVehicleLeftLowPowerState
  <2>1. /\ queue # << >> /\ Goto("running") /\ "running" \in States
        /\ ForgetHibernateRequest /\ wakeSeconds' = 0 /\ Take(<< >>)
        /\ vehicle' = Ev.vehicle /\ target' = defaultState
        /\ automatic' = FALSE /\ fallback' = "none" /\ modemDisabled' = FALSE
        /\ vehicleUnchanged
    BY <1>17 DEF OnVehicleLeftLowPowerState, GVehicleLeft, ClearHibernateRequest,
                  ClearAutomaticLastDitch
  <2>2. /\ requestID' = 0 /\ preparationTimer' = 0 /\ wakeTimerArmed' = FALSE
        /\ wakeTimerSeconds' \in Nat /\ armRequest' \in SUBSET Nat
    BY <2>1, ForgetType DEF TypeInv
  <2>3. QueueTypeOK' /\ lastRequestID' = lastRequestID
    BY <1>t, <2>1, TakeType, SmallSeqs DEF vehicleUnchanged
  <2>4. DataTypeOK' /\ RequestTypeOK'
    BY <1>t, <2>1, <2>2, <2>3, HeadType DEF DataTypeOK, RequestTypeOK
  <2>5. hibernationTimer' \in BOOLEAN
    BY <1>t, <1>17 DEF OnVehicleLeftLowPowerState, SetHibernationTimer, FsmTypeOK
  <2>6. /\ wakeTimerAcks' = wakeTimerAcks
        /\ UNCHANGED <<quiesceVars, worldVars>>
    BY <2>1 DEF vehicleUnchanged
  <2> QED
    BY <2>1, <2>2, <2>3, <2>4, <2>5, <2>6, HandledType
<1>18. CASE BatteryBecameInactive
  <2>1. /\ queue # << >> /\ Take(<< >>) /\ dataUnchanged
        /\ \E s \in States : Goto(s)
    BY <1>t, <1>18 DEF BatteryBecameInactive, GBatteryInactive
  <2>2. /\ target' \in Targets /\ wakeSeconds' \in Nat /\ wakeTimerArmed' \in BOOLEAN
        /\ automatic' \in BOOLEAN /\ fallback' \in Targets \cup {"none"}
        /\ modemDisabled' \in BOOLEAN
    BY <1>t, <1>18, <2>1
       DEF BatteryBecameInactive, DataTypeOK, WakeTypeOK
  <2> QED
    BY <2>1, <2>2, DataHandledType
<1>19. CASE BatteryBecameActive
  <2>1. /\ queue # << >> /\ Take(<< >>) /\ dataUnchanged
        /\ \E s \in States : Goto(s)
    BY <1>t, <1>19 DEF BatteryBecameActive, GBatteryActive
  <2>2. /\ target' \in Targets /\ wakeSeconds' \in Nat /\ wakeTimerArmed' \in BOOLEAN
        /\ automatic' \in BOOLEAN /\ fallback' \in Targets \cup {"none"}
        /\ modemDisabled' \in BOOLEAN
    BY <1>t, <1>19, <2>1
       DEF BatteryBecameActive, DataTypeOK, WakeTypeOK
  <2> QED
    BY <2>1, <2>2, DataHandledType
<1>20. CASE OnDefaultStateChanged
  <2>1. /\ queue # << >> /\ Take(<< >>) /\ dataUnchanged
        /\ \E s \in States : Goto(s)
    BY <1>t, <1>20 DEF OnDefaultStateChanged, GDefaultState
  <2>2. /\ target' \in Targets /\ wakeSeconds' \in Nat /\ wakeTimerArmed' \in BOOLEAN
        /\ automatic' \in BOOLEAN /\ fallback' \in Targets \cup {"none"}
        /\ modemDisabled' \in BOOLEAN
    BY <1>t, <1>20, <2>1, HeadType
       DEF OnDefaultStateChanged, DataTypeOK, WakeTypeOK, ClearAutomaticLastDitch
  <2> QED
    BY <2>1, <2>2, DataHandledType
<1>21. CASE OnLastDitchDefaultStateChanged
  <2>1. /\ queue # << >> /\ Take(<< >>) /\ dataUnchanged
        /\ \E s \in States : Goto(s)
    BY <1>t, <1>21 DEF OnLastDitchDefaultStateChanged, GLastDitchFallback, FsmTypeOK
  <2>2. /\ target' \in Targets /\ wakeSeconds' \in Nat /\ wakeTimerArmed' \in BOOLEAN
        /\ automatic' \in BOOLEAN /\ fallback' \in Targets \cup {"none"}
        /\ modemDisabled' \in BOOLEAN
    BY <1>t, <1>21, <2>1, HeadType
       DEF OnLastDitchDefaultStateChanged, DataTypeOK, WakeTypeOK
  <2> QED
    BY <2>1, <2>2, DataHandledType
<1>22. CASE OnLastDitchTriggered
  <2>1. /\ queue # << >> /\ Take(<< >>) /\ dataUnchanged
        /\ \E s \in States : Goto(s)
    BY <1>t, <1>22 DEF OnLastDitchTriggered, GLastDitchTriggered
  <2>2. /\ target' \in Targets /\ wakeSeconds' \in Nat /\ wakeTimerArmed' \in BOOLEAN
        /\ automatic' \in BOOLEAN /\ fallback' \in Targets \cup {"none"}
        /\ modemDisabled' \in BOOLEAN
    BY <1>t, <1>22, <2>1
       DEF OnLastDitchTriggered, DataTypeOK, WakeTypeOK, BeginAutomaticLastDitch, Targets
  <2> QED
    BY <2>1, <2>2, DataHandledType
<1>23. CASE OnLastDitchWakeup
  <2>1. /\ queue # << >> /\ Take(<< >>) /\ dataUnchanged
        /\ \E s \in States : Goto(s)
    BY <1>t, <1>23 DEF OnLastDitchWakeup, GLastDitchWakeup
  <2>2. /\ target' \in Targets /\ wakeSeconds' \in Nat /\ wakeTimerArmed' \in BOOLEAN
        /\ automatic' \in BOOLEAN /\ fallback' \in Targets \cup {"none"}
        /\ modemDisabled' \in BOOLEAN
    BY <1>t, <1>23, <2>1
       DEF OnLastDitchWakeup, DataTypeOK, WakeTypeOK, BeginAutomaticLastDitch, Targets
  <2> QED
    BY <2>1, <2>2, DataHandledType
<1>24. CASE OnWakeup
  <2>1. /\ queue # << >> /\ Take(<< >>) /\ dataUnchanged
        /\ \E s \in States : Goto(s)
    BY <1>t, <1>24 DEF OnWakeup, GWakeup
  <2>2. /\ target' \in Targets /\ wakeSeconds' \in Nat /\ wakeTimerArmed' \in BOOLEAN
        /\ automatic' \in BOOLEAN /\ fallback' \in Targets \cup {"none"}
        /\ modemDisabled' \in BOOLEAN
    BY <1>t, <1>24, <2>1
       DEF OnWakeup, DataTypeOK, WakeTypeOK
  <2> QED
    BY <2>1, <2>2, DataHandledType
<1>25. CASE DropEvent
  <2>1. /\ queue # << >> /\ Take(<< >>) /\ phase = "idle"
        /\ UNCHANGED <<fsmState, phase, stateTimer, delayInhibitor, dataVars, wakeVars,
                      requestVars, quiesceVars, worldVars, hibernationTimer, late>>
    BY <1>25 DEF DropEvent
  <2>2. QueueTypeOK' /\ AcceptHasEvent'
    BY <1>t, <2>1, TakeType, SmallSeqs DEF AcceptHasEvent
  <2> QED
    BY <1>t, <2>1, <2>2, IdleType DEF FsmTypeOK
<1> QED
  BY <1>1, <1>2, <1>4, <1>5, <1>6, <1>7, <1>8, <1>9, <1>10, <1>11, <1>12, <1>13,
     <1>14, <1>15, <1>16, <1>17, <1>18, <1>19, <1>20, <1>21, <1>22, <1>23, <1>24,
     <1>25 DEF HandleEvent

\* An entry action leaves everything well typed if what it writes is.
LEMMA EntryType ==
    ASSUME TypeInv, stepUnchanged, phase' \in Phases \ {"accept"}, QueueTypeOK',
           delayInhibitor' \in {"held", "removing", "none"},
           requestID' \in Nat, wakeSeconds' \in Nat, modemDisabled' \in BOOLEAN,
           preparationTimer' \in Nat, WakeTypeOK',
           quiesceAcks' \in BOOLEAN, announced' \in BOOLEAN,
           power' \in {"on", "asleep", "off", "rebooting"},
           late' \in SUBSET (Watched \cup {"remote-access"}),
           UNCHANGED <<settingVars, liveVars, unseen, inputs, standbySeen>>
    PROVE  TypeInv'
<1>1. FsmTypeOK' /\ AcceptHasEvent' /\ RequestTypeOK'
  BY DEF TypeInv, TypeOK, FsmTypeOK, RequestTypeOK, AcceptHasEvent, stepUnchanged
<1>2. DataTypeOK'
  BY DEF TypeInv, TypeOK, DataTypeOK, stepUnchanged
<1>3. SettingTypeOK' /\ WorldTypeOK'
  BY DEF TypeInv, TypeOK, SettingTypeOK, WorldTypeOK, settingVars, liveVars
<1> QED
  BY <1>1, <1>2, <1>3 DEF TypeInv, TypeOK

\* A step of EnterIssuingLowPower that leaves the request and the wake timer be.
LEMMA IssuingType ==
    ASSUME TypeInv, issuingUnchanged, issuingDataUnchanged,
           phase' \in Phases \ {"accept"}, QueueTypeOK', modemDisabled' \in BOOLEAN,
           quiesceAcks' \in BOOLEAN, announced' \in BOOLEAN,
           power' \in {"on", "asleep", "off", "rebooting"}, late' \in {late, {}}
    PROVE  TypeInv'
<1>1. WakeTypeOK' /\ requestID' \in Nat /\ wakeSeconds' \in Nat /\ preparationTimer' \in Nat
  BY DEF TypeInv, TypeOK, DataTypeOK, RequestTypeOK, WakeTypeOK, issuingUnchanged,
         issuingDataUnchanged, wakeVars, nrfVars
<1>2. /\ delayInhibitor' \in {"held", "removing", "none"} /\ stepUnchanged
      /\ late' \in SUBSET (Watched \cup {"remote-access"})
      /\ UNCHANGED <<settingVars, liveVars, unseen, inputs, standbySeen>>
  BY DEF TypeInv, TypeOK, FsmTypeOK, WorldTypeOK, issuingUnchanged
<1> QED
  BY <1>1, <1>2, EntryType

\* What the entry actions send.
LEMMA EntryEvents ==
    ASSUME TypeInv
    PROVE  /\ \A e \in {Signal("last-ditch-disabled"), Signal("suspend-cancelled"),
                        Signal("inhibitors-changed"), Signal("late-blocking-inhibitor"),
                        Signal("wakeup"), Signal("wakeup-rtc"), PowerRun} :
                /\ e \in Events
                /\ queue' = Append(queue, e) => QueueTypeOK'
           /\ queue' = queue \/ CancelEntry \/ AbortSuspend => QueueTypeOK'
<1>1. \A e \in {Signal("last-ditch-disabled"), Signal("suspend-cancelled"),
                Signal("inhibitors-changed"), Signal("late-blocking-inhibitor"),
                Signal("wakeup"), Signal("wakeup-rtc"), PowerRun} : e \in Events
  BY SignalType, EventTypes DEF EventIds, PowerCommandIds, RecheckIds
<1>2. \A e \in Events : queue' = Append(queue, e) => QueueTypeOK'
  BY AppendKeepsHead DEF TypeInv, TypeOK, QueueTypeOK
<1>3. queue' = queue => QueueTypeOK'
  BY DEF TypeInv, TypeOK, QueueTypeOK
<1> QED
  BY <1>1, <1>2, <1>3 DEF CancelEntry, AbortSuspend

\* Entering a state, and every step of EnterIssuingLowPower, keeps the state
\* well typed.
LEMMA EnterStateType == TypeInv /\ EnterState => TypeInv'
<1> SUFFICES ASSUME TypeInv, EnterState PROVE TypeInv'
  OBVIOUS
<1>t. /\ FsmTypeOK /\ QueueTypeOK /\ DataTypeOK /\ WakeTypeOK /\ RequestTypeOK
      /\ WorldTypeOK
  BY DEF TypeInv, TypeOK
<1>p. {"idle", "wake-ack", "gate", "quiesce", "commit", "asleep", "prepare", "sleep",
       "final"} \subseteq Phases \ {"accept"}
  BY DEF Phases, CommittedPhases
<1>1. CASE EnterLowPowerImminent
  <2>1. /\ stepUnchanged /\ phase' = "idle" /\ queue' = queue
        /\ UNCHANGED <<delayInhibitor, requestID, wakeSeconds, modemDisabled,
                       preparationTimer, quiesceVars, late>>
        /\ UNCHANGED <<settingVars, liveVars, unseen, inputs, standbySeen, nrfVars, power>>
    BY <1>1 DEF EnterLowPowerImminent, worldVars
  <2>2. WakeTypeOK'
    <3>1. \/ /\ wakeTimerArmed' = FALSE /\ wakeTimerAcks' = {}
             /\ wakeTimerSeconds' = wakeSeconds /\ armRequest' = {wakeSeconds}
          \/ UNCHANGED wakeVars
      BY <1>1 DEF EnterLowPowerImminent, SetWakeTimer
    <3> QED
      BY <1>t, <2>1, <3>1 DEF DataTypeOK, WakeTypeOK, wakeVars, nrfVars
  <2> QED
    BY <1>t, <1>p, <2>1, <2>2, EntryEvents, EntryType
       DEF FsmTypeOK, DataTypeOK, RequestTypeOK, WorldTypeOK, quiesceVars
<1>2. CASE EnterWaitingInhibitors
  <2>1. /\ stepUnchanged /\ phase' = "idle"
        /\ UNCHANGED <<delayInhibitor, requestID, wakeSeconds, preparationTimer,
                       wakeVars, quiesceVars, late>>
        /\ UNCHANGED <<settingVars, liveVars, unseen, inputs, standbySeen, nrfVars, power>>
    BY <1>2 DEF EnterWaitingInhibitors, worldVars
  <2>2. QueueTypeOK' /\ modemDisabled' \in BOOLEAN
    BY <1>t, <1>2, EntryEvents DEF EnterWaitingInhibitors, DataTypeOK
  <2>3. WakeTypeOK'
    BY <1>t, <2>1 DEF WakeTypeOK, wakeVars, nrfVars
  <2> QED
    BY <1>t, <1>p, <2>1, <2>2, <2>3, EntryType
       DEF FsmTypeOK, DataTypeOK, RequestTypeOK, WorldTypeOK, quiesceVars
<1>3. CASE EnterIssuingLowPower
  <2>1. /\ issuingUnchanged /\ issuingDataUnchanged
        /\ UNCHANGED <<modemDisabled, quiesceVars, power, late>>
    BY <1>3 DEF EnterIssuingLowPower, issuingDataUnchanged
  <2>2. QueueTypeOK' /\ phase' \in Phases \ {"accept"}
    BY <1>3, <1>p, EntryEvents DEF EnterIssuingLowPower
  <2> QED
    BY <1>t, <2>1, <2>2, IssuingType DEF DataTypeOK, WorldTypeOK, quiesceVars
<1>4. CASE WakeTimerAcked
  <2>1. /\ issuingUnchanged /\ queue' = queue
        /\ UNCHANGED <<requestID, wakeSeconds, modemDisabled, preparationTimer,
                       wakeTimerSeconds, armRequest, quiesceVars, power, late>>
        /\ wakeTimerAcks' = {} /\ wakeTimerArmed' \in {TRUE, wakeTimerArmed}
        /\ phase' \in {"gate", phase} /\ phase = "wake-ack"
    BY <1>4 DEF WakeTimerAcked
  <2>2. WakeTypeOK'
    BY <1>t, <2>1 DEF WakeTypeOK, issuingUnchanged, nrfVars
  <2> QED
    BY <1>t, <1>p, <2>1, <2>2, EntryEvents, EntryType
       DEF issuingUnchanged, FsmTypeOK, DataTypeOK, RequestTypeOK, WorldTypeOK, quiesceVars
<1>5. CASE WakeTimerAckTimeout
  <2>1. /\ issuingUnchanged /\ QueueTypeOK' /\ phase' = "idle" /\ wakeSeconds' = 0
        /\ ForgetHibernateRequest
        /\ UNCHANGED <<modemDisabled, wakeTimerAcks, quiesceVars, power, late>>
    BY <1>5, EntryEvents DEF WakeTimerAckTimeout, ClearHibernateRequest
  <2>2. /\ requestID' = 0 /\ preparationTimer' = 0 /\ wakeTimerArmed' = FALSE
        /\ wakeTimerSeconds' \in Nat /\ armRequest' \in SUBSET Nat
    BY <2>1, ForgetType DEF TypeInv
  <2>3. WakeTypeOK'
    BY <1>t, <2>1, <2>2 DEF WakeTypeOK, issuingUnchanged, nrfVars
  <2> QED
    BY <1>t, <1>p, <2>1, <2>2, <2>3, EntryType
       DEF issuingUnchanged, FsmTypeOK, DataTypeOK, WorldTypeOK, quiesceVars
<1>6. CASE InhibitorGate
  <2>1. /\ issuingUnchanged /\ issuingDataUnchanged /\ UNCHANGED power
        /\ quiesceAcks' \in BOOLEAN /\ announced' \in BOOLEAN
    BY <1>t, <1>6 DEF InhibitorGate, WorldTypeOK, quiesceVars
  <2>2. /\ QueueTypeOK' /\ phase' \in Phases \ {"accept"} /\ late' \in {late, {}}
        /\ modemDisabled' \in BOOLEAN
    BY <1>t, <1>p, <1>6, EntryEvents DEF InhibitorGate, DataTypeOK, AbortSuspend
  <2> QED
    BY <1>t, <2>1, <2>2, IssuingType DEF WorldTypeOK
<1>7. CASE Quiesced \/ QuiesceTimeout \/ ClockPrepared \/ SuspendFails \/ Suspend
  <2>1. /\ issuingUnchanged /\ issuingDataUnchanged /\ late' = late
        /\ quiesceAcks' \in BOOLEAN /\ announced' \in BOOLEAN
        /\ power' \in {power, "asleep"}
    BY <1>t, <1>7
       DEF Quiesced, QuiesceTimeout, ClockPrepared, SuspendFails, Suspend, WorldTypeOK,
           quiesceVars
  <2>2. QueueTypeOK' /\ phase' \in Phases \ {"accept"} /\ modemDisabled' \in BOOLEAN
    BY <1>t, <1>p, <1>7, EntryEvents
       DEF Quiesced, QuiesceTimeout, ClockPrepared, SuspendFails, Suspend, DataTypeOK,
           AbortSuspend
  <2> QED
    BY <1>t, <2>1, <2>2, IssuingType DEF WorldTypeOK
<1>8. CASE CommitSuspend
  <2>1. /\ issuingUnchanged /\ issuingDataUnchanged /\ UNCHANGED <<quiesceVars, power>>
    BY <1>8 DEF CommitSuspend
  <2>2. /\ QueueTypeOK' /\ phase' \in Phases \ {"accept"} /\ late' \in {late, {}}
        /\ modemDisabled' \in BOOLEAN
    BY <1>t, <1>p, <1>8, EntryEvents DEF CommitSuspend, DataTypeOK, AbortSuspend
  <2> QED
    BY <1>t, <2>1, <2>2, IssuingType DEF WorldTypeOK, quiesceVars
<1>9. CASE HandleWakeupAfterSuspend
  <2>1. /\ stepUnchanged /\ phase' = "idle" /\ modemDisabled' = FALSE
        /\ delayInhibitor' = "held"
        /\ UNCHANGED <<requestID, wakeSeconds, preparationTimer, wakeVars, quiesceVars, late>>
        /\ UNCHANGED <<settingVars, liveVars, unseen, inputs, standbySeen, nrfVars, power>>
    BY <1>9 DEF HandleWakeupAfterSuspend, worldVars
  <2>2. QueueTypeOK'
    <3>1. PICK id \in WakeupIds :
            queue' = (IF delayInhibitor = "none"
                      THEN Append(queue, Signal("inhibitors-changed")) ELSE queue)
                     \o <<Signal(id)>>
      BY <1>9 DEF HandleWakeupAfterSuspend
    <3>2. <<Signal(id)>> \in Seq(Events)
      BY EntryEvents, SmallSeqs DEF WakeupIds
    <3>3. Append(queue, Signal("inhibitors-changed")) \in Seq(Events)
      BY <1>t, EntryEvents, AppendKeepsHead DEF QueueTypeOK
    <3> QED
      BY <1>t, <3>1, <3>2, <3>3, SendKeepsHead DEF QueueTypeOK
  <2>3. WakeTypeOK'
    BY <1>t, <2>1 DEF WakeTypeOK, wakeVars, nrfVars
  <2> QED
    BY <1>t, <1>p, <2>1, <2>2, <2>3, EntryType
       DEF FsmTypeOK, DataTypeOK, RequestTypeOK, WorldTypeOK, quiesceVars
<1>10. CASE IssueCommand \/ IssueCommandFails
  <2>1. /\ issuingUnchanged /\ issuingDataUnchanged /\ phase' = "idle"
        /\ UNCHANGED <<modemDisabled, quiesceVars, late>>
        /\ power' \in {power, "rebooting", "off"}
    BY <1>10 DEF IssueCommand, IssueCommandFails
  <2>2. QueueTypeOK'
    BY <1>10, EntryEvents DEF IssueCommand, IssueCommandFails
  <2> QED
    BY <1>t, <1>p, <2>1, <2>2, IssuingType DEF DataTypeOK, WorldTypeOK, quiesceVars
<1> QED
  BY <1>1, <1>2, <1>3, <1>4, <1>5, <1>6, <1>7, <1>8, <1>9, <1>10 DEF EnterState

\* The queue after a step of another goroutine: nothing is taken from it.
Sent == \/ queue' = queue
        \/ \E e \in Events : queue' = Append(queue, e)
        \/ \E s \in Seq(Events) : queue' = queue \o s

\* A step of another goroutine leaves the FSM goroutine where it is.
LEMMA EnvironmentType ==
    ASSUME TypeInv, Sent,
           UNCHANGED <<fsmState, phase, dataVars, hibernationTimer>>,
           stateTimer' \in BOOLEAN, delayInhibitor' \in {"held", "removing", "none"},
           WakeTypeOK', RequestTypeOK', SettingTypeOK', WorldTypeOK'
    PROVE  TypeInv'
<1>1. QueueTypeOK' /\ (queue # << >> => queue' # << >> /\ Head(queue') = Head(queue))
  BY SendKeepsHead, AppendKeepsHead DEF TypeInv, TypeOK, QueueTypeOK, Sent
<1>2. AcceptHasEvent'
  BY <1>1 DEF TypeInv, AcceptHasEvent, Ev
<1>3. FsmTypeOK' /\ DataTypeOK'
  BY DEF TypeInv, TypeOK, FsmTypeOK, DataTypeOK, dataVars
<1> QED
  BY <1>1, <1>2, <1>3 DEF TypeInv, TypeOK

\* The timers and watchers keep the state well typed.
LEMMA SendEventType == TypeInv /\ SendEvent => TypeInv'
<1> SUFFICES ASSUME TypeInv, SendEvent PROVE TypeInv'
  OBVIOUS
<1>t. /\ FsmTypeOK /\ QueueTypeOK /\ WakeTypeOK /\ RequestTypeOK /\ SettingTypeOK
      /\ WorldTypeOK
  BY DEF TypeInv, TypeOK
<1>o. SentOnly =>
        /\ UNCHANGED <<fsmState, phase, dataVars, hibernationTimer, quiesceVars,
                       liveVars, power, late>>
        /\ WakeTypeOK'
  BY <1>t DEF SentOnly, WakeTypeOK, wakeVars, nrfVars
<1>1. CASE StateTimeout
  <2>1. Sent
    BY <1>t, <1>1, EventTypes DEF StateTimeout, Sent, FsmTypeOK
  <2>2. /\ SentOnly /\ stateTimer' = FALSE
        /\ UNCHANGED <<delayInhibitor, requestVars, settingVars, unseen, inputs, standbySeen>>
    BY <1>1 DEF StateTimeout
  <2>3. RequestTypeOK' /\ SettingTypeOK' /\ WorldTypeOK'
    BY <1>t, <1>o, <2>1, <2>2
       DEF RequestTypeOK, SettingTypeOK, WorldTypeOK, requestVars, settingVars,
           liveVars, quiesceVars
  <2> QED
    BY <1>t, <1>o, <2>1, <2>2, <2>3, EnvironmentType DEF FsmTypeOK
<1>2. CASE PreparationTimeout
  <2>1. Sent
    BY <1>t, <1>2, EventTypes DEF PreparationTimeout, Sent, RequestTypeOK
  <2>2. /\ SentOnly /\ preparationTimer' = 0
        /\ UNCHANGED <<stateTimer, delayInhibitor, lastRequestID, settingVars, unseen,
                       inputs, standbySeen>>
    BY <1>2 DEF PreparationTimeout
  <2> QED
    BY <1>t, <1>o, <2>1, <2>2, EnvironmentType
       DEF FsmTypeOK, RequestTypeOK, SettingTypeOK, WorldTypeOK, settingVars, liveVars,
           quiesceVars
<1>3. CASE RemoveDelayInhibitor
  <2>1. Sent
    BY <1>3, SignalType DEF RemoveDelayInhibitor, Sent, EventIds, PowerCommandIds,
                            RecheckIds
  <2>2. /\ SentOnly /\ delayInhibitor' = "none"
        /\ UNCHANGED <<stateTimer, requestVars, settingVars, unseen, inputs, standbySeen>>
    BY <1>3 DEF RemoveDelayInhibitor
  <2> QED
    BY <1>t, <1>o, <2>1, <2>2, EnvironmentType
       DEF FsmTypeOK, RequestTypeOK, SettingTypeOK, WorldTypeOK, requestVars, settingVars,
           liveVars, quiesceVars
<1>4. CASE BootGraceExpires
  <2>1. Sent
    BY <1>4, SignalType, EventTypes, SmallSeqs, SendKeepsHead
       DEF BootGraceExpires, Sent, EventIds, PowerCommandIds, RecheckIds
  <2>2. /\ SentOnly /\ bootGrace' = FALSE
        /\ UNCHANGED <<stateTimer, delayInhibitor, requestVars, defaultState,
                       lastDitchEnabled, suspendWhenOnline, unseen, standbySeen>>
    BY <1>4 DEF BootGraceExpires
  <2>i. inputs' \in Nat
    BY <1>4, <1>t DEF BootGraceExpires, Input, WorldTypeOK
  <2>3. RequestTypeOK' /\ SettingTypeOK' /\ WorldTypeOK'
    BY <1>t, <1>o, <2>1, <2>2, <2>i
       DEF RequestTypeOK, SettingTypeOK, WorldTypeOK, requestVars, liveVars,
           quiesceVars
  <2> QED
    BY <1>t, <1>o, <2>1, <2>2, <2>3, EnvironmentType DEF FsmTypeOK
<1>5. CASE \E input \in Watched : Notify(input)
  <2>1. PICK input \in Watched : Notify(input)
    BY <1>5
  <2>2. Sent
    <3>1. /\ <<Signal("inhibitors-changed")>> \in Seq(Events)
          /\ <<VehicleStateChanged(liveVehicle)>> \in Seq(Events)
          /\ BatteryEvents \in Seq(Events) /\ << >> \in Seq(Events)
      BY <1>t, SignalType, EventTypes, SmallSeqs
         DEF BatteryEvents, WorldTypeOK, EventIds, PowerCommandIds, RecheckIds
    <3>2. \A s \in Seq(Events) : s \o LastDitchCheck(standbySeen') \in Seq(Events)
      BY LastDitchCheckType, SendKeepsHead
    <3> QED
      BY <2>1, <3>1, <3>2 DEF Notify, Sent
  <2>3. /\ SentOnly /\ unseen' = unseen \ {input}
        /\ standbySeen' = IF input = "vehicle" THEN liveVehicle = "stand-by"
                          ELSE standbySeen
        /\ UNCHANGED <<stateTimer, delayInhibitor, requestVars, settingVars, inputs>>
    BY <2>1 DEF Notify
  <2>4. standbySeen' \in BOOLEAN
    BY <1>t, <2>3 DEF WorldTypeOK
  <2> QED
    BY <1>t, <1>o, <2>2, <2>3, <2>4, EnvironmentType
       DEF FsmTypeOK, RequestTypeOK, SettingTypeOK, WorldTypeOK, requestVars, settingVars,
           liveVars, quiesceVars
<1> QED
  BY <1>1, <1>2, <1>3, <1>4, <1>5 DEF SendEvent

\* So do bluetooth-service and the nRF52.
LEMMA NrfType == TypeInv /\ Nrf => TypeInv'
<1> SUFFICES ASSUME TypeInv, Nrf PROVE TypeInv'
  OBVIOUS
<1>1. /\ Sent /\ nrfUnchanged
  BY DEF Nrf, NrfApplies, EchoArrives, SuspendingConfirmed, nrfUnchanged, Sent, fsmVars
<1>2. WakeTypeOK'
  BY DEF Nrf, NrfApplies, EchoArrives, SuspendingConfirmed, nrfUnchanged, TypeInv, TypeOK,
         WakeTypeOK, nrfVars
<1>3. quiesceAcks' \in BOOLEAN /\ announced' \in BOOLEAN
  BY DEF Nrf, NrfApplies, EchoArrives, SuspendingConfirmed, TypeInv, TypeOK, WorldTypeOK,
         quiesceVars
<1>4. RequestTypeOK' /\ SettingTypeOK' /\ WorldTypeOK'
  BY <1>1, <1>3 DEF nrfUnchanged, TypeInv, TypeOK, RequestTypeOK, SettingTypeOK, WorldTypeOK,
                    requestVars, settingVars, liveVars
<1> QED
  BY <1>1, <1>2, <1>4, EnvironmentType
     DEF nrfUnchanged, fsmVars, TypeInv, TypeOK, FsmTypeOK

\* So does the resume from suspend-to-RAM.
LEMMA ResumeType == TypeInv /\ Resume => TypeInv'
<1> SUFFICES ASSUME TypeInv, Resume PROVE TypeInv'
  OBVIOUS
<1>1. FsmTypeOK' /\ QueueTypeOK' /\ AcceptHasEvent'
  BY DEF Resume, stepUnchanged, TypeInv, TypeOK, FsmTypeOK, QueueTypeOK, AcceptHasEvent,
         Phases
<1>2. DataTypeOK' /\ RequestTypeOK' /\ SettingTypeOK'
  BY DEF Resume, stepUnchanged, TypeInv, TypeOK, DataTypeOK, RequestTypeOK, SettingTypeOK,
         settingVars
<1>3. WakeTypeOK'
  BY DEF Resume, TypeInv, TypeOK, WakeTypeOK, wakeVars, nrfVars
<1>4. WorldTypeOK'
  BY DEF Resume, TypeInv, TypeOK, WorldTypeOK, quiesceVars
<1> QED
  BY <1>1, <1>2, <1>3, <1>4 DEF TypeInv, TypeOK

\* So do the inputs: vehicle, batteries, inhibitors, users and settings.
LEMMA WorldStepType == TypeInv /\ World => TypeInv'
<1> SUFFICES ASSUME TypeInv, World PROVE TypeInv'
  OBVIOUS
<1>t. /\ FsmTypeOK /\ QueueTypeOK /\ WakeTypeOK /\ RequestTypeOK /\ SettingTypeOK
      /\ WorldTypeOK
  BY DEF TypeInv, TypeOK
<1>v. Vehicles \subseteq VehicleStates /\ Batteries \subseteq BatterySituations
      /\ Inhibitors \subseteq InhibitorKinds /\ Durations \subseteq Nat
  BY ConstantsAssumption
\* Inputs that change the live state send nothing themselves.
<1>l. ASSUME liveUnchanged, Input,
             liveVehicle' \in VehicleStates, liveBattery' \in BatterySituations,
             reserveLow' \in BOOLEAN, remoteAccess' \in BOOLEAN,
             inhibitors' \in SUBSET InhibitorKinds, UNCHANGED power,
             NEW x \in Watched \cup {"remote-access"}, Touch(x)
      PROVE  TypeInv'
  <2>1. Sent /\ UNCHANGED <<fsmState, phase, dataVars, hibernationTimer, stateTimer,
                            delayInhibitor>>
    BY <1>l DEF liveUnchanged, fsmVars, Sent
  <2>2. WakeTypeOK' /\ RequestTypeOK' /\ SettingTypeOK'
    BY <1>l, <1>t DEF liveUnchanged, wakeVars, requestVars, settingVars, nrfVars,
                      WakeTypeOK, RequestTypeOK, SettingTypeOK
  <2>3. inputs' \in Nat
    BY <1>l, <1>t DEF Input, WorldTypeOK
  <2>4. unseen' \in SUBSET Watched /\ late' \in SUBSET (Watched \cup {"remote-access"})
    BY <1>l, <1>t DEF Touch, WorldTypeOK
  <2>5. WorldTypeOK'
    BY <1>l, <1>t, <2>3, <2>4 DEF liveUnchanged, quiesceVars, WorldTypeOK
  <2> QED
    BY <1>t, <2>1, <2>2, <2>5, EnvironmentType DEF FsmTypeOK
\* The others send events and may change a setting or the wake timer.
<1>q. ASSUME sendUnchanged, Input, Sent, SettingTypeOK',
             wakeTimerSeconds' \in Nat, armRequest' \in SUBSET Nat
      PROVE  TypeInv'
  <2>1. UNCHANGED <<fsmState, phase, dataVars, hibernationTimer, stateTimer,
                    delayInhibitor>>
    BY <1>q DEF sendUnchanged
  <2>2. WakeTypeOK' /\ RequestTypeOK'
    BY <1>q, <1>t DEF sendUnchanged, requestVars, nrfVars, WakeTypeOK, RequestTypeOK
  <2>3. inputs' \in Nat
    BY <1>q, <1>t DEF Input, WorldTypeOK
  <2>4. WorldTypeOK'
    BY <1>q, <1>t, <2>3 DEF sendUnchanged, liveVars, quiesceVars, WorldTypeOK
  <2> QED
    BY <1>q, <1>t, <2>1, <2>2, <2>4, EnvironmentType DEF FsmTypeOK
<1>1. CASE \E v \in Vehicles : VehicleMoves(v)
  BY <1>1, <1>l, <1>t, <1>v DEF VehicleMoves, WorldTypeOK, Watched
<1>2. CASE \E b \in Batteries : BatteryChanges(b)
  BY <1>2, <1>l, <1>t, <1>v DEF BatteryChanges, WorldTypeOK, Watched
<1>3. CASE ReserveChanges
  BY <1>3, <1>l, <1>t DEF ReserveChanges, WorldTypeOK, Watched
<1>4. CASE RemoteAccessChanges
  BY <1>4, <1>l, <1>t DEF RemoteAccessChanges, WorldTypeOK, Watched
<1>5. CASE \E i \in Inhibitors : InhibitorToggles(i)
  BY <1>5, <1>l, <1>t, <1>v DEF InhibitorToggles, WorldTypeOK, Watched
<1>6. CASE \E c \in CommandNames : PowerCommandReceived(c)
  <2>1. PICK c \in CommandNames : PowerCommandReceived(c)
    BY <1>6
  <2>2. Sent
    <3>1. /\ Command("power-suspend", "suspend", 0) \in Events
          /\ Command("explicit-hibernate", "hibernate-manual", 0) \in Events
          /\ Command("power-hibernate", "hibernate", 0) \in Events
          /\ Command("power-hibernate-timer", "hibernate-timer", 0) \in Events
          /\ Command("power-reboot", "reboot", 0) \in Events
      BY CommandType
    <3>2. \A d \in Durations \ {0} :
            Command("explicit-hibernate", "hibernate-for", d) \in Events
      BY <1>v, CommandType
    <3> QED
      BY <2>1, <3>1, <3>2, EventTypes DEF PowerCommandReceived, Send, Sent
  <2>3. /\ sendUnchanged /\ Input
        /\ UNCHANGED <<settingVars, wakeTimerSeconds, armRequest>>
    BY <2>1 DEF PowerCommandReceived
  <2> QED
    BY <1>q, <1>t, <2>2, <2>3 DEF settingVars, SettingTypeOK, WakeTypeOK
<1>7. CASE HibernateCancelReceived
  <2>1. Sent /\ sendUnchanged /\ Input /\ UNCHANGED settingVars /\ SetWakeTimer(0)
    BY <1>7, EventTypes DEF HibernateCancelReceived, Send, Sent
  <2>2. wakeTimerSeconds' \in Nat /\ armRequest' \in SUBSET Nat
    BY <2>1 DEF SetWakeTimer
  <2> QED
    BY <1>q, <1>t, <2>1, <2>2 DEF settingVars, SettingTypeOK
<1>8. CASE ScheduledHibernate
  <2>1. \A d \in Durations \ {0} :
          Command("power-hibernate-for", "hibernate-for", d) \in Events
    BY <1>v, CommandType
  <2>2. /\ Sent /\ sendUnchanged /\ Input
        /\ UNCHANGED <<settingVars, wakeTimerSeconds, armRequest>>
    BY <1>8, <2>1 DEF ScheduledHibernate, Send, Sent
  <2> QED
    BY <1>q, <1>t, <2>2 DEF settingVars, SettingTypeOK, WakeTypeOK
<1>9. CASE HibernationTimerExpires
  <2>1. /\ Sent /\ sendUnchanged /\ Input
        /\ UNCHANGED <<settingVars, wakeTimerSeconds, armRequest>>
    BY <1>9, CommandType DEF HibernationTimerExpires, Send, Sent
  <2> QED
    BY <1>q, <1>t, <2>1 DEF settingVars, SettingTypeOK, WakeTypeOK
<1>10. CASE VehicleRejectsPreparation
  <2>1. /\ Sent /\ sendUnchanged /\ Input
        /\ UNCHANGED <<settingVars, wakeTimerSeconds, armRequest>>
    BY <1>10, <1>t, EventTypes DEF VehicleRejectsPreparation, Send, Sent, RequestTypeOK
  <2> QED
    BY <1>q, <1>t, <2>1 DEF settingVars, SettingTypeOK, WakeTypeOK
<1>11. CASE \E d \in DefaultStates : DefaultStateSet(d)
  <2>1. PICK d \in DefaultStates : DefaultStateSet(d)
    BY <1>11
  <2>2. d # "run" => Command("default-state-changed", d, 0) \in Events
    BY <1>t, <2>1, DefaultStatesAssumption
       DEF DefaultStateSet, SettingTypeOK, Command, Events, WellFormed, EventIds,
           PowerCommandIds, VehicleStates, ValidDefaultStates
  <2>3. <<PowerRun>> \in Seq(Events)
    BY EventTypes, SmallSeqs
  <2>4. d # "run" => <<Command("default-state-changed", d, 0),
                       VehicleStateChanged(liveVehicle)>> \in Seq(Events)
    BY <1>t, <2>2, EventTypes, SmallSeqs DEF WorldTypeOK
  <2>5. Sent
    BY <2>1, <2>3, <2>4 DEF DefaultStateSet, Sent
  <2>6. /\ sendUnchanged /\ Input /\ defaultState' = d
        /\ UNCHANGED <<lastDitchEnabled, suspendWhenOnline, bootGrace, wakeTimerSeconds,
                       armRequest>>
    BY <2>1 DEF DefaultStateSet
  <2> QED
    BY <1>q, <1>t, <2>5, <2>6 DEF SettingTypeOK, WakeTypeOK
<1>12. CASE LastDitchSet
  <2>1. Sent
    BY <1>12, SignalType, EventTypes, SmallSeqs, SendKeepsHead
       DEF LastDitchSet, Sent, EventIds, PowerCommandIds, RecheckIds
  <2>2. /\ sendUnchanged /\ Input /\ lastDitchEnabled' = ~lastDitchEnabled
        /\ UNCHANGED <<defaultState, suspendWhenOnline, bootGrace, wakeTimerSeconds,
                       armRequest>>
    BY <1>12 DEF LastDitchSet
  <2> QED
    BY <1>q, <1>t, <2>1, <2>2 DEF SettingTypeOK, WakeTypeOK
<1>13. CASE SuspendWhenOnlineSet
  <2>1. Sent
    BY <1>13, SignalType
       DEF SuspendWhenOnlineSet, Send, Sent, EventIds, PowerCommandIds, RecheckIds
  <2>2. /\ sendUnchanged /\ Input /\ suspendWhenOnline' = ~suspendWhenOnline
        /\ UNCHANGED <<defaultState, lastDitchEnabled, bootGrace, wakeTimerSeconds,
                       armRequest>>
    BY <1>13 DEF SuspendWhenOnlineSet
  <2> QED
    BY <1>q, <1>t, <2>1, <2>2 DEF SettingTypeOK, WakeTypeOK
<1> QED
  BY <1>1, <1>2, <1>3, <1>4, <1>5, <1>6, <1>7, <1>8, <1>9, <1>10, <1>11, <1>12, <1>13
     DEF World

\* Every step keeps the state well typed.
LEMMA TypeStep == TypeInv /\ [Next]_vars => TypeInv'
<1> SUFFICES ASSUME TypeInv, [Next]_vars PROVE TypeInv'
  OBVIOUS
<1>1. CASE UNCHANGED vars
  <2>1. UNCHANGED <<fsmVars, dataVars, wakeVars, requestVars, quiesceVars, worldVars,
                    hibernationTimer, late>>
    BY <1>1 DEF vars
  <2>2. UNCHANGED <<fsmState, phase, stateTimer, queue, delayInhibitor>>
    BY <2>1 DEF fsmVars
  <2>3. QueueTypeOK' /\ AcceptHasEvent' /\ phase' \in Phases
    BY <2>2 DEF TypeInv, TypeOK, FsmTypeOK, QueueTypeOK, AcceptHasEvent, Ev
  <2> QED
    BY <2>1, <2>2, <2>3, IdleType
<1> QED
  BY <1>1, HandleEventType, EnterStateType, SendEventType, NrfType, ResumeType,
     WorldStepType DEF Next

\* The inductive form of type correctness: the phase between guard and action
\* of an explicit request needs its event at the head of the queue.
LEMMA TypeInvariant == Spec => []TypeInv
<1>1. TypeInv /\ [Next]_vars => TypeInv'
  BY TypeStep
<1> QED
  BY <1>1, InitType, PTL DEF Spec

\* The state is always well typed, and every queued event carries the payload
\* its handlers (service.go, OnPowerCommand and the guards) rely on.
THEOREM TypeCorrect == Spec => []TypeOK
<1>1. TypeInv => TypeOK
  BY DEF TypeInv
<1> QED
  BY <1>1, TypeInvariant, PTL

-----------------------------------------------------------------------------
(* What the other goroutines and the entry actions leave alone.            *)

\* The other goroutines and the world write neither fsmData nor the FSM's state;
\* the wake timer they may only disarm (hibernate-cancel).
LEMMA EnvironmentFrame ==
    ASSUME SendEvent \/ Nrf \/ World
    PROVE  /\ UNCHANGED <<fsmState, phase, dataVars, wakeTimerArmed>>
           /\ wakeTimerSeconds' \in {wakeTimerSeconds, 0}
<1>1. CASE SendEvent
  BY <1>1 DEF SendEvent, StateTimeout, PreparationTimeout, RemoveDelayInhibitor,
              BootGraceExpires, Notify, SentOnly, wakeVars
<1>2. CASE Nrf
  BY <1>2 DEF Nrf, NrfApplies, EchoArrives, SuspendingConfirmed, nrfUnchanged, fsmVars
<1>3. CASE World
  <2>1. liveUnchanged => /\ UNCHANGED <<fsmState, phase, dataVars, wakeTimerArmed>>
                         /\ wakeTimerSeconds' = wakeTimerSeconds
    BY DEF liveUnchanged, fsmVars, wakeVars
  <2>2. sendUnchanged => UNCHANGED <<fsmState, phase, dataVars, wakeTimerArmed>>
    BY DEF sendUnchanged
  <2>3. \/ liveUnchanged
        \/ sendUnchanged /\ wakeTimerSeconds' \in {wakeTimerSeconds, 0}
    BY <1>3 DEF World, VehicleMoves, BatteryChanges, ReserveChanges, RemoteAccessChanges,
                InhibitorToggles, PowerCommandReceived, HibernateCancelReceived,
                ScheduledHibernate, HibernationTimerExpires, VehicleRejectsPreparation,
                DefaultStateSet, LastDitchSet, SuspendWhenOnlineSet, SetWakeTimer
  <2> QED
    BY <2>1, <2>2, <2>3
<1> QED
  BY <1>1, <1>2, <1>3

\* Entry actions write neither the state nor target, vehicle and provenance.
LEMMA EntryFrame ==
    ASSUME EnterState \/ Resume
    PROVE  stepUnchanged
BY DEF EnterState, Resume, EnterLowPowerImminent, EnterWaitingInhibitors,
       EnterIssuingLowPower, WakeTimerAcked, WakeTimerAckTimeout, InhibitorGate, Quiesced,
       QuiesceTimeout, CommitSuspend, ClockPrepared, SuspendFails, Suspend,
       HandleWakeupAfterSuspend, IssueCommand, IssueCommandFails, issuingUnchanged

-----------------------------------------------------------------------------
(* The provenance of automatic transitions.                                *)

\* Every edge of definition.go keeps the provenance, or ends it.
LEMMA ProvenanceOfHandler ==
    TypeInv /\ AutomaticProvenance /\ HandleEvent => AutomaticProvenance'
<1> SUFFICES ASSUME TypeInv, AutomaticProvenance, HandleEvent
             PROVE  AutomaticProvenance'
  OBVIOUS
<1>t. DataTypeOK
  BY DEF TypeInv, TypeOK
\* Handlers that end the automatic transition.
<1>d. automatic' = FALSE => AutomaticProvenance'
  BY DEF AutomaticProvenance
\* Handlers that move on along the hibernate path.
<1>k. ASSUME UNCHANGED <<target, automatic, fallback>>,
             fsmState' = "running" \/ fsmState' \in EntryStates \/ ~automatic,
             fsmState # "running"
      PROVE  AutomaticProvenance'
  BY <1>k DEF AutomaticProvenance
<1>1. CASE LowPowerCancelled
  <2>1. automatic' = FALSE
    <3>1. CASE automatic
      BY <1>1, <3>1 DEF LowPowerCancelled, OnLowPowerCancelled, OnLastDitchDisabled,
                        ClearAutomaticLastDitch
    <3>2. CASE automatic = FALSE
      BY <1>1, <3>2 DEF LowPowerCancelled, OnLowPowerCancelled
    <3> QED
      BY <1>t, <3>1, <3>2 DEF DataTypeOK
  <2> QED
    BY <1>d, <2>1
<1>2. CASE LastDitchCancelled
  BY <1>d, <1>2 DEF LastDitchCancelled, OnLastDitchDisabled, ClearAutomaticLastDitch
<1>3. CASE RunCommanded \/ EnterOnCommand \/ StoreCommand
  BY <1>d, <1>3 DEF RunCommanded, EnterOnCommand, StoreCommand, OnPowerCommand,
                    StorePowerCommand, ClearAutomaticLastDitch
<1>4. CASE RecordExplicitHibernate \/ OnVehicleLeftLowPowerState \/ OnDefaultStateChanged
  BY <1>d, <1>4 DEF RecordExplicitHibernate, OnVehicleLeftLowPowerState,
                    OnDefaultStateChanged, ClearAutomaticLastDitch
<1>5. CASE PreSuspendElapsed
  <2>1. fsmState = "pre-suspend" /\ UNCHANGED <<target, automatic, fallback>>
    BY <1>5 DEF PreSuspendElapsed, GPreSuspendElapsed, On, AdvanceTo, advanceUnchanged
  <2> QED
    BY <1>k, <2>1 DEF AutomaticProvenance, EntryStates
<1>6. CASE ImminentElapsed \/ InhibitorsGone \/ ModemWaitElapsed \/ LateInhibitor
           \/ OnlyModemLeft
  <2>1. /\ fsmState # "running" /\ fsmState' \in EntryStates
        /\ UNCHANGED <<target, automatic, fallback>>
    BY <1>6 DEF ImminentElapsed, InhibitorsGone, ModemWaitElapsed, LateInhibitor,
                OnlyModemLeft, GImminentElapsed, GInhibitorsGone, GModemWaitElapsed,
                GLateInhibitor, GOnlyModemLeft, On, AdvanceTo, advanceUnchanged, Goto,
                EntryStates
  <2> QED
    BY <1>k, <2>1
<1>7. CASE AcceptExplicitHibernate \/ DropEvent
  BY <1>7 DEF AcceptExplicitHibernate, DropEvent, dataVars, AutomaticProvenance
<1>8. CASE RejectExplicitHibernate \/ OnHibernatePreparationFailed
  BY <1>8 DEF RejectExplicitHibernate, OnHibernatePreparationFailed, Goto,
              AutomaticProvenance
<1>9. CASE VehicleChangedInRunning
  <2>1. CASE IntentDropped(Ev.vehicle)
    BY <1>9, <1>d, <2>1 DEF VehicleChangedInRunning, OnVehicleStateChanged
  <2>2. CASE ~IntentDropped(Ev.vehicle)
    <3>1. /\ target' = IF RequestInterrupted(Ev.vehicle) THEN "run" ELSE target
          /\ fallback' = fallback /\ fsmState' = Destination(Ev.vehicle, "pre-suspend")
      BY <1>9, <2>2 DEF VehicleChangedInRunning, OnVehicleStateChanged, Goto
    <3>2. automatic' => automatic
      BY <1>9, <2>2 DEF VehicleChangedInRunning, OnVehicleStateChanged
    <3>3. ~RequestInterrupted(Ev.vehicle) /\ automatic =>
             /\ target \in {"run", "hibernate"}
             /\ \/ fsmState' = "running"
                \/ target = "hibernate" /\ fsmState' = "low-power-imminent"
      BY <3>1 DEF AutomaticProvenance, Destination, CanEnterLowPowerState
    <3>4. RequestInterrupted(Ev.vehicle) => fsmState' = "running" \/ ~automatic \/ target = "hibernate"
      BY <3>1 DEF AutomaticProvenance, Destination, CanEnterLowPowerState
    <3>5. RequestInterrupted(Ev.vehicle) /\ target \in {"run", "hibernate"} => fsmState' = "running"
      BY <3>1 DEF RequestInterrupted, Destination, CanEnterLowPowerState
    <3> QED
      BY <3>1, <3>2, <3>3, <3>4, <3>5 DEF AutomaticProvenance, EntryStates
  <2> QED
    BY <2>1, <2>2
<1>10. CASE BatteryBecameInactive
  <2>1. /\ UNCHANGED <<target, automatic, fallback>>
        /\ target # "suspend" => fsmState' = "running"
    BY <1>10 DEF BatteryBecameInactive, Goto
  <2> QED
    BY <2>1 DEF AutomaticProvenance
<1>11. CASE BatteryBecameActive
  <2>1. UNCHANGED <<target, automatic, fallback>> /\ fsmState' = "running"
    BY <1>11 DEF BatteryBecameActive, Goto
  <2> QED
    BY <2>1 DEF AutomaticProvenance
<1>12. CASE OnLastDitchDefaultStateChanged
  <2>1. queue # << >>
    BY <1>12 DEF OnLastDitchDefaultStateChanged, GLastDitchFallback, On
  <2>2. /\ UNCHANGED <<target, automatic>> /\ fsmState' = fsmState
        /\ fallback' = Ev.target /\ Ev.target \in Targets
    BY <1>12, <2>1, HeadType DEF OnLastDitchDefaultStateChanged, Goto
  <2> QED
    BY <2>2 DEF AutomaticProvenance, Targets
<1>13. CASE OnLastDitchTriggered \/ OnLastDitchWakeup
  <2>1. BeginAutomaticLastDitch /\ fsmState' = "low-power-imminent"
    BY <1>13 DEF OnLastDitchTriggered, OnLastDitchWakeup, Goto
  <2>2. fallback' # "none"
    BY <1>t, <2>1 DEF BeginAutomaticLastDitch, AutomaticProvenance, DataTypeOK, Targets
  <2> QED
    BY <2>1, <2>2 DEF BeginAutomaticLastDitch, AutomaticProvenance, EntryStates
<1>14. CASE OnWakeup
  <2>1. /\ fsmState = "issuing-low-power" /\ UNCHANGED <<target, automatic, fallback>>
        /\ \E x : fsmState' = Destination(vehicle, x)
    BY <1>14 DEF OnWakeup, GWakeup, On, Goto
  <2>2. automatic => fsmState' \in {"running", "low-power-imminent"}
    BY <2>1 DEF AutomaticProvenance, Destination
  <2> QED
    BY <1>k, <2>1, <2>2 DEF EntryStates
<1> QED
  BY <1>1, <1>2, <1>3, <1>4, <1>5, <1>6, <1>7, <1>8, <1>9, <1>10, <1>11, <1>12, <1>13,
     <1>14 DEF HandleEvent

\* A transition marked as automatic is the last-ditch hibernation and nothing
\* else (types.go, FSMData.AutomaticLastDitch): whatever replaces the target,
\* in whatever order events arrive, clears the mark or leaves it on "run".
THEOREM AutomaticProvenanceHolds == Spec => []AutomaticProvenance
<1>1. Init => AutomaticProvenance
  BY DEF Init, AutomaticProvenance
<1>2. TypeInv /\ AutomaticProvenance /\ [Next]_vars => AutomaticProvenance'
  <2> SUFFICES ASSUME TypeInv, AutomaticProvenance, [Next]_vars
               PROVE  AutomaticProvenance'
    OBVIOUS
  <2>1. CASE SendEvent \/ Nrf \/ World
    BY <2>1, EnvironmentFrame DEF dataVars, AutomaticProvenance
  <2>2. CASE EnterState \/ Resume
    BY <2>2, EntryFrame DEF stepUnchanged, AutomaticProvenance
  <2>3. CASE UNCHANGED vars
    BY <2>3 DEF vars, fsmVars, dataVars, AutomaticProvenance
  <2> QED
    BY <2>1, <2>2, <2>3, ProvenanceOfHandler DEF Next
<1> QED
  BY <1>1, <1>2, TypeInvariant, PTL DEF Spec
=============================================================================
