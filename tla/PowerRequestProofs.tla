-------------------------- MODULE PowerRequestProofs --------------------------
(***************************************************************************)
(* What depends on the events that are on their way to the power FSM: no   *)
(* accepted request is left waiting for nothing, and a poweroff that       *)
(* nobody asked for is the last-ditch one.  Both rest on what may be in    *)
(* the queue, and on nothing being lost from it but the event handled.     *)
(* And what every way back to running does about the modem.                *)
(***************************************************************************)
EXTENDS PowerSafetyProofs

-----------------------------------------------------------------------------
(* What is sent, and what stays in the queue.                              *)

\* The events this instance sends: power-hibernate (onPowerCommand, service.go)
\* only where somebody gives the command for it.
Sendable == {e \in Events : e.id = "power-hibernate" => "hibernate-auto" \in Commands}

\* The queue grew by events that are sent.
Grows == \E s \in Seq(Sendable) : queue' = queue \o s

\* Sequences of events that are sent: concatenation, and the short ones.
LEMMA SentSeqs ==
    /\ << >> \in Seq(Sendable)
    /\ \A e \in Sendable : <<e>> \in Seq(Sendable)
    /\ \A e, f \in Sendable : <<e, f>> \in Seq(Sendable)
    /\ \A s, t \in Seq(Sendable) : s \o t \in Seq(Sendable)
    /\ \A s \in Seq(Sendable) : s \in Seq(Events)
<1>1. Sendable \subseteq Events
  BY DEF Sendable
<1> HIDE DEF Sendable
<1> QED
  BY <1>1

\* Ways for the queue to grow: not at all, by one event, and by several.
LEMMA Growth ==
    ASSUME TypeInv
    PROVE  /\ queue' = queue => Grows
           /\ \A e \in Sendable : queue' = Append(queue, e) => Grows
           /\ \A s \in Seq(Sendable) : queue' = queue \o s => Grows
<1>q. queue \in Seq(Events)
  BY DEF TypeInv, TypeOK, QueueTypeOK
<1>1. queue \o << >> = queue
  BY <1>q
<1>2. ASSUME NEW e \in Sendable PROVE Append(queue, e) = queue \o <<e>>
  BY <1>q
<1> QED
  BY <1>1, <1>2, SentSeqs DEF Grows

\* An event stays in the queue until it is the one handled.
LEMMA Waits ==
    ASSUME TypeInv, NEW e, InQueue(e)
    PROVE  /\ Grows => InQueue(e)'
           /\ \A s \in Seq(Sendable) :
                queue # << >> /\ e # Ev /\ Take(s) => InQueue(e)'
<1>q. queue \in Seq(Events)
  BY DEF TypeInv, TypeOK, QueueTypeOK
<1>1. PICK i \in DOMAIN queue : queue[i] = e
  BY DEF InQueue
<1>2. ASSUME NEW s \in Seq(Sendable), queue' = queue \o s PROVE InQueue(e)'
  <2>1. s \in Seq(Events)
    BY SentSeqs
  <2>2. i \in DOMAIN queue' /\ queue'[i] = e
    BY <1>q, <1>1, <1>2, <2>1
  <2> QED
    BY <2>2 DEF InQueue
<1>3. ASSUME NEW s \in Seq(Sendable), queue # << >>, e # Ev, Take(s) PROVE InQueue(e)'
  <2>1. s \in Seq(Events)
    BY SentSeqs
  <2>2. i # 1
    BY <1>q, <1>1, <1>3 DEF Ev
  <2>3. i - 1 \in DOMAIN (Tail(queue) \o s) /\ (Tail(queue) \o s)[i - 1] = e
    BY <1>q, <1>1, <1>3, <2>1, <2>2
  <2> QED
    BY <1>3, <2>3 DEF InQueue, Take
<1> QED
  BY <1>2, <1>3 DEF Grows

\* What the handlers, timers and watchers send besides commands.
LEMMA SignalsSent ==
    /\ \A id \in EventIds \ (PowerCommandIds \cup
                               {"explicit-hibernate", "default-state-changed"}) :
          Signal(id) \in Sendable
    /\ PowerRun \in Sendable
    /\ \A v \in VehicleStates : VehicleStateChanged(v) \in Sendable
    /\ \A r \in Nat : PreparationFailed(r) \in Sendable
    /\ \A s \in States : TimeoutEvent(s) \in Sendable
    /\ Command("last-ditch-check", "hibernate", 0) \in Sendable
<1>1. /\ \A id : Signal(id).id = id
      /\ "power-hibernate" \in PowerCommandIds
  BY DEF Signal, PowerCommandIds
<1>2. /\ PowerRun.id # "power-hibernate"
      /\ \A v : VehicleStateChanged(v).id # "power-hibernate"
      /\ \A r : PreparationFailed(r).id # "power-hibernate"
      /\ \A s : TimeoutEvent(s).id # "power-hibernate"
      /\ Command("last-ditch-check", "hibernate", 0).id # "power-hibernate"
  BY <1>1 DEF PowerRun, VehicleStateChanged, PreparationFailed, TimeoutEvent, Command
<1> QED
  BY <1>1, <1>2, SignalType, EventTypes DEF Sendable

\* The same for what sendLastDitchCheck and the battery watchers send.
LEMMA ChecksSent ==
    (\A b : LastDitchCheck(b) \in Seq(Sendable)) /\ BatteryEvents \in Seq(Sendable)
BY SignalsSent, SentSeqs DEF LastDitchCheck, BatteryEvents, EventIds, PowerCommandIds,
                             RecheckIds

\* A handler takes the event at the head of the queue and may send others; the
\* guard of an explicit request leaves the event where it is.
LEMMA HandlerTakes ==
    ASSUME TypeInv, HandleEvent
    PROVE  \/ AcceptExplicitHibernate
           \/ queue # << >> /\ \E s \in Seq(Sendable) : Take(s)
<1>1. << >> \in Seq(Sendable)
  BY SentSeqs
<1>2. liveVehicle \in VehicleStates
  BY DEF TypeInv, TypeOK, WorldTypeOK
<1>3. /\ <<VehicleStateChanged(liveVehicle)>> \in Seq(Sendable)
      /\ <<VehicleStateChanged("stand-by")>> \in Seq(Sendable)
  BY <1>2, SignalsSent, SentSeqs DEF VehicleStates
<1>4. OnLastDitchDisabled \/ OnLowPowerCancelled => \E s \in Seq(Sendable) : Take(s)
  BY <1>1, <1>3, Zenon DEF OnLastDitchDisabled, OnLowPowerCancelled
<1>5. CASE LowPowerCancelled \/ LastDitchCancelled
  BY <1>4, <1>5 DEF LowPowerCancelled, LastDitchCancelled, GLowPowerCancelled,
                    GLastDitchCancelled, On
<1>6. CASE PreSuspendElapsed \/ ImminentElapsed \/ InhibitorsGone \/ ModemWaitElapsed
           \/ LateInhibitor \/ OnlyModemLeft
  BY <1>1, <1>6 DEF PreSuspendElapsed, ImminentElapsed, InhibitorsGone, ModemWaitElapsed,
     LateInhibitor, OnlyModemLeft, AdvanceTo, GPreSuspendElapsed, GImminentElapsed,
     GInhibitorsGone, GModemWaitElapsed, GLateInhibitor, GOnlyModemLeft, On
<1>7. CASE RunCommanded \/ EnterOnCommand \/ StoreCommand
  BY <1>1, <1>7 DEF RunCommanded, EnterOnCommand, StoreCommand, OnPowerCommand,
                    GPowerRun, GPowerCommand, GStoredCommand, On
<1>8. CASE RecordExplicitHibernate \/ RejectExplicitHibernate
  <2>1. queue # << >>
    BY <1>8 DEF RecordExplicitHibernate, RejectExplicitHibernate, TypeInv, AcceptHasEvent
  <2>2. \E s \in Seq(Sendable) : Take(s)
    BY <1>1, <1>3, <1>8, Zenon DEF RecordExplicitHibernate, RejectExplicitHibernate
  <2> QED
    BY <2>1, <2>2
<1>9. CASE OnHibernatePreparationFailed \/ VehicleChangedInRunning
           \/ OnVehicleLeftLowPowerState
  BY <1>1, <1>9 DEF OnHibernatePreparationFailed, VehicleChangedInRunning,
     OnVehicleLeftLowPowerState, GPreparationFailed, GVehicleChanged, GVehicleLeft, On
<1>10. CASE BatteryBecameInactive \/ BatteryBecameActive \/ OnDefaultStateChanged
            \/ OnLastDitchDefaultStateChanged
  BY <1>1, <1>10 DEF BatteryBecameInactive, BatteryBecameActive, OnDefaultStateChanged,
     OnLastDitchDefaultStateChanged, GBatteryInactive, GBatteryActive, GDefaultState,
     GLastDitchFallback, On
<1>11. CASE OnLastDitchTriggered \/ OnLastDitchWakeup \/ OnWakeup \/ DropEvent
  BY <1>1, <1>11 DEF OnLastDitchTriggered, OnLastDitchWakeup, OnWakeup, DropEvent,
     GLastDitchTriggered, GLastDitchWakeup, GWakeup, On
<1> QED
  BY <1>5, <1>6, <1>7, <1>8, <1>9, <1>10, <1>11 DEF HandleEvent

\* Entry actions and the resume only send events, and end the request they work
\* for or leave it as it is.
LEMMA EntryGrows ==
    ASSUME TypeInv, EnterState \/ Resume
    PROVE  /\ Grows
           /\ requestID' = 0 \/ UNCHANGED <<requestID, preparationTimer>>
<1>s. /\ \A id \in {"last-ditch-disabled", "suspend-cancelled", "inhibitors-changed",
                    "late-blocking-inhibitor", "wakeup", "wakeup-rtc"} :
           Signal(id) \in Sendable
      /\ PowerRun \in Sendable
  BY SignalsSent DEF EventIds, PowerCommandIds, RecheckIds
<1>c. CancelEntry => Grows
  BY <1>s, Growth, Zenon DEF CancelEntry
<1>u. (queue' = queue \/ queue' = Append(queue, PowerRun)) => Grows
  BY <1>s, Growth
<1>1. CASE EnterLowPowerImminent \/ EnterIssuingLowPower \/ WakeTimerAcked
           \/ WakeTimerAckTimeout
  <2>1. queue' = queue \/ queue' = Append(queue, PowerRun) \/ CancelEntry
    BY <1>1 DEF EnterLowPowerImminent, EnterIssuingLowPower, WakeTimerAcked,
                WakeTimerAckTimeout
  <2>2. requestID' = 0 \/ UNCHANGED <<requestID, preparationTimer>>
    BY <1>1 DEF EnterLowPowerImminent, EnterIssuingLowPower, WakeTimerAcked,
                WakeTimerAckTimeout, ClearHibernateRequest, ForgetHibernateRequest
  <2> QED
    BY <1>c, <1>u, <2>1, <2>2
<1>2. CASE EnterWaitingInhibitors
  <2>1. \/ CancelEntry \/ queue' = queue
        \/ queue' = Append(queue, Signal("inhibitors-changed"))
    BY <1>2 DEF EnterWaitingInhibitors
  <2>2. UNCHANGED <<requestID, preparationTimer>>
    BY <1>2 DEF EnterWaitingInhibitors
  <2> QED
    BY <1>c, <1>s, <1>u, <2>1, <2>2, Growth
<1>3. CASE InhibitorGate
  <2>1. \/ queue' = queue \/ queue' = Append(queue, PowerRun)
        \/ queue' = Append(queue, Signal("late-blocking-inhibitor"))
    BY <1>3 DEF InhibitorGate, AbortSuspend
  <2>2. UNCHANGED <<requestID, preparationTimer>>
    BY <1>3 DEF InhibitorGate, issuingDataUnchanged
  <2> QED
    BY <1>s, <1>u, <2>1, <2>2, Growth
<1>4. CASE Quiesced \/ QuiesceTimeout \/ CommitSuspend \/ ClockPrepared \/ SuspendFails
           \/ Suspend \/ IssueCommand \/ IssueCommandFails \/ Resume
  <2>1. queue' = queue \/ queue' = Append(queue, PowerRun) \/ CancelEntry
    BY <1>4 DEF Quiesced, QuiesceTimeout, CommitSuspend, ClockPrepared, SuspendFails,
                Suspend, IssueCommand, IssueCommandFails, Resume, AbortSuspend
  <2>2. UNCHANGED <<requestID, preparationTimer>>
    BY <1>4 DEF Quiesced, QuiesceTimeout, CommitSuspend, ClockPrepared, SuspendFails,
                Suspend, IssueCommand, IssueCommandFails, Resume, issuingDataUnchanged
  <2> QED
    BY <1>c, <1>u, <2>1, <2>2
<1>5. CASE HandleWakeupAfterSuspend
  <2>q. queue \in Seq(Events)
    BY DEF TypeInv, TypeOK, QueueTypeOK
  <2>1. PICK id \in WakeupIds :
          queue' = (IF delayInhibitor = "none"
                    THEN Append(queue, Signal("inhibitors-changed")) ELSE queue)
                   \o <<Signal(id)>>
    BY <1>5 DEF HandleWakeupAfterSuspend
  <2>2. Signal(id) \in Sendable /\ Signal("inhibitors-changed") \in Sendable
    BY <1>s DEF WakeupIds
  <2> DEFINE s == IF delayInhibitor = "none"
                  THEN <<Signal("inhibitors-changed"), Signal(id)>> ELSE <<Signal(id)>>
  <2>3. s \in Seq(Sendable)
    BY <2>2, SentSeqs
  <2>4. \A a, b : Append(queue, a) \o <<b>> = queue \o <<a, b>>
    BY <2>q
  <2>5. queue' = queue \o s
    BY <2>1, <2>4
  <2>6. UNCHANGED <<requestID, preparationTimer>>
    BY <1>5 DEF HandleWakeupAfterSuspend
  <2> QED
    BY <2>3, <2>5, <2>6, Growth
<1> QED
  BY <1>1, <1>2, <1>3, <1>4, <1>5 DEF EnterState

\* So do the timers, watchers and users: a preparation timeout that stops has
\* sent its event.
LEMMA EnvironmentGrows ==
    ASSUME TypeInv, SendEvent \/ Nrf \/ World
    PROVE  /\ Grows
           /\ \/ preparationTimer' = preparationTimer
              \/ queue' = Append(queue, PreparationFailed(preparationTimer))
<1> USE ConstantsAssumption, DefaultStatesAssumption
<1>t. /\ liveVehicle \in VehicleStates /\ fsmState \in States
      /\ preparationTimer \in Nat /\ lastRequestID \in Nat
  BY DEF TypeInv, TypeOK, FsmTypeOK, RequestTypeOK, WorldTypeOK
<1>s. /\ \A id \in {"inhibitors-changed", "power-eligibility-changed",
                    "last-ditch-disabled"} : Signal(id) \in Sendable
      /\ PowerRun \in Sendable
      /\ Command("last-ditch-check", "hibernate", 0) \in Sendable
  BY SignalsSent DEF EventIds, PowerCommandIds, RecheckIds
<1>v. <<VehicleStateChanged(liveVehicle)>> \in Seq(Sendable)
  BY <1>t, SignalsSent, SentSeqs
\* What a watcher of the eligibility sends.
<1>e. \A b : <<Signal("power-eligibility-changed")>> \o
               (IF b THEN <<Command("last-ditch-check", "hibernate", 0)>> ELSE << >>)
             \in Seq(Sendable)
  BY <1>s, SentSeqs
<1>1. CASE StateTimeout \/ PreparationTimeout \/ RemoveDelayInhibitor
  BY <1>1, <1>s, <1>t, SignalsSent, Growth
     DEF StateTimeout, PreparationTimeout, RemoveDelayInhibitor, requestVars
<1>2. CASE BootGraceExpires
  <2>1. Grows
    BY <1>2, <1>e, Growth DEF BootGraceExpires
  <2> QED
    BY <1>2, <2>1 DEF BootGraceExpires, requestVars
<1>3. ASSUME NEW input \in Watched, Notify(input)
      PROVE  Grows /\ preparationTimer' = preparationTimer
  <2> DEFINE first == IF input = "vehicle" THEN <<VehicleStateChanged(liveVehicle)>>
                      ELSE IF input = "battery" THEN BatteryEvents ELSE << >>
             s == IF input = "inhibitors" THEN <<Signal("inhibitors-changed")>>
                  ELSE first \o LastDitchCheck(standbySeen')
  <2>1. first \in Seq(Sendable)
    BY <1>v, ChecksSent, SentSeqs
  <2>2. <<Signal("inhibitors-changed")>> \in Seq(Sendable)
    BY <1>s, SentSeqs
  <2>3. s \in Seq(Sendable)
    <3> HIDE DEF first
    <3> QED
      BY <2>1, <2>2, ChecksSent, SentSeqs
  <2>4. queue' = queue \o s
    BY <1>3, Zenon DEF Notify
  <2> QED
    BY <1>3, <2>3, <2>4, Growth DEF Notify, requestVars
<1>4. CASE Nrf
  BY <1>4, Growth DEF Nrf, NrfApplies, EchoArrives, SuspendingConfirmed, nrfUnchanged,
                      fsmVars, requestVars
<1>5. CASE World
  <2>1. preparationTimer' = preparationTimer
    BY <1>5 DEF World, VehicleMoves, BatteryChanges, ReserveChanges, RemoteAccessChanges,
                InhibitorToggles, PowerCommandReceived, HibernateCancelReceived,
                ScheduledHibernate, HibernationTimerExpires, VehicleRejectsPreparation,
                DefaultStateSet, LastDitchSet, SuspendWhenOnlineSet, liveUnchanged,
                sendUnchanged, requestVars
  <2>2. liveUnchanged => Grows
    BY Growth DEF liveUnchanged, fsmVars
  <2>3. \A e \in Sendable : Send(e) => Grows
    BY Growth DEF Send
  <2>4. CASE \E c \in CommandNames : PowerCommandReceived(c)
    <3>1. /\ Command("power-suspend", "suspend", 0) \in Sendable
          /\ Command("power-hibernate-timer", "hibernate-timer", 0) \in Sendable
          /\ Command("power-reboot", "reboot", 0) \in Sendable
          /\ Command("explicit-hibernate", "hibernate-manual", 0) \in Sendable
          /\ \A d \in Durations \ {0} :
                Command("explicit-hibernate", "hibernate-for", d) \in Sendable
          /\ "hibernate-auto" \in Commands =>
                Command("power-hibernate", "hibernate", 0) \in Sendable
      <4>1. \A id, x, d : Command(id, x, d).id = id
        BY DEF Command
      <4> QED
        BY <4>1, CommandType DEF Sendable
    <3> QED
      BY <1>s, <2>1, <2>3, <2>4, <3>1 DEF PowerCommandReceived
  <2>5. CASE ScheduledHibernate \/ HibernationTimerExpires
    <3>1. /\ Command("hibernation-timer-expired", "hibernate-timer", 0) \in Sendable
          /\ \A d \in Durations \ {0} :
                Command("power-hibernate-for", "hibernate-for", d) \in Sendable
      <4>1. \A id, x, d : Command(id, x, d).id = id
        BY DEF Command
      <4> QED
        BY <4>1, CommandType DEF Sendable
    <3> QED
      BY <2>1, <2>3, <2>5, <3>1 DEF ScheduledHibernate, HibernationTimerExpires
  <2>6. CASE HibernateCancelReceived \/ SuspendWhenOnlineSet
    BY <1>s, <2>1, <2>3, <2>6 DEF HibernateCancelReceived, SuspendWhenOnlineSet
  <2>7. CASE VehicleRejectsPreparation
    <3>1. PICK r \in 1..lastRequestID : Send(PreparationFailed(r))
      BY <2>7 DEF VehicleRejectsPreparation
    <3>2. PreparationFailed(r) \in Sendable
      BY <1>t, SignalsSent
    <3> QED
      BY <2>1, <2>3, <3>1, <3>2
  <2>8. CASE \E d \in DefaultStates : DefaultStateSet(d)
    <3>1. PICK d \in DefaultStates : DefaultStateSet(d)
      BY <2>8
    <3> DEFINE c == Command("default-state-changed", d, 0)
               s == IF d = "run" THEN <<PowerRun>>
                    ELSE <<c, VehicleStateChanged(liveVehicle)>>
    <3>2. d # "run" => c \in Sendable
      <4>1. defaultState \in DefaultStates /\ d # defaultState /\ d \in Targets
        BY <3>1 DEF DefaultStateSet, TypeInv, TypeOK, SettingTypeOK, ValidDefaultStates
      <4> QED
        BY <4>1 DEF Command, Sendable, Events, WellFormed, PowerCommandIds, EventIds,
                    VehicleStates
    <3>3. VehicleStateChanged(liveVehicle) \in Sendable
      BY <1>t, SignalsSent
    <3>4. s \in Seq(Sendable)
      <4> HIDE DEF c
      <4> QED
        BY <1>s, <3>2, <3>3, SentSeqs
    <3>5. queue' = queue \o s
      BY <3>1, Zenon DEF DefaultStateSet
    <3> QED
      BY <2>1, <3>4, <3>5, Growth
  <2>9. CASE LastDitchSet
    <3> DEFINE check == /\ liveBattery \in {"absent", "empty"} /\ reserveLow
                        /\ ~bootGrace /\ standbySeen
               s == IF lastDitchEnabled THEN <<Signal("last-ditch-disabled")>>
                    ELSE <<Signal("power-eligibility-changed")>> \o
                         (IF check THEN <<Command("last-ditch-check", "hibernate", 0)>>
                          ELSE << >>)
    <3>1. s \in Seq(Sendable)
      BY <1>e, <1>s, SentSeqs
    <3>2. queue' = queue \o s
      BY <2>9, Zenon DEF LastDitchSet
    <3> QED
      BY <2>1, <3>1, <3>2, Growth
  <2> QED
    BY <1>5, <2>1, <2>2, <2>4, <2>5, <2>6, <2>7, <2>8, <2>9
       DEF World, VehicleMoves, BatteryChanges, ReserveChanges, RemoteAccessChanges,
           InhibitorToggles
<1> QED
  BY <1>1, <1>2, <1>3, <1>4, <1>5 DEF SendEvent

-----------------------------------------------------------------------------
(* No request is stranded.                                                 *)

\* What makes it inductive: past running, the vehicle of an outstanding request
\* is in stand-by, so that a wakeup does not bring the request back to running
\* to wait for nothing.
StrandedInv ==
    /\ NoStrandedRequest
    /\ requestID # 0 /\ fsmState # "running" => vehicle = "stand-by"

\* What a request in running waits for.
Awaited ==
    IF vehicle = "stand-by"
    THEN \E v \in VehicleStates : InQueue(VehicleStateChanged(v))
    ELSE preparationTimer = requestID \/ InQueue(PreparationFailed(requestID))

\* Everything but the vehicle event and the failure a request waits for leaves
\* it waiting.
LEMMA StillAwaited ==
    ASSUME TypeInv, Awaited, UNCHANGED <<vehicle, requestID, preparationTimer>>,
           \/ Grows
           \/ /\ queue # << >> /\ \E s \in Seq(Sendable) : Take(s)
              /\ Ev.id # "vehicle-state-changed"
              /\ Ev # PreparationFailed(requestID)
    PROVE  Awaited'
<1>1. ASSUME NEW e, InQueue(e),
             e.id = "vehicle-state-changed" \/ e = PreparationFailed(requestID)
      PROVE  InQueue(e)'
  BY <1>1, Waits
<1>2. \A v : VehicleStateChanged(v).id = "vehicle-state-changed"
  BY DEF VehicleStateChanged
<1>3. CASE vehicle = "stand-by"
  <2>1. PICK v \in VehicleStates : InQueue(VehicleStateChanged(v))
    BY <1>3 DEF Awaited
  <2>2. InQueue(VehicleStateChanged(v))'
    BY <1>1, <1>2, <2>1
  <2> QED
    BY <1>3, <2>2 DEF Awaited
<1>4. CASE vehicle # "stand-by"
  <2>1. preparationTimer = requestID \/ InQueue(PreparationFailed(requestID))
    BY <1>4 DEF Awaited
  <2>2. InQueue(PreparationFailed(requestID)) => InQueue(PreparationFailed(requestID))'
    <3> SUFFICES ASSUME InQueue(PreparationFailed(requestID))
                 PROVE  InQueue(PreparationFailed(requestID))'
      OBVIOUS
    <3>1. \E i \in DOMAIN queue' : queue'[i] = PreparationFailed(requestID)
      BY <1>1 DEF InQueue
    <3> QED
      BY <3>1 DEF InQueue
  <2> QED
    BY <1>4, <2>1, <2>2 DEF Awaited
<1> QED
  BY <1>3, <1>4

\* Every edge of definition.go ends the request, moves it on in stand-by, or
\* leaves it waiting for an event that will come.
LEMMA StrandedOfHandler ==
    ASSUME \E d \in Targets : DefaultStates = {d}
    PROVE  TypeInv /\ AutomaticProvenance /\ WakeInv /\ RequestKeepsItsTarget
             /\ StrandedInv /\ HandleEvent => StrandedInv'
<1> SUFFICES ASSUME TypeInv, AutomaticProvenance, WakeInv, RequestKeepsItsTarget,
                    StrandedInv, HandleEvent
             PROVE  StrandedInv'
  OBVIOUS
<1>t. fsmState \in States /\ automatic \in BOOLEAN
  BY DEF TypeInv, TypeOK, FsmTypeOK, DataTypeOK
<1>g. \A s : Goto(s) => fsmState' = s
  BY DEF Goto
<1>q. \/ AcceptExplicitHibernate
      \/ queue # << >> /\ \E s \in Seq(Sendable) : Take(s)
  BY HandlerTakes
<1>p. PreparationFailed(requestID).id = "hibernate-preparation-failed"
  BY DEF PreparationFailed
\* The request ends; it is on its way in stand-by; it waits.
<1>d. requestID' = 0 => StrandedInv'
  BY DEF StrandedInv, NoStrandedRequest
<1>o. fsmState' # "running" /\ vehicle' = "stand-by" => StrandedInv'
  BY DEF StrandedInv, NoStrandedRequest
<1>w. fsmState' = "running" /\ Awaited' => StrandedInv'
  BY DEF StrandedInv, NoStrandedRequest, Awaited, InQueue
<1>a. requestID # 0 /\ fsmState = "running" => Awaited
  BY DEF StrandedInv, NoStrandedRequest, Awaited
\* No request is outstanding while the target is another one, so none can be
\* cancelled with an automatic or a suspend transition.
<1>n. target \notin ExplicitTargets => requestID = 0
  BY DEF RequestKeepsItsTarget
<1>c. automatic \/ target \in {"run", "suspend"} => requestID = 0
  BY <1>n DEF AutomaticProvenance, ExplicitTargets
<1>1. CASE LowPowerCancelled \/ LastDitchCancelled
  <2>1. automatic \/ target = "suspend"
    BY <1>1 DEF LowPowerCancelled, LastDitchCancelled, GLowPowerCancelled,
                GLastDitchCancelled, ShouldCancelLowPower
  <2>2. requestID' = requestID
    BY <1>1 DEF LowPowerCancelled, LastDitchCancelled, cancelUnchanged
  <2> QED
    BY <1>c, <1>d, <2>1, <2>2
<1>2. CASE PreSuspendElapsed \/ ImminentElapsed \/ InhibitorsGone \/ ModemWaitElapsed
           \/ LateInhibitor \/ OnlyModemLeft
  <2>1. /\ fsmState # "running" /\ fsmState' # "running"
        /\ UNCHANGED <<vehicle, requestID>>
    BY <1>2, <1>g DEF PreSuspendElapsed, ImminentElapsed, InhibitorsGone,
       ModemWaitElapsed, LateInhibitor, OnlyModemLeft, GPreSuspendElapsed,
       GImminentElapsed, GInhibitorsGone, GModemWaitElapsed, GLateInhibitor,
       GOnlyModemLeft, On, AdvanceTo, advanceUnchanged
  <2> QED
    BY <1>d, <1>o, <2>1 DEF StrandedInv
<1>3. CASE RunCommanded \/ EnterOnCommand \/ StoreCommand \/ RejectExplicitHibernate
           \/ OnHibernatePreparationFailed \/ OnVehicleLeftLowPowerState
  BY <1>3, <1>d DEF RunCommanded, EnterOnCommand, StoreCommand, OnPowerCommand,
     StorePowerCommand, RejectExplicitHibernate, OnHibernatePreparationFailed,
     OnVehicleLeftLowPowerState, ClearHibernateRequest, ForgetHibernateRequest
<1>4. CASE AcceptExplicitHibernate
  BY <1>4 DEF AcceptExplicitHibernate, dataVars, requestVars, StrandedInv,
              NoStrandedRequest, InQueue
<1>5. CASE RecordExplicitHibernate
  <2>1. /\ fsmState' = "running" /\ vehicle' = liveVehicle
        /\ requestID' = lastRequestID + 1
        /\ liveVehicle # "stand-by" => preparationTimer' = requestID'
        /\ liveVehicle = "stand-by" => Take(<<VehicleStateChanged("stand-by")>>)
    BY <1>5, <1>g DEF RecordExplicitHibernate
  <2>2. CASE liveVehicle = "stand-by"
    <3>1. queue \in Seq(Events) /\ queue # << >>
      BY <1>5 DEF RecordExplicitHibernate, TypeInv, TypeOK, QueueTypeOK, AcceptHasEvent
    <3>2. Tail(queue) \in Seq(Events) /\ VehicleStateChanged("stand-by") \in Events
      BY <3>1, EventTypes, TakeFromQueue DEF VehicleStates
    <3>3. queue' = Tail(queue) \o <<VehicleStateChanged("stand-by")>>
      BY <2>1, <2>2 DEF Take
    <3>4. \E i \in DOMAIN queue' : queue'[i] = VehicleStateChanged("stand-by")
      <4>1. ASSUME NEW r \in Seq(Events), NEW e \in Events
            PROVE  Len(r) + 1 \in DOMAIN (r \o <<e>>) /\ (r \o <<e>>)[Len(r) + 1] = e
        OBVIOUS
      <4> QED
        BY <3>2, <3>3, <4>1
    <3>5. InQueue(VehicleStateChanged("stand-by"))'
      BY <3>4 DEF InQueue
    <3> QED
      BY <1>w, <2>1, <2>2, <3>5 DEF Awaited, VehicleStates
  <2>3. CASE liveVehicle # "stand-by"
    BY <1>w, <2>1, <2>3 DEF Awaited
  <2> QED
    BY <2>2, <2>3
\* The vehicle event a request waits for starts the countdown; another one ends
\* the request or leaves its timeout running.
<1>6. CASE VehicleChangedInRunning
  <2>1. /\ fsmState = "running" /\ Ev.id = "vehicle-state-changed"
        /\ fsmState' = Destination(Ev.vehicle, "pre-suspend")
        /\ OnVehicleStateChanged(Ev.vehicle)
    BY <1>6, <1>g DEF VehicleChangedInRunning, GVehicleChanged, On
  <2>2. CASE RequestInterrupted(Ev.vehicle)
    BY <1>d, <2>1, <2>2 DEF OnVehicleStateChanged, ClearHibernateRequest,
                            ForgetHibernateRequest
  <2>3. CASE requestID = 0
    BY <1>d, <2>1, <2>2, <2>3 DEF OnVehicleStateChanged
  <2>4. CASE requestID # 0 /\ ~RequestInterrupted(Ev.vehicle)
    <3>1. target \in ExplicitTargets
      BY <2>4 DEF RequestKeepsItsTarget
    <3>2. vehicle' = Ev.vehicle /\ requestID' = requestID
      BY <2>1, <2>4 DEF OnVehicleStateChanged
    <3>3. CASE Ev.vehicle = "stand-by"
      BY <1>o, <2>1, <3>1, <3>2, <3>3
         DEF Destination, CanEnterLowPowerState, ExplicitTargets
    <3>4. CASE Ev.vehicle # "stand-by"
      <4>1. fsmState' = "running"
        BY <2>1, <3>1, <3>4 DEF Destination, CanEnterLowPowerState, ExplicitTargets
      <4>2. vehicle # "stand-by" /\ preparationTimer' = preparationTimer
        BY <2>1, <2>4, <3>4 DEF RequestInterrupted, OnVehicleStateChanged
      <4>3. preparationTimer = requestID \/ InQueue(PreparationFailed(requestID))
        BY <1>a, <2>1, <2>4, <4>2 DEF Awaited
      <4>4. InQueue(PreparationFailed(requestID))
              => \E i \in DOMAIN queue' : queue'[i] = PreparationFailed(requestID)
        <5>1. queue # << >> /\ \E s \in Seq(Sendable) : Take(s)
          BY <1>6, <1>q, <2>1 DEF AcceptExplicitHibernate, GExplicitHibernate, On
        <5> QED
          BY <1>p, <2>1, <5>1, Waits DEF InQueue
      <4>5. Awaited'
        BY <3>2, <3>4, <4>2, <4>3, <4>4 DEF Awaited, InQueue
      <4> QED
        BY <1>w, <4>1, <4>5
    <3> QED
      BY <3>3, <3>4
  <2> QED
    BY <2>2, <2>3, <2>4
<1>7. CASE BatteryBecameInactive
  <2>1. /\ fsmState = "running" /\ Ev.id = "battery-became-inactive"
        /\ target # "suspend" => fsmState' = "running"
        /\ UNCHANGED <<vehicle, requestID, preparationTimer>>
    BY <1>7, <1>g DEF BatteryBecameInactive, GBatteryInactive, On, dataUnchanged,
                      requestVars
  <2>2. CASE requestID = 0
    BY <1>d, <2>1, <2>2
  <2>3. CASE requestID # 0
    <3>1. queue # << >> /\ \E s \in Seq(Sendable) : Take(s)
      BY <1>q, <2>1 DEF AcceptExplicitHibernate, GExplicitHibernate, On
    <3>2. Awaited'
      BY <1>a, <1>p, <2>1, <2>3, <3>1, StillAwaited
    <3> QED
      BY <1>c, <1>w, <2>1, <2>3, <3>2
  <2> QED
    BY <2>2, <2>3
<1>8. CASE BatteryBecameActive
  <2>1. target = "suspend" /\ requestID' = requestID
    BY <1>8 DEF BatteryBecameActive, GBatteryActive, On, dataUnchanged, WakeInv
  <2> QED
    BY <1>c, <1>d, <2>1
\* With a single default state no such event is ever queued.
<1>9. CASE OnDefaultStateChanged \/ OnLastDitchDefaultStateChanged
  <2>1. queue # << >> /\ Ev.id = "default-state-changed"
    BY <1>9 DEF OnDefaultStateChanged, OnLastDitchDefaultStateChanged, GDefaultState,
                GLastDitchFallback, On
  <2>2. Ev.target \in DefaultStates /\ DefaultStates # {Ev.target}
    BY <2>1, HeadType DEF Events, WellFormed
  <2> QED
    BY <2>2
<1>10. CASE OnLastDitchTriggered \/ OnLastDitchWakeup
  <2>1. target \in {"run", "suspend"} /\ requestID' = requestID
    BY <1>10 DEF OnLastDitchTriggered, OnLastDitchWakeup, GLastDitchTriggered,
                 GLastDitchWakeup, dataUnchanged
  <2> QED
    BY <1>c, <1>d, <2>1
\* A stale wakeup restarts the countdown of a request in stand-by.
<1>11. CASE OnWakeup
  <2>1. /\ fsmState = "issuing-low-power" /\ UNCHANGED <<vehicle, requestID>>
        /\ \E s \in {"pre-suspend", "suspend-imminent"} :
             fsmState' = Destination(vehicle, s)
    BY <1>11, <1>g DEF OnWakeup, GWakeup, On, dataUnchanged
  <2>2. CASE requestID = 0
    BY <1>d, <2>1, <2>2
  <2>3. CASE requestID # 0
    <3>1. target \in ExplicitTargets /\ vehicle = "stand-by"
      BY <2>1, <2>3 DEF RequestKeepsItsTarget, StrandedInv
    <3>2. fsmState' = "low-power-imminent"
      BY <2>1, <3>1 DEF Destination, CanEnterLowPowerState, ExplicitTargets
    <3> QED
      BY <1>o, <2>1, <3>1, <3>2
  <2> QED
    BY <2>2, <2>3
\* What is dropped in running is neither event a request waits for.
<1>12. CASE DropEvent
  <2>1. UNCHANGED <<fsmState, vehicle, requestID, preparationTimer>>
    BY <1>12 DEF DropEvent, dataVars, requestVars
  <2>2. CASE requestID = 0
    BY <1>d, <2>1, <2>2
  <2>3. CASE fsmState # "running"
    BY <1>d, <1>o, <2>1, <2>3 DEF StrandedInv
  <2>4. CASE requestID # 0 /\ fsmState = "running"
    <3>1. queue # << >> /\ \E s \in Seq(Sendable) : Take(s)
      BY <1>12, <1>q DEF AcceptExplicitHibernate, DropEvent
    <3>2. Ev.id # "vehicle-state-changed"
      BY <1>12, <2>4 DEF DropEvent, GVehicleChanged, On
    <3>3. Ev # PreparationFailed(requestID)
      <4>1. PreparationFailed(requestID).request = requestID
        BY DEF PreparationFailed
      <4> QED
        BY <1>12, <1>p, <2>4, <4>1 DEF DropEvent, GPreparationFailed, On
    <3> QED
      BY <1>a, <1>w, <2>1, <2>4, <3>1, <3>2, <3>3, StillAwaited
  <2> QED
    BY <2>2, <2>3, <2>4
<1> QED
  BY <1>1, <1>2, <1>3, <1>4, <1>5, <1>6, <1>7, <1>8, <1>9, <1>10, <1>11, <1>12
     DEF HandleEvent

\* An accepted explicit request is never stranded (hibernate_request.go,
\* acceptExplicitHibernate and its preparation timeout): while it waits in
\* running for the vehicle, its timeout is running or its failure is queued, and
\* once the vehicle is in stand-by a vehicle event is, in whatever order events
\* come and however many are ahead of it, while pm.default-state keeps its value.
THEOREM NoStrandedRequestHolds ==
    ASSUME \E d \in Targets : DefaultStates = {d}
    PROVE  Spec => []NoStrandedRequest
<1>1. Init => StrandedInv
  BY DEF Init, StrandedInv, NoStrandedRequest
<1>2. TypeInv /\ AutomaticProvenance /\ WakeInv /\ RequestKeepsItsTarget
        /\ StrandedInv /\ [Next]_vars => StrandedInv'
  <2> SUFFICES ASSUME TypeInv, AutomaticProvenance, WakeInv, RequestKeepsItsTarget,
                      StrandedInv, [Next]_vars
               PROVE  StrandedInv'
    OBVIOUS
  <2>a. requestID # 0 /\ fsmState = "running" => Awaited
    BY DEF StrandedInv, NoStrandedRequest, Awaited
  <2>k. UNCHANGED <<fsmState, vehicle, requestID>> /\ Awaited' => StrandedInv'
    BY DEF StrandedInv, NoStrandedRequest, Awaited, InQueue
  <2>o. UNCHANGED <<fsmState, vehicle, requestID>> /\ fsmState # "running" => StrandedInv'
    BY DEF StrandedInv, NoStrandedRequest
  <2>d. requestID' = 0 => StrandedInv'
    BY DEF StrandedInv, NoStrandedRequest
  \* A step that only sends events and keeps the timeout.
  <2>s. ASSUME UNCHANGED <<fsmState, vehicle, requestID, preparationTimer>>, Grows
        PROVE  StrandedInv'
    BY <2>a, <2>d, <2>k, <2>o, <2>s, StillAwaited
  <2>1. CASE SendEvent \/ Nrf \/ World
    <3>1. UNCHANGED <<fsmState, vehicle, requestID>>
      BY <2>1, EnvironmentFrame DEF dataVars
    <3>2. Grows
      BY <2>1, EnvironmentGrows
    <3>3. CASE preparationTimer' = preparationTimer
      BY <2>s, <3>1, <3>2, <3>3
    <3>4. CASE queue' = Append(queue, PreparationFailed(preparationTimer))
      <4>1. CASE requestID = 0 \/ fsmState # "running"
        BY <2>d, <2>o, <3>1, <4>1
      <4>2. CASE requestID # 0 /\ fsmState = "running"
        <5>1. queue \in Seq(Events) /\ PreparationFailed(preparationTimer) \in Events
          BY EventTypes DEF TypeInv, TypeOK, QueueTypeOK, RequestTypeOK
        <5>2. \E i \in DOMAIN queue' : queue'[i] = PreparationFailed(preparationTimer)
          <6>1. ASSUME NEW r \in Seq(Events), NEW e \in Events
                PROVE  /\ Len(r) + 1 \in DOMAIN Append(r, e)
                       /\ Append(r, e)[Len(r) + 1] = e
            OBVIOUS
          <6> QED
            BY <3>4, <5>1, <6>1
        <5>3. \A e : InQueue(e) => \E i \in DOMAIN queue' : queue'[i] = e
          BY <3>2, Waits DEF InQueue
        <5>4. Awaited
          BY <2>a, <4>2
        <5>5. CASE vehicle = "stand-by"
          BY <2>k, <3>1, <5>3, <5>4, <5>5 DEF Awaited, InQueue
        <5>6. CASE vehicle # "stand-by"
          <6>1. \E i \in DOMAIN queue' : queue'[i] = PreparationFailed(requestID)
            BY <5>2, <5>3, <5>4, <5>6 DEF Awaited
          <6> QED
            BY <2>k, <3>1, <5>6, <6>1 DEF Awaited, InQueue
        <5> QED
          BY <5>5, <5>6
      <4> QED
        BY <4>1, <4>2
    <3> QED
      BY <2>1, <3>3, <3>4, EnvironmentGrows
  <2>2. CASE EnterState \/ Resume
    <3>1. UNCHANGED <<fsmState, vehicle>>
      BY <2>2, EntryFrame DEF stepUnchanged
    <3> QED
      BY <2>2, <2>d, <2>s, <3>1, EntryGrows
  <2>3. CASE UNCHANGED vars
    <3>1. UNCHANGED <<fsmState, vehicle, requestID, preparationTimer, queue>>
      BY <2>3 DEF vars, fsmVars, dataVars, requestVars
    <3> QED
      BY <2>s, <3>1, Growth
  <2> QED
    BY <2>1, <2>2, <2>3, StrandedOfHandler DEF Next
<1>3. StrandedInv => NoStrandedRequest
  BY DEF StrandedInv
<1> QED
  BY <1>1, <1>2, <1>3, TypeInvariant, AutomaticProvenanceHolds, WakeInvariant,
     RequestKeepsItsTargetHolds, PTL DEF Spec

-----------------------------------------------------------------------------
(* A poweroff nobody asked for.                                            *)

\* What makes it inductive: hibernation is the target only of an automatic
\* transition, none falls back to it, and no event in the queue asks for it.
UnaskedInv ==
    /\ target = "hibernate" => automatic
    /\ fallback # "hibernate"
    /\ queue \in Seq(Sendable)

\* Every edge of definition.go that makes hibernation the target marks it as
\* automatic, where neither a command nor pm.default-state asks for it.
LEMMA UnaskedOfHandler ==
    ASSUME "hibernate-auto" \notin Commands, "hibernate" \notin DefaultStates
    PROVE  TypeInv /\ UnaskedInv /\ HandleEvent => UnaskedInv'
<1> SUFFICES ASSUME TypeInv, UnaskedInv, HandleEvent PROVE UnaskedInv'
  OBVIOUS
<1>t. automatic \in BOOLEAN /\ defaultState \in DefaultStates
  BY DEF TypeInv, TypeOK, DataTypeOK, SettingTypeOK
<1>q. queue' \in Seq(Sendable)
  <2>1. queue \in Seq(Sendable)
    BY DEF UnaskedInv
  <2>2. queue # << >> => Tail(queue) \in Seq(Sendable)
    <3> HIDE DEF Sendable
    <3> QED
      BY <2>1
  <2>3. CASE AcceptExplicitHibernate
    BY <2>1, <2>3 DEF AcceptExplicitHibernate
  <2>4. CASE queue # << >> /\ \E s \in Seq(Sendable) : Take(s)
    BY <2>2, <2>4, SentSeqs DEF Take
  <2> QED
    BY <2>3, <2>4, HandlerTakes
<1>h. queue # << >> => Ev \in Sendable
  <2>1. queue \in Seq(Sendable)
    BY DEF UnaskedInv
  <2> HIDE DEF Sendable
  <2> QED
    BY <2>1 DEF Ev
<1>k. UNCHANGED <<target, automatic, fallback>> => UnaskedInv'
  BY <1>q DEF UnaskedInv
<1>n. target' # "hibernate" /\ fallback' \in {fallback, "none"} => UnaskedInv'
  BY <1>q DEF UnaskedInv
<1>d. OnLastDitchDisabled => UnaskedInv'
  BY <1>n, <1>t DEF OnLastDitchDisabled, ClearAutomaticLastDitch, UnaskedInv
<1>1. CASE LowPowerCancelled \/ LastDitchCancelled
  BY <1>1, <1>d, <1>k DEF LowPowerCancelled, LastDitchCancelled, OnLowPowerCancelled
<1>2. CASE PreSuspendElapsed \/ ImminentElapsed \/ InhibitorsGone \/ ModemWaitElapsed
           \/ LateInhibitor \/ OnlyModemLeft
  BY <1>2, <1>k DEF PreSuspendElapsed, ImminentElapsed, InhibitorsGone, ModemWaitElapsed,
                    LateInhibitor, OnlyModemLeft, AdvanceTo, advanceUnchanged
\* A command event carries the target of its command.
<1>3. CASE RunCommanded \/ EnterOnCommand \/ StoreCommand
  <2>1. /\ queue # << >> /\ Ev.id \in PowerCommandIds \cup {"power-run"}
        /\ StorePowerCommand(Ev)
    BY <1>3 DEF RunCommanded, EnterOnCommand, StoreCommand, GPowerRun, GPowerCommand,
                GStoredCommand, On, UpgradeIds, OnPowerCommand, PowerCommandIds
  <2>2. Ev \in Sendable /\ Ev.id # "power-hibernate"
    BY <1>h, <2>1 DEF Sendable
  <2>3. Ev.target # "hibernate"
    BY <2>1, <2>2 DEF Sendable, Events, WellFormed, CommandTarget
  <2> QED
    BY <1>n, <2>1, <2>3 DEF StorePowerCommand, ClearAutomaticLastDitch
<1>4. CASE AcceptExplicitHibernate \/ DropEvent
  BY <1>4, <1>k DEF AcceptExplicitHibernate, DropEvent, dataVars
<1>5. CASE RecordExplicitHibernate
  <2>1. queue # << >> /\ Ev.id = "explicit-hibernate"
    BY <1>5 DEF RecordExplicitHibernate, TypeInv, AcceptHasEvent
  <2>2. Ev.target # "hibernate"
    BY <2>1, HeadType DEF Events, WellFormed, ExplicitTargets
  <2> QED
    BY <1>5, <1>n, <2>2 DEF RecordExplicitHibernate, ClearAutomaticLastDitch
<1>6. CASE RejectExplicitHibernate \/ OnHibernatePreparationFailed
  BY <1>6, <1>n DEF RejectExplicitHibernate, OnHibernatePreparationFailed
<1>7. CASE VehicleChangedInRunning
  <2>1. OnVehicleStateChanged(Ev.vehicle)
    BY <1>7 DEF VehicleChangedInRunning
  <2>2. CASE IntentDropped(Ev.vehicle)
    BY <1>n, <1>t, <2>1, <2>2 DEF OnVehicleStateChanged
  <2>3. CASE ~IntentDropped(Ev.vehicle)
    <3>1. automatic' = automatic
      BY <1>t, <2>1, <2>3, Zenon DEF OnVehicleStateChanged
    <3>2. target' \in {target, "run"} /\ fallback' = fallback
      BY <2>1, <2>3 DEF OnVehicleStateChanged
    <3> QED
      BY <1>k, <1>n, <3>1, <3>2
  <2> QED
    BY <2>2, <2>3
<1>8. CASE OnVehicleLeftLowPowerState
  BY <1>8, <1>n, <1>t DEF OnVehicleLeftLowPowerState, ClearAutomaticLastDitch
<1>9. CASE BatteryBecameInactive \/ BatteryBecameActive \/ OnWakeup
  BY <1>9, <1>k DEF BatteryBecameInactive, BatteryBecameActive, OnWakeup
<1>10. CASE OnDefaultStateChanged \/ OnLastDitchDefaultStateChanged
  <2>1. queue # << >> /\ Ev.id = "default-state-changed"
    BY <1>10 DEF OnDefaultStateChanged, OnLastDitchDefaultStateChanged, GDefaultState,
                 GLastDitchFallback, On
  <2>2. Ev.target # "hibernate"
    BY <2>1, HeadType DEF Events, WellFormed
  <2>3. CASE OnDefaultStateChanged
    BY <1>n, <2>2, <2>3 DEF OnDefaultStateChanged, ClearAutomaticLastDitch
  <2>4. CASE OnLastDitchDefaultStateChanged
    BY <1>q, <2>2, <2>4 DEF OnLastDitchDefaultStateChanged, UnaskedInv
  <2> QED
    BY <1>10, <2>3, <2>4
<1>11. CASE OnLastDitchTriggered \/ OnLastDitchWakeup
  <2>1. automatic' = TRUE /\ fallback' \in {fallback, target} /\ target \in {"run", "suspend"}
    BY <1>11 DEF OnLastDitchTriggered, OnLastDitchWakeup, GLastDitchTriggered,
                 GLastDitchWakeup, BeginAutomaticLastDitch
  <2> QED
    BY <1>q, <2>1 DEF UnaskedInv
<1> QED
  BY <1>1, <1>2, <1>3, <1>4, <1>5, <1>6, <1>7, <1>8, <1>9, <1>10, <1>11 DEF HandleEvent

\* Where neither the hibernate-auto command nor pm.default-state asks for it,
\* a hibernation that powers the board off was begun by the last-ditch check,
\* and its condition holds at that very step (service.go, the re-check before
\* poweroff), however often it came and went before.
THEOREM UnaskedPoweroffIsLastDitchHolds ==
    ASSUME "hibernate-auto" \notin Commands, "hibernate" \notin DefaultStates
    PROVE  Spec => UnaskedPoweroffIsLastDitch
<1>1. Init => UnaskedInv
  <2> SUFFICES ASSUME Init PROVE UnaskedInv
    OBVIOUS
  <2>1. liveVehicle \in VehicleStates
    BY ConstantsAssumption DEF Init
  <2>2. << >> \in Seq(Sendable) /\ <<VehicleStateChanged(liveVehicle)>> \in Seq(Sendable)
    BY <2>1, SignalsSent, SentSeqs
  <2>3. \A s, t \in Seq(Sendable) : s \o t \in Seq(Sendable)
    BY SentSeqs
  <2>4. StartupEvents(liveVehicle = "stand-by") \in Seq(Sendable)
    <3> HIDE DEF Sendable
    <3> QED
      BY <2>2, <2>3, ChecksSent DEF StartupEvents
  <2> QED
    BY <2>4 DEF Init, UnaskedInv
<1>2. TypeInv /\ UnaskedInv /\ [Next]_vars => UnaskedInv'
  <2> SUFFICES ASSUME TypeInv, UnaskedInv, [Next]_vars PROVE UnaskedInv'
    OBVIOUS
  <2>g. UNCHANGED <<target, automatic, fallback>> /\ Grows => UnaskedInv'
    BY SentSeqs DEF UnaskedInv, Grows
  <2>1. CASE SendEvent \/ Nrf \/ World
    BY <2>1, <2>g, EnvironmentFrame, EnvironmentGrows DEF dataVars
  <2>2. CASE EnterState \/ Resume
    BY <2>2, <2>g, EntryFrame, EntryGrows DEF stepUnchanged
  <2>3. CASE UNCHANGED vars
    BY <2>3 DEF vars, fsmVars, dataVars, UnaskedInv
  <2> QED
    BY <2>1, <2>2, <2>3, UnaskedOfHandler DEF Next
<1>3. CommitInv /\ UnaskedInv /\ [Next]_vars =>
        [power = "on" /\ power' = "off" /\ target = "hibernate" =>
           IsLastDitchTriggered]_vars
  <2> SUFFICES ASSUME CommitInv, UnaskedInv, Next, power = "on", power' = "off",
                      target = "hibernate"
               PROVE  IsLastDitchTriggered
    BY DEF vars, worldVars
  <2>1. IssueCommand
    BY GoingDown
  <2>2. ~ShouldCancelLowPower /\ automatic
    BY <2>1 DEF IssueCommand, UnaskedInv
  <2> QED
    BY <2>2 DEF ShouldCancelLowPower
<1> QED
  BY <1>1, <1>2, <1>3, TypeInvariant, CommitInvariant, PTL
     DEF Spec, UnaskedPoweroffIsLastDitch

-----------------------------------------------------------------------------
(* The modem.                                                              *)

\* Every edge of definition.go that aborts a transition switches the modem back
\* on (enableModem, service.go).
LEMMA ModemOfHandler ==
    ASSUME WakeInv, PathMatchesTarget, TypeInv, HandleEvent,
           fsmState # "running", fsmState' = "running", modemDisabled'
    PROVE  \/ Ev.id \in {"explicit-hibernate"} \cup WakeupIds
           \/ target = "reboot" /\ Ev.id \in {"power-hibernate", "power-hibernate-for"}
<1>t. modemDisabled \in BOOLEAN /\ fsmState \in States
  BY DEF TypeInv, TypeOK, FsmTypeOK, DataTypeOK
<1>g. \A s : Goto(s) => fsmState' = s
  BY DEF Goto
<1>1. CASE LowPowerCancelled \/ LastDitchCancelled
  <2>1. modemDisabled' = FALSE
    BY <1>1 DEF LowPowerCancelled, LastDitchCancelled, OnLowPowerCancelled,
                OnLastDitchDisabled
  <2> QED
    BY <2>1
<1>2. CASE PreSuspendElapsed \/ ImminentElapsed \/ InhibitorsGone \/ ModemWaitElapsed
           \/ LateInhibitor \/ OnlyModemLeft
  BY <1>2, <1>g DEF PreSuspendElapsed, ImminentElapsed, InhibitorsGone,
                    ModemWaitElapsed, LateInhibitor, OnlyModemLeft, AdvanceTo
<1>3. CASE RunCommanded
  <2>1. queue # << >> /\ Ev.id = "power-run" /\ StorePowerCommand(Ev)
    BY <1>3 DEF RunCommanded, GPowerRun, On, OnPowerCommand
  <2>2. Ev.target = "run"
    BY <2>1, HeadType DEF Events, WellFormed
  <2> QED
    BY <2>1, <2>2 DEF StorePowerCommand
<1>4. CASE EnterOnCommand
  BY <1>4, <1>g DEF EnterOnCommand
\* Only a reboot is issued outside stand-by, where a hibernate command cannot
\* replace it at once.
<1>5. CASE StoreCommand
  <2>1. /\ fsmState = "issuing-low-power" /\ queue # << >>
        /\ Ev.id \in {"power-hibernate", "power-hibernate-for"}
        /\ ~CanEnterLowPowerState(Ev.target, vehicle)
    BY <1>5 DEF StoreCommand, GStoredCommand, On, UpgradeIds
  <2>2. Ev.target \in {"hibernate", "hibernate-for"}
    BY <2>1, HeadType DEF Events, WellFormed, PowerCommandIds, CommandTarget
  <2>3. vehicle # "stand-by"
    BY <2>1, <2>2 DEF CanEnterLowPowerState
  <2>4. fsmState \in LowPowerStates
    BY <2>1 DEF LowPowerStates, States
  <2> QED
    BY <2>1, <2>3, <2>4 DEF PathMatchesTarget
<1>6. CASE AcceptExplicitHibernate \/ DropEvent
  BY <1>6 DEF AcceptExplicitHibernate, DropEvent
<1>7. CASE RecordExplicitHibernate \/ RejectExplicitHibernate
  BY <1>7 DEF RecordExplicitHibernate, RejectExplicitHibernate, TypeInv, AcceptHasEvent
<1>8. CASE OnHibernatePreparationFailed \/ VehicleChangedInRunning
           \/ BatteryBecameInactive \/ OnDefaultStateChanged
  BY <1>8 DEF OnHibernatePreparationFailed, VehicleChangedInRunning,
     BatteryBecameInactive, OnDefaultStateChanged, GPreparationFailed, GVehicleChanged,
     GBatteryInactive, GDefaultState, On
<1>9. CASE OnVehicleLeftLowPowerState
  BY <1>9 DEF OnVehicleLeftLowPowerState
<1>10. CASE BatteryBecameActive
  BY <1>10 DEF BatteryBecameActive, GBatteryActive, On, WakeInv
<1>11. CASE OnLastDitchDefaultStateChanged \/ OnLastDitchTriggered \/ OnLastDitchWakeup
  BY <1>11, <1>g DEF OnLastDitchDefaultStateChanged, OnLastDitchTriggered,
                     OnLastDitchWakeup
<1>12. CASE OnWakeup
  BY <1>12 DEF OnWakeup, GWakeup, On
<1> QED
  BY <1>1, <1>2, <1>3, <1>4, <1>5, <1>6, <1>7, <1>8, <1>9, <1>10, <1>11, <1>12
     DEF HandleEvent

\* Every abort of a transition gives back the modem that was switched off for
\* it (service.go, enableModem), in whatever state and by whatever event it is
\* aborted: the exceptions are a takeover by an explicit request, a wakeup, and
\* a hibernate command that takes over from a reboot.
THEOREM ModemRestoredHolds ==
    ASSUME "reboot" \notin DefaultStates
    PROVE  Spec => ModemRestored
<1>1. TypeInv /\ WakeInv /\ PathMatchesTarget /\ [Next]_vars =>
        [fsmState # "running" /\ fsmState' = "running" /\ modemDisabled' =>
           \/ Ev.id \in {"explicit-hibernate"} \cup WakeupIds
           \/ /\ target = "reboot"
              /\ Ev.id \in {"power-hibernate", "power-hibernate-for"}]_vars
  <2> SUFFICES ASSUME TypeInv, WakeInv, PathMatchesTarget, Next,
                      fsmState # "running", fsmState' = "running", modemDisabled'
               PROVE  \/ Ev.id \in {"explicit-hibernate"} \cup WakeupIds
                      \/ /\ target = "reboot"
                         /\ Ev.id \in {"power-hibernate", "power-hibernate-for"}
    BY DEF vars, fsmVars
  <2>1. ~(SendEvent \/ Nrf \/ World)
    BY EnvironmentFrame
  <2>2. ~(EnterState \/ Resume)
    BY EntryFrame DEF stepUnchanged
  <2> QED
    BY <2>1, <2>2, ModemOfHandler DEF Next
<1> QED
  BY <1>1, TypeInvariant, WakeInvariant, PathMatchesTargetHolds, PTL
     DEF Spec, ModemRestored
=============================================================================
