---------------------------- MODULE PowerProperties ----------------------------
(***************************************************************************)
(* What pm-service's power FSM promises, and the claims of its comments    *)
(* and README that the code does not keep.                                 *)
(***************************************************************************)
EXTENDS PowerManager

FsmTypeOK ==
    /\ fsmState \in States /\ phase \in Phases /\ stateTimer \in BOOLEAN
    /\ delayInhibitor \in {"held", "removing", "none"}
    /\ hibernationTimer \in BOOLEAN

QueueTypeOK == queue \in Seq(Events)

DataTypeOK ==
    /\ target \in Targets /\ vehicle \in VehicleStates
    /\ requestID \in Nat /\ wakeSeconds \in Nat
    /\ automatic \in BOOLEAN /\ fallback \in Targets \cup {"none"}
    /\ modemDisabled \in BOOLEAN

WakeTypeOK ==
    /\ wakeTimerArmed \in BOOLEAN /\ wakeTimerAcks \in SUBSET Nat
    /\ wakeTimerSeconds \in Nat /\ armRequest \in SUBSET Nat
    /\ nrfTimer \in Nat /\ nrfEcho \in SUBSET Nat

RequestTypeOK == preparationTimer \in Nat /\ lastRequestID \in Nat

SettingTypeOK ==
    /\ defaultState \in DefaultStates /\ lastDitchEnabled \in BOOLEAN
    /\ suspendWhenOnline \in BOOLEAN /\ bootGrace \in BOOLEAN

WorldTypeOK ==
    /\ liveVehicle \in VehicleStates /\ liveBattery \in BatterySituations
    /\ reserveLow \in BOOLEAN /\ remoteAccess \in BOOLEAN
    /\ inhibitors \in SUBSET InhibitorKinds
    /\ quiesceAcks \in BOOLEAN /\ announced \in BOOLEAN
    /\ power \in {"on", "asleep", "off", "rebooting"}
    /\ standbySeen \in BOOLEAN /\ unseen \in SUBSET Watched
    /\ late \in SUBSET (Watched \cup {"remote-access"})
    /\ inputs \in Nat

\* The value of every variable, as the Go types and the channels' sizes allow;
\* every event in the queue carries the payload its handlers rely on.
TypeOK ==
    /\ FsmTypeOK /\ QueueTypeOK /\ DataTypeOK /\ WakeTypeOK
    /\ RequestTypeOK /\ SettingTypeOK /\ WorldTypeOK

\* Between guard and action of an explicit request, its event is still at the
\* head of the queue.
AcceptHasEvent ==
    phase = "accept" => queue # << >> /\ Ev.id = "explicit-hibernate"

-----------------------------------------------------------------------------
(* Safety.                                                                 *)

\* The FSM is in a low-power state only with a target to go there for and, as
\* far as the events it has handled tell, in stand-by (a reboot: shutting down
\* will do), and the state fits the target: the suspend countdowns are never
\* run for a poweroff, nor the hibernate countdown for a suspend.
PathMatchesTarget ==
    /\ fsmState \in LowPowerStates =>
         /\ target # "run"
         /\ vehicle = "stand-by" \/ (target = "reboot" /\ vehicle = "shutting-down")
    /\ fsmState \in {"pre-suspend", "suspend-imminent"} => target = "suspend"
    /\ fsmState = "low-power-imminent" => target \in HibernatePath

\* A wake duration is only published while the timed hibernation it was asked
\* for is on its way, and only believed armed from then on: no abort, cancel or
\* replacement leaves the nRF set to wake a scooter that is not hibernating.
WakeTimerBelongsToTarget ==
    /\ wakeTimerSeconds > 0 =>
         /\ fsmState \in EntryStates
         /\ target = "hibernate-for" /\ wakeSeconds > 0
    /\ wakeTimerArmed => fsmState \in EntryStates /\ target = "hibernate-for"

\* A transition marked as automatic is the last-ditch hibernation and nothing
\* else, on the hibernate path and with a fallback to return to:
\* recovery of the reserve cancels it without cancelling what a user
\* asked for.  (A rejected explicit request may leave the mark on "run".)
AutomaticProvenance ==
    /\ automatic => target \in {"run", "hibernate"} /\ fallback # "none"
    /\ automatic /\ fsmState # "running" =>
         target = "hibernate" /\ fsmState \in EntryStates

\* Whatever replaces the stored target also ends the request it came from: an
\* outstanding request is always one for the current target (while
\* pm.default-state stays as it is).
RequestKeepsItsTarget == requestID # 0 => target \in ExplicitTargets

InQueue(e) == \E i \in DOMAIN queue : queue[i] = e

\* An accepted request is never stranded in running: while it waits for the
\* vehicle, its timeout is running or has been sent, and once the vehicle is in
\* stand-by a vehicle event that starts the countdown is on its way.
NoStrandedRequest ==
    requestID # 0 /\ fsmState = "running" =>
        IF vehicle = "stand-by"
        THEN \E v \in VehicleStates : InQueue(VehicleStateChanged(v))
        ELSE preparationTimer = requestID \/ InQueue(PreparationFailed(requestID))

\* Every abort of a transition gives the modem back: the FSM returns to running
\* with the modem still off only for an explicit request that takes over, on a
\* wakeup (a completed suspend leaves the modem off), or when a hibernate command
\* takes over from a reboot.
ModemRestored ==
    [][fsmState # "running" /\ fsmState' = "running" /\ modemDisabled' =>
         \/ Ev.id \in {"explicit-hibernate"} \cup WakeupIds
         \/ /\ target = "reboot"
            /\ Ev.id \in {"power-hibernate", "power-hibernate-for"}]_vars

\* The board only suspends while the vehicle is in stand-by and no main battery
\* is inserted, unless that changed after the last check, which comes after the
\* wait for the nRF's confirmation.
SuspendIsEligible ==
    [][power = "on" /\ power' = "asleep" =>
         /\ liveVehicle = "stand-by" \/ "vehicle" \in late
         /\ liveBattery = "absent" \/ "battery" \in late]_vars

\* The board is only powered off or rebooted while no block inhibitor is held,
\* unless a client took one after the last check.
PoweroffIsUnblocked ==
    [][power = "on" /\ power' \in {"off", "rebooting"} =>
         Blocking(target) = {} \/ "inhibitors" \in late]_vars

\* Where nobody asks for hibernation, the board is only powered off while the
\* last-ditch condition holds, however often it came and went before.
UnaskedPoweroffIsLastDitch ==
    [][power = "on" /\ power' = "off" /\ target = "hibernate" =>
         IsLastDitchTriggered]_vars

-----------------------------------------------------------------------------
(* Liveness.  The FSM goroutine, its timers and the watchers keep running; *)
(* nothing is assumed of users, the vehicle, the nRF or the resume.        *)

Fairness ==
    /\ WF_vars(HandleEvent)
    /\ WF_vars(EnterState)
    /\ WF_vars(StateTimeout)
    /\ WF_vars(PreparationTimeout)
    /\ \A input \in Watched : WF_vars(Notify(input))

FairSpec == Spec /\ Fairness

\* Every entry into issuing-low-power ends: the board goes down or the FSM
\* leaves the state (as long as systemd takes the command).
IssuingEnds ==
    fsmState = "issuing-low-power" ~>
        (fsmState # "issuing-low-power" \/ power # "on")

\* Every accepted explicit request ends, whatever replaces it: it is dropped,
\* fails or the board goes down (where nobody holds an inhibitor).
RequestEnds == requestID # 0 ~> (requestID = 0 \/ power # "on")

-----------------------------------------------------------------------------
(* Claims that the code does not keep.                                     *)

Handled == Len(queue') < Len(queue)

\* definition.go:439: explicit hibernate intent queued while the issuing entry
\* action was blocked takes over.
ExplicitIntentTakesOver ==
    [][/\ Handled /\ power = "on" /\ phase = "idle"
       /\ fsmState = "issuing-low-power" /\ Ev.id = "explicit-hibernate"
       /\ IsPowerCommandHigherPriority(Ev.target, target)
       /\ ExplicitHibernateAllowed(Ev.target)
       => target' = Ev.target]_vars

\* README.md: an actual power-off requires stand-by.  The claim is excused for
\* a vehicle that moved a moment ago: after the last check, or with its event
\* still on the way to the FSM.
PoweroffRequiresStandby ==
    [][power = "on" /\ power' = "off" =>
         \/ liveVehicle = "stand-by"
         \/ {"vehicle"} \cap (late \cup unseen) # {}
         \/ \E v \in VehicleStates : InQueue(VehicleStateChanged(v))]_vars

\* service.go:1286: the check before the systemd call closes the race with an
\* inhibitor taken after the initial gate.
SuspendIsUnblocked ==
    [][power = "on" /\ power' = "asleep" =>
         inhibitors = {} \/ "inhibitors" \in late]_vars

\* definition.go:369: a modem that does not drop its inhibitor in time does not
\* stall the transition.
ModemWaitIsBounded ==
    (fsmState = "waiting-inhibitors" /\ Blocking(target) \subseteq {"modem"}) ~>
        (fsmState = "running" \/ power # "on")

\* service.go:1241: hibernate-for does not power off without a wake source.
TimedPoweroffWakesUp ==
    [][power = "on" /\ power' = "off" /\ target = "hibernate-for" =>
         nrfTimer = wakeSeconds]_vars
=============================================================================
