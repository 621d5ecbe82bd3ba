# A TLA+ model of librescoot pm-service

pm-service decides when the scooter's Linux board suspends, powers off or
reboots. This directory holds TLA+ modules translated from its Go source, the
TLC runs that check them and TLAPS proofs about them. The order of presentation
is: inventory, modules and how they correspond to the code, runs, proofs, what
is left out, plan.

## 1. Inventory of the system

| Part | State | Operations | Talks to |
|---|---|---|---|
| Power FSM (`internal/fsm`) | current state, event queue (100), timeout of the current state | 24 event kinds, guarded edges tried in declaration order | calls the actions of Service on one goroutine |
| Power actions (`internal/service/service.go`) | `fsmData`: target, vehicle state, request ID, wake seconds, automatic mark and fallback, modem flag; wake-timer and quiesce channels | guards, transition actions, entry actions; `EnterIssuingLowPower` blocks for tens of seconds | Redis (live reads, publishing), inhibitor manager, logind, coordinator |
| Explicit requests (`hibernate_request.go`) | request ID, preparation timer | accept, prepare, time out, be rejected, be interrupted, wait for the wake timer | vehicle-service, bluetooth-service |
| Watchers (`service.go`) | cached battery and reserve values, stand-by flag, boot grace | one callback per Redis field; each sends FSM events | Redis |
| Commands and settings (`service.go`) | default state, last-ditch enabled, suspend-when-online | `scooter:power` commands, `settings` fields | users |
| Inhibitor manager (`internal/inhibitor`) | inhibitors by connection and by Redis ID | register and acknowledge a connection, synchronise with `power:inhibits`, "is target t blocked?" | clients by socket and Redis; busy services to Redis, `inhibitors-changed` to the FSM |
| Auto-hibernation timer (`internal/hibernation/timer.go`) | active, duration, the timer | reset, set value, fire | the FSM |
| Scheduled hibernation (`scheduler.go`) | cron entry, duration, pending wake, two cooldowns, time-sync latch; a marker file | fire, defer, dispatch, catch up, follow a clock jump; five goroutines share one mutex | the FSM, coordinator quality, the clock guard |
| Clock coordinator (`internal/clockcontrol`, own daemon) | one state record, in memory and in a file; samples, quality, the step in flight | submit, refresh, prepare, abort, resume | chrony and its refclocks, pm-service by socket |
| Coordinator client (`clock_coordinator.go`) | the generation of an admitted suspend | recover, prepare, abort, resume | the coordinator |
| systemd client | logind signal channel | suspend and wait for resume, poweroff, reboot | logind |
| Governor, status publishing, mains, config | - | sysfs and Redis writes, flags | - |

What is hard here. One goroutine handles all events, but its guards re-read
Redis and its last entry action blocks on the nRF52 (wake-timer echo,
"suspending" confirmation), on the clock coordinator and on logind, while
watchers, users, timers and inhibitor clients go on changing what was checked
and go on queueing events. Aborts travel through the same queue. Several parties
may each end an explicit request (vehicle, rejection, timeout, newer command).
Notifications are lost while the board sleeps. `PROJECT.json` lists these
hazards line by line, with the properties that would catch them.

What makes the parts correct:

* FSM and actions: a low-power state belongs to its target; a suspend or
  poweroff only happens where the last possible check allows it; every abort
  gets out of the state it aborts, gives the modem back and disarms the nRF.
* Requests: exactly one party ends a request and none waits for ever.
* Last-ditch: an automatic poweroff needs a condition that still holds; user
  intent is never cancelled by the recovery of the reserve.
* Clock coordinator: a clock step and an admitted suspend exclude each other, a
  step is never repeated blindly, evidence and quality describe the present,
  whatever is lost in a crash.
* Scheduler: nothing before the clock is trusted, one hibernation for an
  occurrence, none right after a scheduled wake. (That a deferred target is dropped
  once its wake-by time has passed is a promise the code does not keep, section 3.)
* Inhibitors: an acknowledged client blocks, mirror and busy services follow what
  is held (with gaps, section 3), and the FSM never misses the release it waits for.
* Timer: a restarted timer does not fire early (not modelled, section 5).

## 2. The modules

| Module | What it is |
|---|---|
| `PowerTypes` | states, targets and events of `types.go`, the priority of targets |
| `PowerManager` | the power FSM, its actions, the goroutines around them and the world |
| `PowerProperties` | its properties |
| `PowerManagerProofs`, `PowerSafetyProofs`, `PowerRequestProofs` | its theorems: types and provenance; wake timer, targets and the last checks; what depends on the queue, and the modem |
| `ClockEngine` | the engine of the clock coordinator, chrony, crashes and reboots |
| `ClockCoordinator` | the engine composed with pm-service's side of the protocol; its properties |
| `ClockProofs` | their theorems, the refinement included |
| `SuspendHandshake` | abstract: what the coordinator promises to a suspend; `ClockCoordinator` implements it |
| `Scheduler`, `SchedulerProofs` | scheduled hibernation, the clock guard, the marker; its properties and theorems |
| `Inhibitors`, `InhibitorProofs` | the inhibitor manager, its Redis mirror and the waiting state of the FSM; its properties and theorems |
| `InhibitorGate` | abstract: what the inhibitors promise to the FSM; `Inhibitors` implements it |
| `MCPowerManager`, `MCClockCoordinator`, `MCScheduler`, `MCInhibitors` | what TLC runs |

`PowerManager` treats its neighbours as inputs; the later modules show what is
behind those inputs. Its phases `prepare` to `resume` are the stages of `pm` in
`ClockCoordinator`; its `ScheduledHibernate` at any time is `Send` of
`Scheduler`; its inhibitors that change and are notified later are
`Inhibitors`, where each change is followed by its event. The FSM is in turn
reduced there to whether it waits.

## 2a. PowerManager

### State

| TLA+ | Go |
|---|---|
| `fsmState`, `queue`, `stateTimer` | librefsm's machine, its event channel, `WithTimeout` |
| `phase` | the program counter of the FSM goroutine inside a step |
| `target`, `vehicle`, `requestID`, `wakeSeconds`, `automatic`, `fallback`, `modemDisabled` | the fields of `fsm.FSMData` |
| `wakeTimerArmed`, `wakeTimerAcks`, `quiesceAcks` | fields of `Service`; the size-1 channels as a set and a flag |
| `preparationTimer`, `hibernationTimer`, `delayInhibitor` | the timers and the delay inhibitor with its scheduled removal |
| `standbySeen` | `lastDitchVehicleStandby` |
| `defaultState`, `lastDitchEnabled`, `suspendWhenOnline`, `bootGrace` | settings, and whether `lastDitchGraceUntil` lies ahead |
| `liveVehicle`, `liveBattery`, `reserveLow`, `remoteAccess`, `inhibitors`, `wakeTimerSeconds` | what Redis and the inhibitor manager hold now |
| `armRequest`, `nrfTimer`, `nrfEcho`, `announced` | values on their way to and from the nRF52 (external) |
| `power` | whether the board runs |
| `unseen` | inputs that changed and whose watcher has not been called yet |
| `late` | history: what changed after the last check of it; read by properties only |
| `inputs` | how many inputs may still happen (a bound) |

### Steps

An event is handled in one step: guard, action and the change of state. The edges
of `NewDefinition` that share an action are one TLA+ action (`RunCommanded` is
the `EvPowerRun` edge of every state); its guard has a name of its own (`GPowerRun`), and
`DropEvent` is the case where no guard holds. The order of declaration is
written into the guards: the cancel edges come first, so the advancing guards
contain `~ShouldCancelLowPower`; the last-ditch wake edges come before the
normal ones, so `GWakeup` contains `~GLastDitchWakeup`.

Two things are split further because the code reads shared state twice or
blocks in between:

* an explicit request is accepted by a guard and recorded by an action that
  reads vehicle state and inhibitors again (`phase = "accept"`);
* an entry action is a step after its transition (`phase = "enter"`), and
  `EnterIssuingLowPower` is cut at its blocking points: wake-timer
  acknowledgement (`wake-ack`), inhibitor check (`gate`), nRF confirmation
  (`quiesce`), last check (`commit`), coordinator (`prepare`), logind (`sleep`,
  `asleep`, `resume`), poweroff (`final`).

The others are one action per goroutine: timeouts, the removal of the delay
inhibitor, watchers (`Notify`), commands, settings, the nRF and the inputs.
A change of live state and its notification are separate steps, so guards may
see a value long before its event arrives, and `Resume` may lose notifications
other than those of the inhibitor manager, which lives in the same process.

### librefsm

librefsm is a library outside the repository, modelled from how it is used:
events are taken one at a time in the order sent; the first edge whose guards
hold is taken, in declaration order; without one the event is dropped; a
self-transition leaves and re-enters the state and restarts its timeout; leaving
a state stops its timeout, but a timeout event already queued stays queued; an
error of an entry action is logged and nothing more.

### Abstractions

* The two battery slots are one value: absent, empty, charged, or active. Presence,
  charge and state of a battery change together and are notified together. That one
  slot becomes inactive while the other is still active, which enables the modem for a
  suspend, is a choice in `BatteryBecameInactive`.
* The last check before a poweroff or reboot and the call of systemd are one step
  (`IssueCommand`). An inhibitor taken between them is one taken after the earlier
  check of the inhibitors, which `late` records; a reserve that recovers in
  between comes too late for the code and is left out.
* `hibernate` stands for `hibernate` and `hibernate-manual`, which the code
  treats alike. Durations are what is left after clamping to the maximum.
* The reserve is one Boolean: thresholds, the Schmitt latch and unknown values
  are left out. The last-ditch guard re-reads Redis first, so the
  cached copies are taken to equal the live values.
* The auto-hibernation timer may fire whenever it is active, and the schedule at
  any time (the scheduler itself only fires in stand-by): both allow more than
  the code.
* Request IDs are drawn from a counter instead of at random.
* Failed Redis reads and writes and failed pushes to the modem are not modelled.
* Left out because nothing reads it: `LowPowerStateIssued`, the published FSM
  and hibernate status, `fsmData.BatteryState` (the guards read Redis).
* Dry-run, `StateSuspended` (unreachable) and `EvPowerHibernateManual` (never
  sent) are left out.

## 2b. ClockEngine and ClockCoordinator

`mem` and `disk` are the engine's state record and the file; `persist` replaces
the file atomically, and a failure after the rename is reported although the new
file is in place (`SaveFails`). `busy` says who holds `Engine.mu` across a save: refresh
between the admission of a step and the start of chronyc, Submit between the
invalidation of old evidence, the delivery to chrony and the new record. A crash
may come at each of these points. `inFlight` is the goroutine that waits for
makestep, `makestep` what chrony does, which outlives the daemon and may outlast
the three seconds the engine waits. `calls` are the requests being served, one
per handler; `pm` and `token` the client.

* Deadlines and the ten seconds after which an unknown step is reconciled
  are events that may come at any time. A tracking result is its source and whether the
  residual is settled, near, far or vague. A result that fails, is invalid, is
  too old or lies before a resume (`ExternalAfterBoot`) counts as none.
* `refresh` reads the generation, asks chrony without the lock and then applies
  the answer: `RefreshApplies(o, g)` is the second half with the generation of the
  first, any generation up to now. `RefreshSteps` are the states it saves one
  after the other; `RefreshFails` stops at the save that fails. A crash between two
  saves of one refresh is reached as a save that fails and a crash after it.
* A deadline closes in memory and file at once, also where a failed save has left
  different episodes in them.
* `Prepare` is cut where it lets go of the lock; its timeout and the release by the
  goroutine of the step may both be ready.
* A client that crashed or timed out leaves its request behind
  (`awaited = FALSE`), and it is served all the same. After a crash of the daemon the
  client may also ask again where the code returns the error: more behaviours, and
  the properties hold of all of them.
* Chrony: a step it has been given is over ten seconds after the dispatch
  (`DispatchSettles`). The engine relies on this when it reconciles.
* `spent` and `disturbed` are history: which episodes have stepped the clock, and
  whether a request that nobody waits for has changed the fence.
* Left out: a clock that cannot be read, requests that do not parse, the lock
  file, the parsing of chronyc's output, the encoding of a SOCK sample.

## 2c. Scheduler

The wall clock is known by its phase: before the first occurrence, between
occurrence k and its wake-by time, between that and the next occurrence. The
monotonic clock is known by whether a cooldown is over. `thread` says where the
cron job, the vehicle watcher, the clock poll and the monitor are;
`catchUpMissed` is two steps (`CatchUpReads`, `CatchUpActs`), because it reads
under the lock and acts after it. A target of `fire` carries Go's monotonic reading and is
compared by it; one of `catchUpMissed` is a wall-clock reading. Once the wall
clock has stepped, a comparison of the former may say anything (`adrift`). A job that
fires late, after a step, adds the duration to the time it finds: its target lies
somewhere behind the wake-by time of the occurrence (basis `late`).

The clock steps forward or back (`WallSteps`), which the monitor sees as a jump, or
becomes right by a slew or a step below the threshold, which it does not
(`WallSlews`). A step forward may come while the cron job is about to fire; a step
back at that very point is left out.

`history` marks what the code gets wrong, so that the properties hold
for the rest and the gap is visible in one place: `overtaken` (an occurrence acted on
between the halves of a catch-up, or deferred by one, which does not set
`lastFired`, or one the wall clock went back over) and `stuck` (a retained target
whose retry no forward jump will start). Minutes pass only when no goroutine is
under way (`Quiet`). Seconds, caps and schedules whose wake-by time lies after
the next occurrence are left out.

## 2d. Inhibitors

`handler` and `client` are the two ends of a connection, `inhibitors` and `manual`
what the manager holds, `listener` and `hash` the mirror of `power:inhibits` and
the hash itself, which its writers change before they publish. `note` is where
each caller of `onInhibitorsChanged` is: the change under the mutex, the snapshot
for the busy services, their publication and the event are four separate
steps. A client may go away with its acknowledgement still unread; the handler then
registers, acknowledges and unregisters, and calls `onInhibitorsChanged` twice.
A failed call of Redis is logged and not repeated, as in the code.
The FSM's queue is known by whether `inhibitors-changed` is in it.
The service's own delay inhibitor blocks nothing and stays in
`PowerManager`; so does the timeout past the modem.

## 3. Runs

The runs of `PowerManager` are bounded by `MaxInputs`, the number of inputs (commands, vehicle and
battery changes, inhibitors, settings, rejections) in a behaviour, and by the
kinds of input each cfg admits. Timeouts, notifications, the nRF and the
resume are not counted and may happen whenever the code allows. A run starts with any
of its vehicle states and with the default state already wanting a suspend, so two
inputs are one that starts or replaces a transition and one that disturbs it, in
every order. The end of the boot grace counts as an input, and a behaviour may start
with the grace over. Longer sequences are what the theorems of section 4 are for;
narrower instances with three inputs (suspend and run; hibernation without batteries;
for liveness timed hibernation, two vehicle states, rejection and refused suspends)
have been explored exhaustively as well, with the same result. Deadlock is not
checked: the board may be off or rebooting, and with an exhausted input bound a
scooter that runs has nothing to do.

| Run | What is explored | Properties | Distinct states |
|---|---|---|---|
| `transitions` | suspend and run commands, the schedule, the last-ditch reserve with its setting and boot grace, two default states, vehicle, battery, modem and block inhibitors, remote access, refused suspends and poweroffs; 2 inputs | `PathMatchesTarget`, `AutomaticProvenance`, `ModemRestored`, `SuspendIsEligible`, `PoweroffIsUnblocked`, `UnaskedPoweroffIsLastDitch` | 1.8 million |
| `requests` | all hibernation and reboot commands, schedule, timer, rejection, cancel, all vehicle states, refused suspends; 2 inputs; fair | `TypeOK`, `WakeTimerBelongsToTarget`, `RequestKeepsItsTarget`, `NoStrandedRequest`, `IssuingEnds`, `RequestEnds` | 0.57 million |
| `clock` | two handlers, NTP and nRF time, two generations, two boots, and one fault (failed save, crash of either daemon, reboot, timed-out call) | `TypeOK`, `EvidenceIsDelivered`, `QualityIsCurrent`, `PreparationIsReturned`, `FencesSteps`, `SuspendIsFenced`, `OneStepPerEpisode` | 0.35 million |
| `schedule` | two occurrences, one change of a setting, one step of the wall clock, one restart; fair | `TypeOK`, `GateHolds`, `OncePerOccurrence`, `NoHibernateLoop`, `DeferralIsWanted`, `RetainedIsDispatched` | 0.64 million |
| `inhibitors` | one connection, one field of the hash that changes twice, one failed call of Redis; fair | `TypeOK`, `ProtectedWorkBlocks`, `MirrorTracksFields`, `BusyServicesAreCurrent`, `GatesTheFSM` | 1.0 million |

What they show:

* `PathMatchesTarget`: no interleaving of commands and events leaves the FSM in a
  low-power state without a target for it, or on the countdown of another kind.
  (It fails in one corner: the default state is set to `reboot` and back to
  another value while the vehicle shuts down; the vehicle event then enters the
  countdown for the reboot and resets the target to the new default in the same
  transition. The run has no such default state and the theorem excludes it.)
* `ModemRestored`: every abort of a transition gives the modem back. It is a
  property of the steps into running, with its exceptions in the formula: an
  explicit request takes over (and leaves the modem off even if it then fails), a
  wakeup (a completed suspend means to leave the modem off), or the command
  hibernate-auto or a scheduled hibernation replaces a reboot. One of the wakeups is not meant: a
  wakeup that is handled late. With `run`, `suspend` and a stale countdown timeout
  queued ahead of it, the FSM is in issuing-low-power of the *next* round when it
  takes the wakeup; if a late inhibitor has just interrupted that round and a
  battery was inserted, the wakeup leads to running with the modem off that
  this round switched off. It takes eleven inputs, more than the run explores; a
  scripted behaviour of the model confirms it, which is why "running means modem
  on" is not stated as an invariant.
* `SuspendIsEligible` and `PoweroffIsUnblocked`: a board only goes down if the
  last check found vehicle and battery (suspend) or the inhibitors (poweroff)
  in order. A change between that check and the call cannot be seen by
  the code; `late` is what excuses it.
* `WakeTimerBelongsToTarget`: the nRF is never left with the duration of a
  hibernation that was cancelled, replaced or failed.
* `RequestKeepsItsTarget`, `NoStrandedRequest`, `RequestEnds`: a request lives as
  long as its target, and always has something that will end it.
* `AutomaticProvenance`, `UnaskedPoweroffIsLastDitch`: recovery cancels the
  emergency hibernation and nothing else, and does cancel it up to the last read.
* `IssuingEnds`: no abort strands the FSM. (The run `requests` leaves out a refused
  poweroff, after which the code does stay in issuing-low-power.)

* `FencesSteps` is the refinement of `SuspendHandshake`, with a fence that counts
  once the baseline is recorded: no step starts or runs while a suspend is
  admitted, and there is one at a time. `SuspendIsFenced` says that the admission still
  stands when the board goes down, unless an abandoned request took it back:
  nothing in the protocol says whose preparation an abort ends.
* `OneStepPerEpisode`: neither a crash nor a failed save gives a spent episode its
  budget back. `EvidenceIsDelivered`, `QualityIsCurrent`: what the engine believes
  of a sample or of the clock is never of an earlier delivery or generation.
* `GateHolds` also shows that the branch of `SetTimeSynced` that drops a pending
  target never has one. `OncePerOccurrence` and `RetainedIsDispatched` hold outside
  the gaps `overtaken` and `stuck` of section 2c; the second is about the retry
  after a forward jump only. When the clock is accepted again by a poll or a slew,
  nothing retries a retained target, although `scheduler.go:552` calls
  `dispatchPending` the retry after a correction.
* `GatesTheFSM` is the refinement of `InhibitorGate` with its liveness:
  the check on entry and the notifications together miss no release.
* `MirrorTracksFields`: whatever changes while the hash is read and applied, in the end
  the mirror has the fields that parse and no others, if the last publication found
  the subscription in place and the last read succeeded. It compares presence; types
  are the subject of `inhibit-type`. The gap between the first read of the hash
  and the subscription (`redis.go:28-30`) is real: without the condition (`missed`)
  TLC finds a published change that is never mirrored.
* `BusyServicesAreCurrent`: every change, removals included, is followed by a
  publication of what is held, unless the last publication failed or was overtaken
  by one with a later reading. That too is real: without the condition (`lags`) TLC finds an
  older snapshot left in Redis, because it is taken under the manager's
  lock and written after it (`service.go:1998-2008`).

Bounds of the last three. One fault is enough for what a fault breaks, since each
property is about one interrupted sequence; two generations allow a
resume and the observations that straddle it (no suspend begins in the last
generation); two handlers allow an abandoned request beside a new one. The late
episode of a network holdover needs a third source and is not reached.
Two occurrences let one be handled while the next is missed. One connection,
one field and the listener are the two callers whose publications cross.
Deadlock is not checked where a bound may leave nothing to do.
Random simulation of the same specifications with larger bounds (four faults,
four generations and all sources; four occurrences and three clock steps; two
connections, two fields and every value) met no violation of their invariants, nor of
the action properties of the clock and the schedule.

Seven runs show where the code does not do what its comments or its README say;
each is a finding in `PROJECT.json`:

* `explicit-intent`: an explicit request that arrives while issuing-low-power
  blocks is dropped, although the comment above the command edges of that
  state says it takes over. Explicit requests use an event with no such edge.
* `poweroff-standby`: a vehicle event dropped in issuing-low-power leaves
  `fsmData.VehicleState` at stand-by, and the next hibernation powers off a
  parked scooter. The README says entry is guarded by live vehicle state.
* `suspend-unblocked`: the check that "closes the race" with a late inhibitor
  stands before the longest wait on the suspend path.
* `modem-wait`: the timeout that is to proceed past the modem's inhibitor is
  undone by the late check, which counts that inhibitor; the FSM oscillates.
* `timed-poweroff`: `hibernate-cancel` disarms the nRF immediately, its
  run event waits behind the poweroff.
* `deferred-wake` (one occurrence, one clock step): the wall clock jumps over the
  wake-by time of a deferred target. Target and clock are compared by their monotonic
  readings, so the monitor, which is to re-evaluate the target after a jump,
  keeps it, and it is sent when the vehicle enters stand-by.
* `inhibit-type` (one field, one change, no failure): a field that is rewritten from
  `suspend-only` to a block keeps its old type in the mirror, and hibernation stays
  unblocked; the comment calls Redis authoritative.

### Fairness

`FairSpec` assumes weak fairness of handling events, of entry actions, of the
state timeout, of the preparation timeout and of each watcher: the goroutines
and timers of one running process, each of which is scheduled whenever it
can go on. Waiting for the nRF ends by answer or timeout, both of which are in `EnterState`.
Nothing is assumed of users, vehicle, nRF, inhibitor clients or of the resume
from sleep. `Scheduler` assumes weak fairness of goroutines that are under way
and of the monitor's tick; `Inhibitors` of the calls of `onInhibitorsChanged`
and of the FSM's taking of events. `ClockCoordinator` has safety properties only.

## 4. Proofs

TLAPS proves the following for every value of the constants: any number of
inputs, faults, generations, boots, occurrences, clock steps and restarts, any
set of commands, durations, connections, hash fields and request handlers that
satisfies the named assumptions. These are `DefaultStatesAssumption` (a
non-empty set of values `isValidDefaultState` accepts), `ConstantsAssumption`,
`SourcesAssumption`, `BoundsAssumption`, `ScheduleAssumption` and
`InhibitorAssumption` (the constants are of their kinds, "redis" is not a
connection) and `HandlersAssumption` (the coordinator serves at least one request at a
time, `server.go:31`; only `PreparationTheorem` uses it).

Power FSM (`PowerManagerProofs`, `PowerSafetyProofs`, `PowerRequestProofs`):

| Theorem | Statement | Extra assumption |
|---|---|---|
| `TypeCorrect` | `Spec => []TypeOK` | |
| `AutomaticProvenanceHolds` | `Spec => []AutomaticProvenance` | |
| `WakeTimerBelongsToTargetHolds` | `Spec => []WakeTimerBelongsToTarget` | |
| `RequestKeepsItsTargetHolds` | `Spec => []RequestKeepsItsTarget` | the default state does not change |
| `PathMatchesTargetHolds` | `Spec => []PathMatchesTarget` | reboot is not a default state |
| `PoweroffIsUnblockedHolds` | `Spec => PoweroffIsUnblocked` | |
| `SuspendIsEligibleHolds` | `Spec => SuspendIsEligible` | |
| `NoStrandedRequestHolds` | `Spec => []NoStrandedRequest` | the default state does not change |
| `UnaskedPoweroffIsLastDitchHolds` | `Spec => UnaskedPoweroffIsLastDitch` | neither the command hibernate-auto nor a default state asks for hibernation |
| `ModemRestoredHolds` | `Spec => ModemRestored` | reboot is not a default state |

The extra assumptions are conditions under which the code keeps the property, not
conveniences of the proof: a changed default state replaces the target
of a request and not the request, a reboot as default state is the corner described in
section 3, and where somebody asks for hibernation a poweroff need not be the
last-ditch one.

* `TypeInv` adds to `TypeOK` that the event of an explicit request is still at the
  head of the queue between guard and action; without it the action might
  store the target of another event. `TypeOK` itself says that queued events carry the
  payload their handlers rely on, which is where the zero-duration guards of the
  command handler and of the schedule matter.
* `WakeInv` adds to `WakeTimerBelongsToTarget` which states a timed hibernation
  can be in: the suspend countdowns have the target suspend; past the countdown of a timed
  hibernation the vehicle is in stand-by; and the acknowledgement wait is only
  entered in issuing-low-power. This is what shows that no edge replaces the target
  without going through `clearHibernateRequest`.
* `PathInv` adds that a reboot waits in running only while the vehicle is in use,
  and that no last-ditch hibernation falls back to a reboot.
* `CommitInv` says what the last check established for the phases after it,
  unless `late` records a change; both action properties follow from it, and only
  the two actions that take the board down matter.
* `StrandedInv` adds to `NoStrandedRequest` that past running the vehicle of an
  outstanding request is in stand-by, so that a stale wakeup sends the request
  into its countdown again and not back to running. The argument is about the
  queue: nothing leaves it but the event handled (`HandlerTakes`, `EntryGrows`,
  `EnvironmentGrows`, `Waits`), neither event a request waits for is ever dropped
  in running, and a preparation timeout that stops has sent its event.
* `UnaskedInv` says that hibernation is the target of automatic transitions only,
  that none falls back to it, and that no queued event asks for it; the
  re-check before poweroff does the rest.
* `ModemRestored` follows edge by edge; the battery edge needs `WakeInv` (its
  action gives the modem back for the target suspend only) and the stored
  command needs `PathMatchesTarget`.

Clock coordinator (`ClockProofs`):

| Theorem | Statement |
|---|---|
| `EngineInvariant`, `ClientInvariants` | the two inductive invariants |
| `TypeCorrect` | `Spec => []TypeOK` |
| `EvidenceTheorem` | `Spec => []EvidenceIsDelivered` |
| `QualityTheorem` | `Spec => []QualityIsCurrent` |
| `HandshakeTheorem` | `Spec => FencesSteps`: it implements `SuspendHandshake` |
| `OneStepTheorem` | `Spec => OneStepPerEpisode` |
| `SuspendTheorem` | `Spec => SuspendIsFenced` |
| `PreparationTheorem` | `Spec => []PreparationIsReturned` |

* `EngineInv` says the same of the record in memory and of the one in the file
  (`Sound`), because a crash replaces the first by the second at any step and a
  failed save may leave either version: evidence is of the last delivery, a fence that counts excludes
  an unresolved outcome, an episode that may still step has not. `StepInv`
  ties chrony to both: a makestep that runs is less than ten seconds old and unresolved
  in both records. `DispatchInv` and `SendInv` say what holds while the lock is kept across
  a save. From it the refinement follows step by step.
* `ClientInv` (one awaited request), `AdmissionInv` (the admission stands until
  an abandoned request disturbs it) and `SequenceInv` (where nothing failed, the
  fence is where the suspend sequence is) relate pm-service to the engine.

Scheduler (`SchedulerProofs`):

| Theorem | Statement |
|---|---|
| `ScheduleInvariant` | the inductive invariant `SInv` |
| `ScheduleTypeTheorem` | `Spec => []TypeOK` |
| `GateTheorem` | `Spec => []GateHolds` |
| `NoLoopTheorem` | `Spec => []NoHibernateLoop` |
| `OnceTheorem` | `Spec => []OncePerOccurrence` |
| `DeferralTheorem` | `Spec => DeferralIsWanted` |

* `SpentInv` is the heart: an occurrence that was sent, is being sent or waits for
  stand-by, and was not overtaken, lies at or behind the wall clock and
  `lastFired`, before the cron entry once the cooldown is over, and before every catch-up
  under way. `OnceInv` and `PendingInv` add that it is used in one way only. Without
  the clause about catch-ups under way two goroutines could act on one occurrence.
* `CalmInv` says that a closed gate and the cooldown after a scheduled wake leave nothing
  under way, and that the marker outlives what was sent.

Inhibitors (`InhibitorProofs`):

| Theorem | Statement |
|---|---|
| `InhibitorInvariant` | the inductive invariant `IInv` |
| `InhibitorTypeTheorem` | `Spec => []TypeOK` |
| `ProtectedWorkTheorem` | `Spec => []ProtectedWorkBlocks` |
| `MirrorTheorem` | `Spec => []MirrorTracksFields` |
| `BusyServicesTheorem` | `Spec => []BusyServicesAreCurrent` |
| `GateTheorem` | `Spec => Gate!Init /\ [][Gate!Next]_(Gate!vars)`: the safety half of `GatesTheFSM` |

* `ConnInv` ties acknowledgement to registration, `MirrorInv` says what a read of the
  hash is worth while no publication is owed or waiting, `AnnounceInv` that the
  caller that read last holds the truth until it publishes, unless that publication
  failed or was overtaken.

Only model-checked: liveness, which is outside the reach of the prover
(`IssuingEnds`, `RequestEnds`, `RetainedIsDispatched`, the liveness half of
`GatesTheFSM`), and the claims the code does not keep. Every invariant
and every action property of a passing run is proved.

## 5. Not modelled

* The auto-hibernation timer beyond "active, and may expire": in
  `PowerManager` it may expire at any time, which includes the early expiry a
  restarted timer is exposed to. A property about its duration would need
  a model of its own.
* The telemetry behind the last-ditch condition: Schmitt latch, unknown values,
  cached copies.
* A restart of pm-service in the middle of a power transition. It is modelled
  where the state outlives the process: the coordinator's fence and the
  schedule's marker.
* A suspend that logind starts after pm-service gave it up.
* The end of the process (`Close` of manager and scheduler), the governor,
  the publishing of status, flags and configuration, the parsing of chronyc's
  output and the encoding of refclock samples: I/O without decisions that the
  properties tell apart.

`PROJECT.json` gives the reason part by part, and the hazards without a property.

## 6. Plan

1. `PowerTypes`, `PowerManager`, `PowerProperties` and their proofs: done.
2. `ClockEngine`, `ClockCoordinator`, `SuspendHandshake` and their proofs: done.
3. `Scheduler`, `Inhibitors`, `InhibitorGate` and their proofs: done.
4. Open: what a changing default state still guarantees for an outstanding
   request (`RequestKeepsItsTarget` and `NoStrandedRequest` assume a constant
   one), and theorems that tie `PowerManager`'s inputs to the modules behind them.
