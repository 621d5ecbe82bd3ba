------------------------------ MODULE Scheduler ------------------------------
(***************************************************************************)
(* Scheduled hibernation (internal/hibernation/scheduler.go): a cron entry, *)
(* the vehicle watcher, the clock poll, the clock-jump monitor and the     *)
(* settings watcher, each a goroutine, share one mutex and let go of it    *)
(* between reading the schedule and acting on it.  A change of the         *)
(* schedule and the rebuild of the cron entry that follows it are one      *)
(* step: only the cron engine sees the entry.                              *)
(*                                                                         *)
(* The wall clock is known by its phase: occurrence k of the schedule      *)
(* begins phase 2k - 1, its wake-by time begins phase 2k.  A schedule      *)
(* whose wake-by time is later than the next occurrence is not modelled.   *)
(***************************************************************************)
EXTENDS Naturals

CONSTANTS MaxOccurrences,   \* bound on the occurrences in sight
          MaxSettings,      \* bound on the changes of the settings
          MaxSteps,         \* bound on the steps of the wall clock
          MaxRestarts       \* bound on the restarts of pm-service

ASSUME ScheduleAssumption ==
    /\ MaxOccurrences \in Nat \ {0} /\ MaxSettings \in Nat
    /\ MaxSteps \in Nat /\ MaxRestarts \in Nat

VARIABLES
    sched,      \* the Scheduler
    thread,     \* where each goroutine is
    clock,      \* external: the clocks, as far as the code compares them
    marker,     \* the marker file: absent, present, or lost in writing
    history,    \* what has happened, for the properties
    left        \* the bounds that are left

vars == <<sched, thread, clock, marker, history, left>>

-----------------------------------------------------------------------------
Occurrences == 1 .. MaxOccurrences
Phases == 0 .. 2 * MaxOccurrences

\* Mutant: the next occurrence is counted as the latest one.
LatestOrNext(phase) == (phase + 2) \div 2

\* previousOccurrence, or 0.
Latest(phase) == (phase + 1) \div 2

WakeByPassed(k) == clock.wall >= 2 * k

\* A target of fire carries a monotonic reading, and comparisons follow that; a
\* target of catchUpMissed is a reading of the wall clock.  Once the wall clock
\* has stepped away from the monotonic one, a target of fire is adrift.  A target
\* is late if its fire was: it lies somewhere behind the occurrence's wake-by time.
Target(k, basis) == [occurrence |-> k, basis |-> basis]
NoTarget == Target(0, "none")

Adrift(p) == IF p.basis = "mono" THEN Target(p.occurrence, "adrift") ELSE p

\* What After answers of the pending target.
Past == IF sched.pending.basis \in {"adrift", "late"} THEN BOOLEAN
        ELSE {WakeByPassed(sched.pending.occurrence)}

\* lastFired is kept as the last occurrence it covers (handled) and as the
\* cooldown that it starts; startedWall as the last occurrence before it.
Schedulers ==
    [enabled : BOOLEAN, cron : BOOLEAN, duration : BOOLEAN,
     synced : BOOLEAN, standby : BOOLEAN,
     pending : [occurrence : 0 .. MaxOccurrences, basis : {"none", "mono", "wall", "adrift", "late"}],
     handled : 0 .. MaxOccurrences, cooling : BOOLEAN, suppressed : BOOLEAN,
     entry : 0 .. MaxOccurrences + 1, started : 0 .. MaxOccurrences]

\* jump: a step that the monitor has not seen; stepped: the phase was entered by a
\* step, and what is due in it may be late.
Clocks == [wall : Phases, jump : {"none", "forward", "backward"},
           valid : BOOLEAN, stepped : BOOLEAN]

\* woken: a scheduled hibernation ended less than fifteen minutes ago.
Histories == [woken : BOOLEAN, sent : SUBSET Occurrences,
              overtaken : SUBSET Occurrences, stuck : BOOLEAN]

-----------------------------------------------------------------------------
(* The goroutines.                                                         *)

Threads == {"cron", "vehicle", "poll", "monitor"}

\* The next step of a goroutine, the occurrence it acts for, the stand-by flag it
\* read under the lock, and where it goes on.
Goes(pc, k, standby, then) ==
    [pc |-> pc, occurrence |-> k, standby |-> standby, then |-> then]

At(pc) == Goes(pc, 0, FALSE, "idle")

Steps == {"idle", "fire", "catch-up", "act", "dispatch", "send"}

Goroutines == [pc : Steps, occurrence : 0 .. MaxOccurrences, standby : BOOLEAN,
               then : Steps]

Move(t, where) == thread' = [thread EXCEPT ![t] = where]

Enters(t, pc) == thread[t].pc = pc

\* Occurrence k is acted on by t while another goroutine is between the two halves
\* of catchUpMissed: that one will act on what it read, and lower lastFired.
Overtaking(t, k) ==
    LET behind == {u \in Threads \ {t} : Enters(u, "act")}
    IN [history EXCEPT !.overtaken =
           @ \cup UNION {thread[u].occurrence .. k : u \in behind}]

-----------------------------------------------------------------------------
(* onFire: the marker is written, then the event is sent.                  *)

Fires(t, k, then) == Move(t, Goes("send", k, FALSE, then))

\* The marker may fail to be written.
Send(t, written) ==
    /\ Enters(t, "send")
    /\ marker' = IF written THEN "present" ELSE IF marker = "present" THEN marker ELSE "lost"
    /\ history' = [history EXCEPT !.sent = @ \cup {thread[t].occurrence}]
    /\ Move(t, At(thread[t].then))
    /\ UNCHANGED <<sched, clock, left>>

-----------------------------------------------------------------------------
(* The cron entry.                                                         *)

\* rebuild, the last step of every change of the schedule.
Rebuilt(s, phase) ==
    [s EXCEPT !.entry = IF s.enabled /\ s.cron THEN Latest(phase) + 1 ELSE 0]

CronDue == sched.entry # 0 /\ sched.entry <= Latest(clock.wall)

\* external: the cron engine finds the entry due and starts its job.
CronFires ==
    /\ Enters("cron", "idle") /\ CronDue
    /\ sched' = [sched EXCEPT !.entry = Latest(clock.wall) + 1]
    /\ Move("cron", At("fire"))
    /\ UNCHANGED <<clock, marker, history, left>>

\* Mutant: the gate is not asked.
FireAllowedUngated ==
    /\ sched.enabled /\ sched.duration
    /\ ~sched.suppressed /\ ~sched.cooling

\* The early returns of fire.
FireAllowed ==
    /\ sched.enabled /\ sched.synced /\ sched.duration /\ clock.valid
    /\ ~sched.suppressed /\ ~sched.cooling

\* An immediate fire supersedes any deferred target.
fire ==
    LET k == Latest(clock.wall)
        fired == [sched EXCEPT !.handled = k, !.cooling = TRUE]
        target == Target(k, IF clock.stepped THEN "late" ELSE "mono")
    IN /\ Enters("cron", "fire")
       /\ \/ /\ ~FireAllowed
             /\ Move("cron", At("idle")) /\ UNCHANGED <<sched, history>>
          \/ /\ FireAllowed /\ sched.standby
             /\ sched' = [fired EXCEPT !.pending = NoTarget]
             /\ Fires("cron", k, "idle") /\ history' = Overtaking("cron", k)
          \/ /\ FireAllowed /\ ~sched.standby
             /\ sched' = [fired EXCEPT !.pending = target]
             /\ Move("cron", At("idle")) /\ history' = Overtaking("cron", k)
       /\ UNCHANGED <<clock, marker, left>>

-----------------------------------------------------------------------------
(* The vehicle watcher.                                                    *)

\* A target taken under the lock is sent unless it is past.
Take(t) ==
    \E past \in Past :
        IF past THEN Move(t, At("idle"))
        ELSE Fires(t, sched.pending.occurrence, "idle")

\* Entering stand-by consumes a deferred target, retains it while the clock is
\* implausible, or drops it while the schedule is inactive.
OnVehicleStateChanged(standby) ==
    LET entering == standby /\ ~sched.standby /\ sched.pending # NoTarget
        active == sched.enabled /\ sched.synced
        known == [sched EXCEPT !.standby = standby]
    IN /\ Enters("vehicle", "idle") /\ standby # sched.standby
       /\ \/ /\ ~entering \/ (active /\ ~clock.valid)
             /\ sched' = known /\ UNCHANGED thread
          \/ /\ entering /\ ~active
             /\ sched' = [known EXCEPT !.pending = NoTarget] /\ UNCHANGED thread
          \/ /\ entering /\ active /\ clock.valid
             /\ sched' = [known EXCEPT !.pending = NoTarget]
             /\ Take("vehicle")
       /\ UNCHANGED <<clock, marker, history, left>>

-----------------------------------------------------------------------------
(* The clock: the poll that opens the gate, and the monitor of its jumps.  *)

\* Only the first call counts.  No target is pending then that could be dropped
\* (GateHolds); the missed occurrence is looked for next.
SetTimeSynced ==
    /\ ~sched.synced
    /\ sched' = Rebuilt([sched EXCEPT !.synced = TRUE], clock.wall)
    /\ Move("poll", At("catch-up"))
    /\ UNCHANGED history

\* The clock guard accepts the clock again without a jump: nobody follows it up.
Reaccepted ==
    /\ sched.synced /\ ~clock.valid
    /\ history' = [history EXCEPT !.stuck = @ \/ sched.pending # NoTarget]
    /\ UNCHANGED <<sched, thread>>

\* External time of good quality anchors the clock guard again, and opens the
\* gate for good.
pollForTimeSync ==
    /\ Enters("poll", "idle")
    /\ clock' = [clock EXCEPT !.valid = TRUE]
    /\ SetTimeSynced \/ Reaccepted
    /\ UNCHANGED <<marker, left>>

\* external: chrony slews the wall clock, or steps it by no more than
\* wallJumpThreshold, and the clock guard accepts it again.
WallSlews ==
    /\ Reaccepted
    /\ clock' = [clock EXCEPT !.valid = TRUE]
    /\ UNCHANGED <<marker, left>>

\* Any jump rebuilds the entry and drops a target that is past; only a forward
\* jump is followed up.
checkClockJump ==
    /\ Enters("monitor", "idle") /\ clock.jump # "none"
    /\ clock' = [clock EXCEPT !.jump = "none"]
    /\ \E past \in Past :
          sched' = Rebuilt([sched EXCEPT !.pending = IF past THEN NoTarget ELSE @],
                           clock.wall)
    /\ Move("monitor", At(IF clock.jump = "forward" THEN "catch-up" ELSE "idle"))
    /\ UNCHANGED <<marker, history, left>>

\* Mutant: lastFired is not compared.
MissedHandled(k) == k > sched.started /\ ~WakeByPassed(k)

\* An occurrence of this run that no fire has covered, its wake-by time ahead.
Missed(k) == k > sched.started /\ k > sched.handled /\ ~WakeByPassed(k)

\* Mutant: the cooldown after a scheduled wake is not asked.
CatchUpUnsuppressed ==
    /\ sched.enabled /\ sched.synced /\ sched.cron /\ sched.duration
    /\ clock.valid

\* The early returns of catchUpMissed under its first lock.
CatchUpAllowed ==
    /\ sched.enabled /\ sched.synced /\ sched.cron /\ sched.duration
    /\ ~sched.suppressed /\ clock.valid

\* Mutant: a retained target is not looked for after a forward jump.
CatchUpOnly(t) == "idle"

AfterCatchUp(t) == IF t = "monitor" THEN "dispatch" ELSE "idle"

\* catchUpMissed, first half: what it reads under the lock.
CatchUpReads(t) ==
    LET k == Latest(clock.wall)
    IN /\ Enters(t, "catch-up")
       /\ Move(t, IF CatchUpAllowed /\ Missed(k)
                  THEN Goes("act", k, sched.standby, AfterCatchUp(t))
                  ELSE At(AfterCatchUp(t)))
       /\ UNCHANGED <<sched, clock, marker, history, left>>

\* Mutant: a deferral does not look at the schedule again.
AlwaysWanted == TRUE

\* What the second half asks again before it defers.
StillWanted == sched.enabled /\ sched.synced /\ sched.cron

\* Second half, with the stand-by flag that the first half read.  A deferral
\* leaves lastFired alone, so that the occurrence can be caught up once more.
CatchUpActs(t) ==
    LET k == thread[t].occurrence
    IN /\ Enters(t, "act")
       /\ \/ /\ thread[t].standby
             /\ sched' = [sched EXCEPT !.handled = k, !.cooling = TRUE,
                                       !.pending = NoTarget]
             /\ Fires(t, k, thread[t].then)
             /\ history' = Overtaking(t, k)
          \/ /\ ~thread[t].standby /\ StillWanted
             /\ sched' = [sched EXCEPT !.pending = Target(k, "wall")]
             /\ Move(t, At(thread[t].then))
             /\ history' = [history EXCEPT !.overtaken = @ \cup {k},
                                           !.stuck = @ \/ sched.standby]
          \/ /\ ~thread[t].standby /\ ~StillWanted
             /\ Move(t, At(thread[t].then))
             /\ UNCHANGED <<sched, history>>
       /\ UNCHANGED <<clock, marker, left>>

dispatchPending ==
    LET due == /\ sched.enabled /\ sched.synced /\ sched.standby
               /\ sched.pending # NoTarget /\ clock.valid
    IN /\ Enters("monitor", "dispatch")
       /\ \/ ~due /\ Move("monitor", At("idle")) /\ UNCHANGED sched
          \/ due /\ Take("monitor") /\ sched' = [sched EXCEPT !.pending = NoTarget]
       /\ UNCHANGED <<clock, marker, history, left>>

-----------------------------------------------------------------------------
(* The settings watcher.                                                   *)

Changes(setting) ==
    /\ left.settings > 0 /\ left' = [left EXCEPT !.settings = @ - 1]
    /\ sched' = Rebuilt([sched EXCEPT ![setting] = ~@], clock.wall)
    /\ UNCHANGED <<thread, clock, marker>>

SetEnabled ==
    /\ Changes("enabled")
    /\ history' = [history EXCEPT !.stuck = @ \/ (sched.standby /\ sched.pending # NoTarget)]

SetCron == Changes("cron") /\ UNCHANGED history

\* The duration is read at fire time; the entry stays.
SetDuration ==
    /\ left.settings > 0 /\ left' = [left EXCEPT !.settings = @ - 1]
    /\ sched' = [sched EXCEPT !.duration = ~@]
    /\ UNCHANGED <<thread, clock, marker, history>>

-----------------------------------------------------------------------------
(* Time, the clocks, and the power FSM.                                    *)

\* Minutes pass only when nothing is under way or due: the steps of goroutines
\* are instants, and the monitor looks twice a minute.
Quiet ==
    /\ \A t \in Threads : Enters(t, "idle")
    /\ ~CronDue /\ clock.jump = "none"

TimePasses ==
    /\ clock.wall < 2 * MaxOccurrences /\ Quiet
    /\ clock' = [clock EXCEPT !.wall = @ + 1, !.stepped = FALSE]
    /\ UNCHANGED <<sched, thread, marker, history, left>>

\* Fifteen minutes on the monotonic clock.
CooldownEnds ==
    /\ sched.cooling /\ Quiet /\ sched' = [sched EXCEPT !.cooling = FALSE]
    /\ UNCHANGED <<thread, clock, marker, history, left>>

StartupCooldownEnds ==
    /\ sched.suppressed \/ history.woken
    /\ Quiet
    /\ sched' = [sched EXCEPT !.suppressed = FALSE]
    /\ history' = [history EXCEPT !.woken = FALSE]
    /\ UNCHANGED <<thread, clock, marker, left>>

\* A suspend on which the wall clock stood still.
ClockFallsBehind ==
    /\ clock.valid /\ Quiet /\ clock' = [clock EXCEPT !.valid = FALSE]
    /\ UNCHANGED <<sched, thread, marker, history, left>>

\* chrony steps the wall clock, or a suspend takes it ahead of the monotonic one,
\* at most once between two looks of the monitor.  A step back leaves it behind
\* the boot time, where the clock guard suppresses a fire (a step back between the
\* start of the cron job and its fire is left out); a step ahead may catch up.
WallSteps(phase) ==
    /\ left.steps > 0 /\ left' = [left EXCEPT !.steps = @ - 1]
    /\ clock.jump = "none"
    /\ sched' = [sched EXCEPT !.pending = Adrift(@)]
    /\ \/ /\ phase >= clock.wall
          /\ \E valid \in {TRUE, clock.valid} :
                clock' = [wall |-> phase, jump |-> "forward", valid |-> valid,
                          stepped |-> TRUE]
          /\ UNCHANGED history
       \/ /\ phase <= clock.wall /\ ~Enters("cron", "fire")
          /\ clock' = [wall |-> phase, jump |-> "backward", valid |-> FALSE,
                       stepped |-> TRUE]
          /\ history' = [history EXCEPT
                            !.overtaken = @ \cup {k \in Occurrences : k > Latest(phase)}]
    /\ UNCHANGED <<thread, marker>>

\* A process that has just been started: settings and vehicle state are read, the
\* gate is closed, the clock not yet trusted.
Fresh(enabled, cron, duration, standby, suppressed, phase) ==
    Rebuilt([enabled |-> enabled, cron |-> cron, duration |-> duration,
             synced |-> FALSE, standby |-> standby, pending |-> NoTarget,
             handled |-> 0, cooling |-> FALSE, suppressed |-> suppressed,
             entry |-> 0, started |-> Latest(phase)], phase)

FreshClock(phase) ==
    [wall |-> phase, jump |-> "none", valid |-> FALSE, stepped |-> FALSE]

FreshHistory(woken) == [woken |-> woken, sent |-> {}, overtaken |-> {}, stuck |-> FALSE]

AllIdle == [t \in Threads |-> At("idle")]

\* The marker of the last run suppresses the first fires, if it can be removed.
Starts(phase, hibernated, removed) ==
    /\ left.restarts > 0 /\ left' = [left EXCEPT !.restarts = @ - 1]
    /\ sched' = Fresh(sched.enabled, sched.cron, sched.duration, sched.standby,
                      marker = "present" /\ removed, phase)
    /\ clock' = FreshClock(phase)
    /\ thread' = AllIdle
    /\ marker' = IF removed \/ marker = "lost" THEN "absent" ELSE marker
    /\ history' = FreshHistory(hibernated /\ removed /\ marker # "lost")

\* The board powers off for a scheduled hibernation and is woken, its wall clock
\* anywhere.
Hibernates(phase, removed) == history.sent # {} /\ Starts(phase, TRUE, removed)

\* pm-service restarts for any other reason.
Restarts(removed) == Starts(clock.wall, FALSE, removed)

-----------------------------------------------------------------------------
Init ==
    \E enabled \in BOOLEAN, standby \in BOOLEAN :
        /\ sched = Fresh(enabled, TRUE, TRUE, standby, FALSE, 0)
        /\ thread = AllIdle /\ clock = FreshClock(0) /\ marker = "absent"
        /\ history = FreshHistory(FALSE)
        /\ left = [settings |-> MaxSettings, steps |-> MaxSteps,
                   restarts |-> MaxRestarts]

\* The steps of a goroutine that is under way.
Proceeds(t) ==
    \/ \E written \in BOOLEAN : Send(t, written)
    \/ CatchUpReads(t) \/ CatchUpActs(t)
    \/ t = "cron" /\ fire
    \/ t = "monitor" /\ dispatchPending

Next ==
    \/ \E t \in Threads : Proceeds(t)
    \/ \E standby \in BOOLEAN : OnVehicleStateChanged(standby)
    \/ CronFires \/ pollForTimeSync \/ checkClockJump
    \/ SetEnabled \/ SetCron \/ SetDuration
    \/ TimePasses \/ CooldownEnds \/ StartupCooldownEnds \/ ClockFallsBehind
    \/ WallSlews \/ \E phase \in Phases : WallSteps(phase)
    \/ \E phase \in Phases, removed \in BOOLEAN : Hibernates(phase, removed)
    \/ \E removed \in BOOLEAN : Restarts(removed)

\* Every goroutine that is under way is scheduled, and the monitor looks every
\* thirty seconds.
Fairness == (\A t \in Threads : WF_vars(Proceeds(t))) /\ WF_vars(checkClockJump)

Spec == Init /\ [][Next]_vars /\ Fairness

-----------------------------------------------------------------------------
TypeOK ==
    /\ sched \in Schedulers /\ thread \in [Threads -> Goroutines]
    /\ clock \in Clocks /\ marker \in {"absent", "present", "lost"}
    /\ history \in Histories
    /\ left \in [settings : 0 .. MaxSettings, steps : 0 .. MaxSteps,
                 restarts : 0 .. MaxRestarts]

Dispatching(t) == thread[t].pc = "send"

\* Nothing is recorded, deferred or sent before the clock is known to be right,
\* so the target that SetTimeSynced may drop without looking is never there
\* (scheduler.go:38, "a validity gate prevents any fires").
GateHolds ==
    ~sched.synced => /\ sched.pending = NoTarget /\ sched.handled = 0
                     /\ \A t \in Threads : ~Dispatching(t)

\* An occurrence of the schedule hibernates the board once, by the cron entry, by
\* a deferred target or by catching up, unless the wall clock went back over it
\* or a catch-up was overtaken by, or not recorded for, another one.
OncePerOccurrence ==
    \A t \in Threads :
        Dispatching(t) /\ thread[t].occurrence \in history.sent =>
            thread[t].occurrence \in history.overtaken

\* A board that a scheduled hibernation has put down and that is awake again is
\* not put down by the schedule in the first fifteen minutes, if the marker could
\* be written and removed (scheduler.go:172).
NoHibernateLoop ==
    history.woken => \A t \in Threads : ~Dispatching(t)

\* A target is deferred only while the schedule is on, although it is computed
\* after the lock was let go (scheduler.go:542).
DeferralIsWanted ==
    [][sched'.pending \notin {sched.pending, Adrift(sched.pending), NoTarget} =>
          sched.enabled /\ sched.synced]_vars

\* A target waits although the vehicle is in stand-by.
Waits == sched.pending # NoTarget /\ sched.standby /\ sched.enabled

Retained == Waits /\ clock.valid /\ ~history.stuck

\* A target that was kept in stand-by because the clock was implausible is sent or
\* dropped once the clock has been stepped right (scheduler.go:466, "reconsider
\* [...] any retained pending wake").
RetainedIsDispatched == Retained ~> ~Retained

-----------------------------------------------------------------------------
(* Claims that the code does not keep.                                     *)

\* scheduler.go:42: the monitor re-evaluates any deferred wake target after a jump
\* of the wall clock.  So once it has looked at the jump, no deferred target is
\* sent whose wake-by time has passed.
JumpReevaluatesTarget ==
    [][\A t \in Threads :
          /\ thread[t].pc \in {"idle", "dispatch"} /\ thread'[t].pc = "send"
          /\ clock.jump = "none" /\ sched.pending.basis # "late"
          => ~WakeByPassed(thread'[t].occurrence)]_vars
=============================================================================
