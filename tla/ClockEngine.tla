----------------------------- MODULE ClockEngine -----------------------------
(***************************************************************************)
(* The engine of the clock coordinator (internal/clockcontrol): it decides *)
(* when chrony may step the system clock, keeps its decisions in a file    *)
(* that survives a restart of the daemon, and fences steps while           *)
(* pm-service suspends the board.                                          *)
(*                                                                         *)
(* Times are replaced by what the code asks of them: whether the deadline  *)
(* of an episode lies ahead, whether ten seconds have passed since the     *)
(* last dispatch.  A tracking result is replaced by the decisions it       *)
(* allows: its source, and whether the residual is settled (below 0.1 s),  *)
(* near (a second to five), far, or vague (too old or too uncertain).      *)
(***************************************************************************)
EXTENDS Naturals, FiniteSets

CONSTANTS Handlers,        \* the connections served at a time (16 in server.go)
          TimeSources,     \* what chrony may select
          Producers,       \* who submits samples
          MaxGeneration,   \* bound on the generations of a boot
          MaxBoots,        \* bound on the boots
          MaxFaults        \* bound on crashes, reboots, failed saves and timed-out calls

ASSUME SourcesAssumption ==
    /\ Producers \subseteq {"nrf", "gps", "user"}
    /\ TimeSources \subseteq Producers \cup {"ntp", "network-holdover"}

ASSUME BoundsAssumption ==
    /\ MaxGeneration \in Nat \ {0} /\ MaxBoots \in Nat \ {0}
    /\ MaxFaults \in Nat

\* The server has at least one slot for a request (server.go:31).
ASSUME HandlersAssumption == Handlers # {}

VARIABLES
    mem,            \* Engine.state (with Engine.samples, which it mirrors)
    disk,           \* the state file
    up,             \* the daemon runs
    busy,           \* who holds Engine.mu across a save, and how far it got
    quality,        \* Engine.quality: the generation it was observed in, or Unknown
    inFlight,       \* the goroutine that waits for makestep exists
    calls,          \* the requests being served
    makestep,       \* external: chrony is carrying out a makestep
    recent,         \* less than ten seconds have passed since the last dispatch
    boot,           \* the boot ID
    spent,          \* history: the episodes that have started a makestep
    faults          \* bound: the faults that may still happen

engineVars == <<mem, disk, up, busy, quality, inFlight, calls,
                makestep, recent, boot, spent, faults>>

-----------------------------------------------------------------------------
(* The persistent state.                                                   *)

Holdovers == {"nrf", "user"}
Externals == {"ntp", "gps"}

\* An episode is known by its kind and, for the episode of a resume, by the
\* generation it was opened in; it stands for Deadline, which no two share.
Episode(kind, generation) == [kind |-> kind, generation |-> generation]

Episodes == [kind : {"initial", "resume", "late-external", "late-holdover"},
             generation : 0 .. MaxGeneration]

\* "retry" is "available" with one of the two Attempts used.
Outcomes == {"available", "retry", "in-flight", "unknown", "completed", "reconciled",
             "expired", "failed"}

\* Preparing and PrepareBaselineValid, which counts only while preparing.
Fences == {"none", "preparing", "admitted"}

\* What is kept of a sample, told by what chrony holds: nothing, the metadata of
\* the last sample chrony was given, or that of an older one.
Evidence == {"none", "last", "stale"}

\* dispatchSource stands for DispatchSource and DispatchSample, which only an
\* unresolved step needs: the holdover whose last sample was dispatched, until it
\* submits another one.

States == [boot : 0 .. MaxBoots, generation : 1 .. MaxGeneration,
           episode : Episodes, open : BOOLEAN, outcome : Outcomes,
           lateUsed : BOOLEAN, lateHoldoverUsed : BOOLEAN,
           external : BOOLEAN, fence : Fences,
           dispatchSource : Producers \cup {"none"},
           samples : [Producers -> Evidence]]

NoSamples == [p \in Producers |-> "none"]

\* Mutant: a new boot starts with the zero value of the generation.
FreshStateUnnumbered(b) ==
    [boot |-> b, generation |-> 0, episode |-> Episode("initial", 0),
     open |-> TRUE, outcome |-> "available", lateUsed |-> FALSE,
     lateHoldoverUsed |-> FALSE, external |-> FALSE, fence |-> "none",
     dispatchSource |-> "none", samples |-> NoSamples]

\* The state of a boot that has no state file of its own.
FreshState(b) ==
    [boot |-> b, generation |-> 1, episode |-> Episode("initial", 0),
     open |-> TRUE, outcome |-> "available",
     lateUsed |-> FALSE, lateHoldoverUsed |-> FALSE, external |-> FALSE,
     fence |-> "none", dispatchSource |-> "none",
     samples |-> NoSamples]

\* A step has been admitted and nobody knows yet that it is over.
Unresolved(m) == m.outcome \in {"in-flight", "unknown"}

Available(m) == m.outcome \in {"available", "retry"}

\* The step is over, or never began.
Resolved(m, outcome) ==
    [m EXCEPT !.outcome = outcome, !.dispatchSource = "none"]

Preparing(m) == m.fence # "none"

\* A suspend has been admitted and not been given back.
Fenced(m) == m.boot = boot /\ m.fence = "admitted"

\* persist: the file is replaced atomically.  A failure after the rename is
\* reported although the new file is in place.
Saved(m) == disk' = m /\ UNCHANGED faults

Fault == faults > 0 /\ faults' = faults - 1

SaveFails(m) == Fault /\ disk' \in {disk, m}

-----------------------------------------------------------------------------
(* Who may run.  Everything but chrony stops while the lock is held.       *)

\* The lock is held by refresh, which dispatches a step or tries it again, or by
\* Submit, which sends a sample of a producer and records it.
LockHeld(stage, producer) == [stage |-> stage, producer |-> producer]

FreeLock == LockHeld("free", "none")

Unlocked == up /\ busy = FreeLock

UnknownQuality == 0

\* A request being served: its operation, how far it got, the generation it
\* carries, and whether its client still waits for the answer.  A status request
\* has nothing to do before its answer.
Call(op, generation) ==
    [op |-> op, stage |-> IF op = "status" THEN "ok" ELSE "queued",
     generation |-> generation, awaited |-> TRUE]

NoCall == [op |-> "none", stage |-> "none", generation |-> 0, awaited |-> FALSE]

Calls == [op : {"none", "status", "prepare", "abort", "resume"},
          stage : {"none", "queued", "waiting", "released", "check", "ok", "error"},
          generation : 0 .. MaxGeneration, awaited : BOOLEAN]

Idle(h) == calls[h] = NoCall

-----------------------------------------------------------------------------
(* refresh: once a second, ask chrony and decide.                          *)

\* Whether the wall clock moved is only asked of a step that is unknown.
Moves(m) == IF m.outcome = "unknown" THEN BOOLEAN ELSE {FALSE}

Observations(m) ==
    [source : TimeSources, residual : {"vague", "settled", "near", "far"},
     moved : Moves(m)]
    \cup [source : {"none", "local"}, residual : {"vague"}, moved : Moves(m)]

\* A result that fails, is invalid, too old, or has no matching sample counts
\* as none: the engine then knows nothing of the clock.
Usable(m, o) ==
    /\ o.source # "none"
    /\ o.source \in Producers => m.samples[o.source] # "none"

\* The wall clock moved by what was dispatched, and the evidence at hand is
\* still that of the dispatched sample.
MovedAsDispatched(m, o) ==
    o.moved /\ m.dispatchSource # "none" /\ m.samples[m.dispatchSource] # "none"

Reconciled(m, evidence) ==
    IF m.outcome = "unknown" /\ ~recent /\ evidence
    THEN Resolved(m, "reconciled") ELSE m

\* The first external time within five seconds ends the recovery by holdovers.
Established(m, o) ==
    IF Usable(m, o) /\ o.source \in Externals /\ o.residual \in {"settled", "near"}
    THEN [m EXCEPT !.external = TRUE] ELSE m

LargeResidual(o) == o.residual \in {"near", "far"}

\* After the deadline one late episode of each kind may open in a boot.
LateEpisode(m, o) ==
    LET late == /\ Usable(m, o) /\ ~Unresolved(m) /\ ~Preparing(m)
                /\ ~m.open /\ LargeResidual(o)
        Opened(kind) == [m EXCEPT !.episode = Episode(kind, 0), !.open = TRUE,
                                  !.outcome = "available"]
    IN IF late /\ o.source \in Externals /\ ~m.lateUsed
       THEN [Opened("late-external") EXCEPT !.lateUsed = TRUE]
       ELSE IF /\ late /\ o.source = "network-holdover"
               /\ ~m.lateHoldoverUsed /\ ~m.external
            THEN [Opened("late-holdover") EXCEPT !.lateHoldoverUsed = TRUE]
            ELSE m

\* The admission of a step, recorded before chronyc is started.
Dispatched(m, o) ==
    IF /\ Usable(m, o) /\ o.source # "local" /\ ~Preparing(m)
       /\ o.source \in {"network-holdover", "nrf"} => ~m.external
       /\ Available(m) /\ m.open /\ LargeResidual(o)
    THEN [m EXCEPT !.outcome = "in-flight",
                   !.dispatchSource = IF o.source \in Holdovers
                                      THEN o.source ELSE "none"]
    ELSE m

\* The states refresh goes through, each saved if it differs from the last.
RefreshSteps(o) ==
    LET r1 == Reconciled(mem, MovedAsDispatched(mem, o))
        r2 == Established(r1, o)
        r3 == Reconciled(r2, /\ Usable(r2, o) /\ o.source # "local"
                             /\ o.residual = "settled")
        r4 == LateEpisode(r3, o)
        r5 == Dispatched(r4, o)
    IN [i \in 0 .. 5 |-> IF i = 0 THEN mem ELSE IF i = 1 THEN r1
                         ELSE IF i = 2 THEN r2 ELSE IF i = 3 THEN r3
                         ELSE IF i = 4 THEN r4 ELSE r5]

\* Mutant: an observation is applied whatever happened while chrony was asked.
RefreshAlwaysCurrent(generation) == TRUE

\* Nothing is done with an answer that chrony gave in an earlier generation: the
\* generation is read, then chrony is asked without the lock.
RefreshIsCurrent(generation) == generation = mem.generation

RefreshApplies(o, generation) ==
    LET s == RefreshSteps(o)
        published == IF Usable(mem, o) /\ ~Unresolved(s[5])
                     THEN generation ELSE UnknownQuality
    IN /\ Unlocked /\ RefreshIsCurrent(generation)
       /\ mem' = s[5] /\ quality' = published
       /\ disk' = IF s[5] = mem THEN disk ELSE s[5]
       /\ busy' = IF s[5] = s[4] THEN FreeLock
                  ELSE LockHeld(IF s[4].outcome = "retry" THEN "retry"
                                ELSE "dispatch", "none")
       /\ recent' = (s[5] # s[4] \/ recent)
       /\ UNCHANGED <<up, inFlight, calls, makestep, boot, spent, faults>>

\* The i-th save fails: all but the established external time is taken back.
RefreshFails(o, generation, i) ==
    LET s == RefreshSteps(o)
    IN /\ Unlocked /\ RefreshIsCurrent(generation) /\ Fault
       /\ s[i] # s[i - 1]
       /\ disk' \in {IF s[i - 1] = mem THEN disk ELSE s[i - 1], s[i]}
       /\ mem' = IF i = 2 THEN s[2] ELSE s[i - 1]
       /\ quality' = IF i = 4 THEN generation ELSE UnknownQuality
       /\ recent' = (i = 5 \/ recent)
       /\ UNCHANGED <<up, busy, inFlight, calls, makestep, boot, spent>>

-----------------------------------------------------------------------------
(* The dispatch of an admitted step, still under the lock, and its end.    *)

Dispatching == up /\ busy.stage \in {"dispatch", "retry"}

\* The deadline passed while the admission was being saved; the error of the
\* second save is ignored.
DispatchExpires ==
    LET m == Resolved(mem, "expired")
    IN /\ Dispatching
       /\ mem' = m /\ busy' = FreeLock
       /\ Saved(m) \/ SaveFails(m)
       /\ UNCHANGED <<up, quality, inFlight, calls, makestep,
                      recent, boot, spent>>

\* chronyc cannot be started: one more try, then the episode has failed.
StartStepFails ==
    LET m == Resolved(mem, IF busy.stage = "retry" THEN "failed" ELSE "retry")
    IN /\ Dispatching
       /\ busy' = FreeLock
       /\ \/ Saved(m) /\ mem' = m
          \/ SaveFails(m) /\ mem' = [mem EXCEPT !.outcome = "unknown"]
       /\ UNCHANGED <<up, quality, inFlight, calls, makestep,
                      recent, boot, spent>>

StartStep ==
    /\ Dispatching
    /\ makestep' = "running" /\ inFlight' = TRUE
    /\ spent' = spent \cup {mem.episode}
    /\ busy' = FreeLock
    /\ UNCHANGED <<mem, disk, up, quality, calls, recent, boot, faults>>

\* chrony has applied or dropped the step, whether chronyc learns it or not.
MakestepEnds ==
    /\ makestep = "running"
    /\ makestep' = "none"
    /\ UNCHANGED <<mem, disk, up, busy, quality, inFlight, calls,
                   recent, boot, spent, faults>>

\* Ten seconds after the last dispatch.  That chrony has applied or dropped the
\* step by then is what the engine relies on when it reconciles.
DispatchSettles ==
    /\ recent /\ makestep = "none" /\ ~Dispatching
    /\ recent' = FALSE
    /\ UNCHANGED <<mem, disk, up, busy, quality, inFlight, calls,
                   makestep, boot, spent, faults>>

DeadlinePasses ==
    /\ mem.open \/ disk.open
    /\ mem' = [mem EXCEPT !.open = FALSE] /\ disk' = [disk EXCEPT !.open = FALSE]
    /\ UNCHANGED <<up, busy, quality, inFlight, calls, makestep,
                   recent, boot, spent, faults>>

\* Closing the channel releases every Prepare that waits on it.
Released == [h \in Handlers |->
                IF calls[h].stage = "waiting"
                THEN [calls[h] EXCEPT !.stage = "released"] ELSE calls[h]]

\* The goroutine learns the answer of chronyc, or gives up after three seconds
\* while chrony may still be at work.
StepEnds(confirmed) ==
    LET m == IF confirmed THEN Resolved(mem, "completed")
             ELSE [mem EXCEPT !.outcome = "unknown"]
    IN /\ Unlocked /\ inFlight
       /\ confirmed => makestep = "none"
       /\ \/ Saved(m) /\ mem' = m
          \/ SaveFails(m) /\ mem' = [mem EXCEPT !.outcome = "unknown"]
       /\ inFlight' = FALSE /\ calls' = Released
       /\ UNCHANGED <<up, busy, quality, makestep, recent, boot, spent>>

-----------------------------------------------------------------------------
(* Submit: a sample on its way to chrony.                                  *)

\* Only a boot or a resume that lost time is recovered from the nRF.
NRFEligible ==
    /\ ~mem.external /\ Available(mem) /\ mem.open
    /\ mem.episode.kind \in {"initial", "resume"}

\* Mutant: the older evidence stays until the new one is recorded.
SubmitBeginsKeeping(p) ==
    /\ Unlocked /\ ~Preparing(mem)
    /\ p = "nrf" => NRFEligible
    /\ busy' = LockHeld("send", p)
    /\ UNCHANGED <<mem, disk, up, quality, inFlight, calls, makestep,
                   recent, boot, spent, faults>>

\* Evidence of an older sample goes before the new one is delivered.
SubmitBegins(p) ==
    LET m == [mem EXCEPT !.samples[p] = "none"]
    IN /\ Unlocked /\ ~Preparing(mem)
       /\ p = "nrf" => NRFEligible
       /\ mem' = m
       /\ \/ Saved(m) /\ busy' = LockHeld("send", p)
          \/ SaveFails(m) /\ UNCHANGED busy
       /\ UNCHANGED <<up, quality, inFlight, calls, makestep,
                      recent, boot, spent>>

\* All that is known of earlier samples of this producer is of the past now.
Outdated(m, p) ==
    [m EXCEPT !.samples[p] = IF @ = "none" THEN "none" ELSE "stale",
              !.dispatchSource = IF @ = p THEN "none" ELSE @]

SubmitSends ==
    /\ up /\ busy.stage = "send"
    /\ \/ /\ mem' = Outdated(mem, busy.producer) /\ disk' = Outdated(disk, busy.producer)
          /\ busy' = LockHeld("record", busy.producer)
       \/ UNCHANGED <<mem, disk>> /\ busy' = FreeLock
    /\ UNCHANGED <<up, quality, inFlight, calls, makestep, recent, boot,
                   spent, faults>>

SubmitRecords ==
    LET m == [mem EXCEPT !.samples[busy.producer] = "last"]
    IN /\ up /\ busy.stage = "record"
       /\ \/ Saved(m) /\ mem' = m
          \/ SaveFails(m) /\ UNCHANGED mem
       /\ busy' = FreeLock
       /\ UNCHANGED <<up, quality, inFlight, calls, makestep,
                      recent, boot, spent>>

\* An nRF submission first asks chrony itself; external time within five
\* seconds is recorded, whatever the engine is doing, and the sample refused.
SubmitFindsExternal ==
    LET m == [mem EXCEPT !.external = TRUE]
    IN /\ Unlocked /\ "nrf" \in Producers
       /\ \E s \in TimeSources \cap Externals :
             Usable(mem, [source |-> s])
       /\ mem' = m
       /\ Saved(m) \/ SaveFails(m)
       /\ UNCHANGED <<up, busy, quality, inFlight, calls, makestep,
                      recent, boot, spent>>

-----------------------------------------------------------------------------
(* The requests of pm-service, each served by a goroutine (server.go).     *)

Ready(h, op, stage) == Unlocked /\ calls[h].op = op /\ calls[h].stage = stage

SetStage(h, stage) == calls' = [calls EXCEPT ![h].stage = stage]

\* The answer to a request that nobody waits for is lost.
Answer(h, result) ==
    calls' = [calls EXCEPT ![h] = IF @.awaited THEN [@ EXCEPT !.stage = result]
                                  ELSE NoCall]

\* Prepare fences new dispatches first, then waits for the one in flight.
PrepareBegins(h) ==
    LET m == [mem EXCEPT !.fence = "preparing"]
    IN /\ Ready(h, "prepare", "queued")
       /\ IF Preparing(mem)
          THEN Answer(h, "error") /\ UNCHANGED <<mem, disk, faults>>
          ELSE \/ /\ Saved(m) /\ mem' = m
                  /\ SetStage(h, IF inFlight THEN "waiting" ELSE "check")
               \/ /\ SaveFails(m) /\ mem' = [m EXCEPT !.fence = "none"]
                  /\ Answer(h, "error")
       /\ UNCHANGED <<up, busy, quality, inFlight, makestep,
                      recent, boot, spent>>

\* The select takes either branch when both are ready.  Nothing tells whose
\* preparation it is that the timeout takes back.
PrepareTimesOut(h) ==
    LET m == [mem EXCEPT !.fence = "none"]
    IN /\ Ready(h, "prepare", "waiting") \/ Ready(h, "prepare", "released")
       /\ mem' = m /\ Answer(h, "error")
       /\ Saved(m) \/ SaveFails(m)
       /\ UNCHANGED <<up, busy, quality, inFlight, makestep,
                      recent, boot, spent>>

\* Mutant: a step whose outcome is unknown does not stop a suspend.
PrepareRefusedInFlight == Preparing(mem) /\ mem.outcome = "in-flight"

PrepareRefused == Preparing(mem) /\ Unresolved(mem)

\* The second half: the suspend is refused or its baseline recorded.
PrepareChecks(h) ==
    LET dropped == [mem EXCEPT !.fence = "none"]
        m == [mem EXCEPT !.fence = "admitted"]
    IN /\ Ready(h, "prepare", "released") \/ Ready(h, "prepare", "check")
       /\ \/ /\ ~Preparing(mem)
             /\ Answer(h, "error") /\ UNCHANGED <<mem, disk, faults>>
          \/ /\ PrepareRefused
             /\ Saved(dropped) \/ SaveFails(dropped)
             /\ mem' = dropped /\ Answer(h, "error")
          \/ /\ Preparing(mem) /\ ~PrepareRefused
             /\ \/ Saved(m) /\ mem' = m /\ Answer(h, "ok")
                \/ /\ SaveFails(m) /\ mem' = [mem EXCEPT !.fence = "preparing"]
                   /\ Answer(h, "error")
       /\ UNCHANGED <<up, busy, quality, inFlight, makestep,
                      recent, boot, spent>>

ServeAbort(h) ==
    LET m == [mem EXCEPT !.fence = "none"]
    IN /\ Ready(h, "abort", "queued")
       /\ \/ /\ Preparing(mem) /\ Saved(m) /\ mem' = m /\ Answer(h, "ok")
          \/ /\ Preparing(mem) /\ SaveFails(m) /\ UNCHANGED mem /\ Answer(h, "error")
          \/ /\ ~Preparing(mem) /\ UNCHANGED <<mem, disk, faults>> /\ Answer(h, "error")
       /\ UNCHANGED <<up, busy, quality, inFlight, makestep,
                      recent, boot, spent>>

\* A resume starts a new generation without evidence; lost time opens an episode.
Resumed(lost) ==
    LET next == [mem EXCEPT !.fence = "none",
                            !.generation = @ + 1, !.samples = NoSamples]
    IN IF lost
       THEN [next EXCEPT !.external = FALSE, !.outcome = "available", !.open = TRUE,
                         !.episode = Episode("resume", next.generation)]
       ELSE next

ServeResume(h, lost) ==
    LET m == IF mem.fence = "admitted" THEN Resumed(lost)
             ELSE [mem EXCEPT !.fence = "none"]
        valid == Preparing(mem) /\ calls[h].generation = mem.generation
    IN /\ Ready(h, "resume", "queued")
       /\ valid /\ mem.fence = "admitted" => mem.generation < MaxGeneration
       /\ \/ /\ valid /\ Saved(m) /\ mem' = m /\ Answer(h, "ok")
             /\ quality' = IF mem.fence = "admitted" THEN UnknownQuality ELSE quality
          \/ /\ valid /\ SaveFails(m) /\ Answer(h, "error")
             /\ UNCHANGED <<mem, quality>>
          \/ /\ ~valid /\ UNCHANGED <<mem, disk, faults, quality>>
             /\ Answer(h, "error")
       /\ UNCHANGED <<up, busy, inFlight, makestep, recent, boot, spent>>

-----------------------------------------------------------------------------
(* Crash, restart, reboot.                                                 *)

NoCalls == [h \in Handlers |-> NoCall]

\* The daemon dies; all that is left is the file.  chronyc may live on.
Crash ==
    /\ up /\ Fault
    /\ up' = FALSE /\ mem' = disk
    /\ busy' = FreeLock /\ quality' = UnknownQuality
    /\ inFlight' = FALSE /\ calls' = NoCalls
    /\ UNCHANGED <<disk, makestep, recent, boot, spent>>

\* Mutant: a step that was in flight is tried again.
ReloadedRetrying(m) ==
    IF m.boot # boot THEN FreshState(boot)
    ELSE IF m.outcome = "in-flight" THEN [m EXCEPT !.outcome = "available"] ELSE m

\* Mutant: a start forgets the preparation it finds.
ReloadedUnfenced(m) ==
    IF m.boot # boot THEN FreshState(boot)
    ELSE IF m.outcome = "in-flight" THEN [m EXCEPT !.outcome = "unknown"]
    ELSE [m EXCEPT !.fence = "none"]

\* What a start makes of the file: another boot's state is forgotten, and
\* nobody waits any more for a step that was in flight.
Reloaded(m) ==
    IF m.boot # boot THEN FreshState(boot)
    ELSE IF m.outcome = "in-flight" THEN [m EXCEPT !.outcome = "unknown"] ELSE m

NewEngine ==
    LET m == Reloaded(disk)
    IN /\ ~up
       /\ \/ Saved(m) /\ up' = TRUE /\ mem' = m
          \/ SaveFails(m) /\ UNCHANGED up /\ mem' = disk'
       /\ UNCHANGED <<busy, quality, inFlight, calls, makestep,
                      recent, boot, spent>>

AllOutdated(m) ==
    [m EXCEPT !.samples = [p \in Producers |->
                              IF m.samples[p] = "none" THEN "none" ELSE "stale"]]

\* The board restarts: chrony starts empty, and only the file survives.
Reboot ==
    /\ boot < MaxBoots /\ Fault
    /\ boot' = boot + 1
    /\ up' = FALSE /\ disk' = AllOutdated(disk) /\ mem' = disk'
    /\ busy' = FreeLock /\ quality' = UnknownQuality
    /\ inFlight' = FALSE /\ calls' = NoCalls
    /\ makestep' = "none" /\ recent' = FALSE
    /\ spent' = {}

EngineInit ==
    /\ boot = 1 /\ up = TRUE
    /\ mem = FreshState(1) /\ disk = FreshState(1)
    /\ busy = FreeLock /\ quality = UnknownQuality
    /\ inFlight = FALSE /\ calls = NoCalls
    /\ makestep = "none"
    /\ recent = FALSE /\ spent = {} /\ faults = MaxFaults

\* The steps of the engine and of chrony that no request of pm-service causes.
EngineStep ==
    \/ \E o \in Observations(mem), g \in 1 .. mem.generation : RefreshApplies(o, g)
    \/ \E o \in Observations(mem), g \in 1 .. mem.generation, i \in 1 .. 5 :
          RefreshFails(o, g, i)
    \/ DispatchExpires \/ StartStepFails \/ StartStep
    \/ MakestepEnds \/ DispatchSettles \/ DeadlinePasses
    \/ \E confirmed \in BOOLEAN : StepEnds(confirmed)
    \/ \E p \in Producers : SubmitBegins(p)
    \/ SubmitSends \/ SubmitRecords \/ SubmitFindsExternal
    \/ Crash \/ NewEngine

\* The steps of the goroutine that serves a request.
Serve(h) ==
    \/ PrepareBegins(h) \/ PrepareTimesOut(h) \/ PrepareChecks(h)
    \/ ServeAbort(h) \/ \E lost \in BOOLEAN : ServeResume(h, lost)
=============================================================================
