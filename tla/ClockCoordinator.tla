-------------------------- MODULE ClockCoordinator --------------------------
(***************************************************************************)
(* The clock coordinator together with its client: pm-service, which asks  *)
(* for admission before every suspend and reports the resume, either of    *)
(* which may crash and restart, and logind, which takes the board down.    *)
(***************************************************************************)
EXTENDS ClockEngine

VARIABLES
    pm,        \* where pm-service is in its suspend sequence
    token,     \* the generation it holds
    disturbed  \* history: since pm-service last asked for admission, a request
               \* that nobody waits for has changed the fence

pmVars == <<pm, token, disturbed>>
vars == <<engineVars, pmVars>>

Stages == {"recover", "recover-resume", "idle", "prepare", "sleep", "abort", "resume"}

\* The request that pm-service makes at each stage but two.
Asking == pm \notin {"idle", "sleep"}

Op == CASE pm = "recover" -> "status"
        [] pm = "prepare" -> "prepare"
        [] pm = "abort" -> "abort"
        [] OTHER -> "resume"

-----------------------------------------------------------------------------
(* coordinatorRequest: one request, one answer or an error.                *)

\* Where pm-service goes on after an answer with the given status.  The first
\* two stages also run when pm-service starts, and end there.
After(ok, preparing) ==
    CASE pm = "recover" /\ ok /\ preparing -> {"recover-resume"}
      [] pm = "recover" /\ ok /\ ~preparing -> {"prepare", "idle"}
      [] pm = "recover-resume" /\ ok -> {"prepare", "idle"}
      [] pm = "prepare" /\ ok -> {IF preparing THEN "sleep" ELSE "abort"}
      [] OTHER -> {"idle"}

Awaited == {h \in Handlers : calls[h].awaited}

Ask(h) ==
    /\ up /\ Asking /\ Awaited = {} /\ Idle(h)
    /\ calls' = [calls EXCEPT ![h] = Call(Op, token)]
    /\ UNCHANGED <<mem, disk, up, busy, quality, inFlight, makestep, recent,
                   boot, spent, faults, pmVars>>

\* handle reads the status under a lock of its own, after the operation.  An
\* answer to a status request counts as an error when the quality in it is older
\* than thirty seconds, as it is between two polls of an NTP server.
Reply(h, old) ==
    /\ Unlocked /\ h \in Awaited /\ calls[h].stage \in {"ok", "error"}
    /\ old => calls[h].op = "status" /\ quality # UnknownQuality
    /\ pm' \in After(calls[h].stage = "ok" /\ ~old, Preparing(mem))
    /\ token' = IF pm' \in {"recover-resume", "sleep"} THEN mem.generation ELSE 0
    /\ calls' = [calls EXCEPT ![h] = NoCall]
    /\ disturbed' = (disturbed /\ pm' # "prepare")
    /\ UNCHANGED <<mem, disk, up, busy, quality, inFlight, makestep, recent,
                   boot, spent, faults>>

\* No answer comes: the daemon is down, died, or has no slot left.
CallFails ==
    /\ Asking /\ Awaited = {}
    /\ ~up \/ \A h \in Handlers : ~Idle(h)
    /\ pm' \in After(FALSE, FALSE) /\ token' = 0
    /\ UNCHANGED <<engineVars, disturbed>>

\* Nobody waits any more; the request is served all the same.
Abandoned ==
    [h \in Handlers |-> IF calls[h].stage \in {"ok", "error"} THEN NoCall
                        ELSE [calls[h] EXCEPT !.awaited = FALSE]]

\* The request takes more than five seconds.
CallTimesOut ==
    /\ Awaited # {} /\ Fault
    /\ pm' \in After(FALSE, FALSE) /\ token' = 0
    /\ calls' = Abandoned
    /\ UNCHANGED <<mem, disk, up, busy, quality, inFlight, makestep, recent,
                   boot, spent, disturbed>>

-----------------------------------------------------------------------------
(* EnterIssuingLowPower and SuspendAndWaitResume.                          *)

\* A suspend has passed the checks of the power FSM; an older preparation is
\* recovered first.
BeginSuspend ==
    /\ pm = "idle" /\ mem.generation < MaxGeneration
    /\ pm' = "recover"
    /\ UNCHANGED <<engineVars, token, disturbed>>

\* Mutant: a refused suspend is not reported to the coordinator.
SuspendFailsSilently ==
    /\ pm = "sleep"
    /\ pm' = "idle" /\ token' = 0
    /\ UNCHANGED <<engineVars, disturbed>>

\* logind refuses, or does not start the descent in time.
SuspendFails ==
    /\ pm = "sleep"
    /\ pm' = "abort" /\ token' = 0
    /\ UNCHANGED <<engineVars, disturbed>>

\* The board goes down and comes back.  Nothing runs in between.
BoardSleeps ==
    /\ pm = "sleep"
    /\ pm' = "resume"
    /\ UNCHANGED <<engineVars, token, disturbed>>

\* A restarted pm-service recovers what it finds.
PMCrash ==
    /\ Fault
    /\ pm' = "recover" /\ token' = 0 /\ calls' = Abandoned
    /\ UNCHANGED <<mem, disk, up, busy, quality, inFlight, makestep, recent,
                   boot, spent, disturbed>>

BoardReboots ==
    /\ Reboot
    /\ pm' = "recover" /\ token' = 0 /\ disturbed' = FALSE

-----------------------------------------------------------------------------
Init == EngineInit /\ pm = "recover" /\ token = 0 /\ disturbed = FALSE

EngineRuns == EngineStep /\ UNCHANGED pmVars

FenceChanges == mem.fence # mem'.fence \/ disk.fence # disk'.fence

Serves(h) ==
    /\ Serve(h)
    /\ disturbed' = (disturbed \/ (~calls[h].awaited /\ FenceChanges))
    /\ UNCHANGED <<pm, token>>

Next ==
    \/ EngineRuns
    \/ \E h \in Handlers : Serves(h) \/ Ask(h) \/ \E old \in BOOLEAN : Reply(h, old)
    \/ CallFails \/ CallTimesOut \/ BeginSuspend \/ SuspendFails \/ BoardSleeps
    \/ PMCrash \/ BoardReboots

Spec == Init /\ [][Next]_vars

-----------------------------------------------------------------------------
TypeOK ==
    /\ mem \in States /\ disk \in States /\ up \in BOOLEAN
    /\ busy \in [stage : {"free", "dispatch", "retry", "send", "record"},
                producer : Producers \cup {"none"}]
    /\ quality \in 0 .. MaxGeneration
    /\ inFlight \in BOOLEAN
    /\ calls \in [Handlers -> Calls]
    /\ makestep \in {"none", "running"}
    /\ recent \in BOOLEAN /\ boot \in 1 .. MaxBoots
    /\ spent \subseteq Episodes /\ faults \in 0 .. MaxFaults
    /\ pm \in Stages /\ token \in 0 .. MaxGeneration
    /\ disturbed \in BOOLEAN

Handshake == INSTANCE SuspendHandshake WITH
                 stepping <- (makestep = "running"), admitted <- Fenced(mem)

\* The coordinator keeps the promise of SuspendHandshake through failed saves,
\* crashes and restarts: what chrony does and what the engine has admitted
\* never overlap (README: prepare fences new dispatches and waits for an
\* in-flight command; PM must not suspend on an unresolved outcome).
FencesSteps == Handshake!Spec

\* When pm-service takes the board down its admission still stands, however
\* often the daemon restarted since, unless a request that outlived its client
\* (a crash or a timeout of pm-service) has changed the fence since.
SuspendIsFenced ==
    [][pm = "sleep" /\ pm' = "resume" =>
         \/ Fenced(mem) /\ makestep = "none"
         \/ disturbed]_vars

\* No episode steps the clock twice, and no second late episode of a kind steps
\* it at all, whatever was lost in a crash (README: an unknown outcome is never
\* blindly retried, a restart reloads the spent budget).
OneStepPerEpisode ==
    [][makestep = "none" /\ makestep' = "running" => mem.episode \notin spent]_vars

\* Evidence describes the sample chrony was given last, in memory and on disk
\* (engine.go:253: a crash cannot associate a newly delivered sample with older
\* persisted metadata).
EvidenceIsDelivered ==
    \A p \in Producers, m \in {mem, disk} :
        m.boot = boot => m.samples[p] # "stale"

\* Quality is published only for the current generation and while no step is
\* unresolved (README: unknown and in-flight outcomes do not publish source
\* quality; an observation from before a resume is not applied after it).
QualityIsCurrent ==
    quality # UnknownQuality => quality = mem.generation /\ ~Unresolved(mem)

\* A suspend sequence that is over has given the clock back: where nothing has
\* failed so far, nobody is left preparing while pm-service is idle.
PreparationIsReturned ==
    pm = "idle" /\ faults = MaxFaults => ~Preparing(mem)
=============================================================================
