----------------------------- MODULE ClockProofs -----------------------------
(***************************************************************************)
(* Proofs about the clock coordinator and its client, for any number of    *)
(* handlers, sources, producers, generations, boots and faults.            *)
(***************************************************************************)
EXTENDS ClockCoordinator, TLAPS

-----------------------------------------------------------------------------
(* The inductive invariant.                                                *)

\* What holds of the engine's state in memory and of the one in the file, each
\* taken by itself; a crash replaces the one by the other.

Current(m) == m.boot <= boot /\ (m.boot # boot => spent = {})

Delivered(m) == m.boot = boot => \A p \in Producers : m.samples[p] # "stale"

\* An admitted suspend has no step to wait for.
Admitted(m) == m.fence = "admitted" => ~Unresolved(m)

\* An episode that may still step has not stepped, and the marks that keep an
\* episode from being opened again cover every episode that has stepped.
Unspent(m) ==
    /\ Available(m) => m.episode \notin spent
    /\ Episode("late-external", 0) \in spent => m.lateUsed
    /\ Episode("late-holdover", 0) \in spent => m.lateHoldoverUsed
    /\ \A g \in 0 .. MaxGeneration :
          Episode("resume", g) \in spent => g <= m.generation
    /\ m.episode.kind = "late-external" => m.lateUsed
    /\ m.episode.kind = "late-holdover" => m.lateHoldoverUsed
    /\ m.episode.kind = "resume" => m.episode.generation <= m.generation

Sound(m) == Current(m) /\ Delivered(m) /\ Admitted(m) /\ Unspent(m)

\* What relates the two records, the daemon and chrony.

RunInv ==
    /\ up => mem.boot = boot /\ disk.boot = boot
    /\ ~up => /\ mem = disk /\ quality = UnknownQuality /\ ~inFlight
              /\ busy = FreeLock /\ calls = NoCalls

\* chrony is at work only while memory and file both say that it may be.
StepInv ==
    /\ makestep = "running" =>
         /\ recent /\ Unresolved(mem) /\ Unresolved(disk)
         /\ mem.boot = boot /\ disk.boot = boot
    /\ inFlight => mem.outcome = "in-flight"

\* A step that has been admitted and not been started.
DispatchInv ==
    busy.stage \in {"dispatch", "retry"} =>
        /\ up /\ mem = disk /\ mem.outcome = "in-flight" /\ mem.fence = "none"
        /\ recent /\ makestep = "none" /\ ~inFlight /\ mem.episode \notin spent

\* A sample on its way has no evidence.
SendInv ==
    busy.stage \in {"send", "record"} =>
        /\ busy.producer \in Producers
        /\ mem.samples[busy.producer] = "none" /\ disk.samples[busy.producer] = "none"

EngineInv ==
    /\ TypeOK /\ Sound(mem) /\ Sound(disk)
    /\ RunInv /\ StepInv /\ DispatchInv /\ SendInv /\ QualityIsCurrent

\* pm-service waits for at most one answer, to the request of its stage.
ClientInv ==
    /\ \A h \in Awaited : Asking /\ calls[h].op = Op
    /\ \A h, k \in Awaited : h = k

\* The admission pm-service acts on stands, in memory and in the file.
AdmissionInv ==
    ~disturbed =>
        /\ pm = "sleep" => Fenced(mem) /\ Fenced(disk)
        /\ \A h \in Awaited : calls[h].op = "prepare" /\ calls[h].stage = "ok" =>
              Fenced(mem) /\ Fenced(disk)

\* The fence that goes with the stage of a request of pm-service.
FenceOf(c, m) ==
    /\ c.op = "prepare" =>
         m.fence = CASE c.stage = "ok" -> "admitted"
                     [] c.stage \in {"waiting", "released", "check"} -> "preparing"
                     [] OTHER -> "none"
    /\ c.op = "abort" /\ c.stage \in {"ok", "error"} => m.fence = "none"
    /\ c.op = "resume" =>
         \/ c.stage = "queued" /\ m.fence = "admitted" /\ c.generation = m.generation
         \/ c.stage = "ok" /\ m.fence = "none"

\* Where nothing has failed, the fence is where the suspend sequence is.
SequenceInv ==
    faults = MaxFaults =>
        /\ up /\ pm # "recover-resume"
        /\ \A h \in Handlers : Idle(h) \/ h \in Awaited
        /\ pm \in {"recover", "idle"} => mem.fence = "none"
        /\ pm = "prepare" /\ Awaited = {} => mem.fence = "none"
        /\ pm = "sleep" \/ (pm = "resume" /\ Awaited = {}) =>
              mem.fence = "admitted" /\ token = mem.generation
        /\ \A h \in Awaited : FenceOf(calls[h], mem)

-----------------------------------------------------------------------------
(* The operators on the engine's state.                                    *)

\* n is m with another outcome, deadline, fence, evidence or external mark.
SameEpisode(m, n) ==
    /\ n.boot = m.boot /\ n.generation = m.generation /\ n.episode = m.episode
    /\ n.lateUsed = m.lateUsed /\ n.lateHoldoverUsed = m.lateHoldoverUsed

\* A state that stays in its episode is sound if it does not make a spent episode
\* available again, admits no suspend over a step and invents no evidence.
LEMMA SoundKept ==
    ASSUME NEW m, NEW n, Sound(m), SameEpisode(m, n),
           Available(n) => n.episode \notin spent,
           Admitted(n), Delivered(n)
    PROVE  Sound(n)
BY DEF Sound, SameEpisode, Current, Unspent

\* The state a boot starts with (Engine.freshState).
LEMMA FreshStateIsSound ==
    ASSUME TypeOK, spent = {}
    PROVE  /\ FreshState(boot) \in States /\ Sound(FreshState(boot))
           /\ FreshState(boot).boot = boot
<1>1. FreshState(boot) \in States
  BY BoundsAssumption DEF TypeOK, FreshState, States, Episodes, Episode, Outcomes, Fences,
                          NoSamples, Evidence
<1>2. /\ FreshState(boot).boot = boot /\ FreshState(boot).outcome = "available"
      /\ FreshState(boot).fence = "none" /\ FreshState(boot).samples = NoSamples
      /\ FreshState(boot).episode.kind = "initial"
  BY DEF FreshState, Episode
<1> QED
  BY <1>1, <1>2 DEF Sound, Current, Delivered, Admitted, Unspent, Unresolved, NoSamples, TypeOK

\* Another outcome.
LEMMA OutcomeOnly ==
    ASSUME NEW m \in States, NEW v \in Outcomes
    PROVE  LET n == [m EXCEPT !.outcome = v]
           IN /\ n \in States /\ SameEpisode(m, n) /\ n.outcome = v
              /\ n.fence = m.fence /\ n.samples = m.samples /\ n.open = m.open
BY DEF States, SameEpisode

\* An outcome that ends the step (Engine.clearDispatch).
LEMMA ResolvedOnly ==
    ASSUME NEW m \in States, NEW v \in Outcomes
    PROVE  LET n == Resolved(m, v)
           IN /\ n \in States /\ SameEpisode(m, n) /\ n.outcome = v
              /\ n.fence = m.fence /\ n.samples = m.samples /\ n.open = m.open
BY DEF States, SameEpisode, Resolved

\* Another fence.
LEMMA FenceOnly ==
    ASSUME NEW m \in States, NEW v \in Fences
    PROVE  LET n == [m EXCEPT !.fence = v]
           IN /\ n \in States /\ SameEpisode(m, n) /\ n.outcome = m.outcome
              /\ n.fence = v /\ n.samples = m.samples
BY DEF States, SameEpisode

\* External time has been established.
LEMMA ExternalOnly ==
    ASSUME NEW m \in States
    PROVE  LET n == [m EXCEPT !.external = TRUE]
           IN /\ n \in States /\ SameEpisode(m, n) /\ n.outcome = m.outcome
              /\ n.fence = m.fence /\ n.samples = m.samples /\ n.open = m.open
BY DEF States, SameEpisode

\* The deadline has passed.
LEMMA ClosedOnly ==
    ASSUME NEW m \in States
    PROVE  LET n == [m EXCEPT !.open = FALSE]
           IN /\ n \in States /\ SameEpisode(m, n) /\ n.outcome = m.outcome
              /\ n.fence = m.fence /\ n.samples = m.samples
BY DEF States, SameEpisode

\* Other evidence of one producer.
LEMMA SampleOnly ==
    ASSUME NEW m \in States, NEW p \in Producers, NEW v \in Evidence
    PROVE  LET n == [m EXCEPT !.samples[p] = v]
           IN /\ n \in States /\ SameEpisode(m, n) /\ n.outcome = m.outcome
              /\ n.fence = m.fence /\ n.samples = [m.samples EXCEPT ![p] = v]
BY DEF States, SameEpisode

\* A sample of a producer without evidence makes nothing stale.
LEMMA OutdatedKeeps ==
    ASSUME NEW m \in States, NEW p \in Producers, m.samples[p] = "none"
    PROVE  LET n == Outdated(m, p)
           IN /\ n \in States /\ SameEpisode(m, n) /\ n.outcome = m.outcome
              /\ n.fence = m.fence /\ n.samples = m.samples
<1>1. m.samples \in [Producers -> Evidence]
  BY DEF States
<1>2. [m.samples EXCEPT ![p] = "none"] = m.samples
  BY <1>1
<1>3. Outdated(m, p) \in States /\ SameEpisode(m, Outdated(m, p))
      /\ Outdated(m, p).outcome = m.outcome /\ Outdated(m, p).fence = m.fence
  BY DEF States, Outdated, SameEpisode, Evidence
<1>4. Outdated(m, p).samples = [m.samples EXCEPT ![p] = "none"]
  BY DEF States, Outdated
<1> QED
  BY <1>2, <1>3, <1>4

\* A reboot leaves no evidence of what chrony holds.
LEMMA AllOutdatedKeeps ==
    ASSUME NEW m \in States
    PROVE  LET n == AllOutdated(m)
           IN n \in States /\ SameEpisode(m, n) /\ n.outcome = m.outcome /\ n.fence = m.fence
BY DEF States, AllOutdated, SameEpisode, Evidence

\* A resume that lost time opens an episode that no generation has spent.
LEMMA ResumedIsSound ==
    ASSUME TypeOK, Sound(mem), mem.fence = "admitted", mem.generation < MaxGeneration,
           NEW lost \in BOOLEAN
    PROVE  LET n == Resumed(lost)
           IN /\ n \in States /\ Sound(n) /\ n.boot = mem.boot
              /\ n.generation = mem.generation + 1 /\ n.fence = "none"
              /\ n.samples = NoSamples /\ ~Unresolved(n)
<1> DEFINE n == Resumed(lost)
           g == mem.generation + 1
<1>m. mem \in States /\ mem.generation \in 1 .. MaxGeneration /\ g \in 1 .. MaxGeneration
  BY BoundsAssumption DEF TypeOK, States
<1>n. NoSamples \in [Producers -> Evidence]
  BY DEF NoSamples, Evidence
<1>1. CASE lost
  <2> DEFINE k == [mem EXCEPT !.fence = "none", !.generation = @ + 1, !.samples = NoSamples]
             e == Episode("resume", g)
  <2>k. /\ k \in States /\ k.boot = mem.boot /\ k.generation = g /\ k.fence = "none"
        /\ k.samples = NoSamples
        /\ k.lateUsed = mem.lateUsed /\ k.lateHoldoverUsed = mem.lateHoldoverUsed
    BY <1>m, <1>n, BoundsAssumption DEF States, Fences
  <2>e. e \in Episodes
    BY <1>m DEF Episodes, Episode
  <2>n. n = [k EXCEPT !.external = FALSE, !.outcome = "available", !.open = TRUE,
                      !.episode = e]
    BY <1>1, <2>k DEF Resumed
  <2> HIDE DEF k, e, n
  <2>0. /\ n \in States /\ n.boot = mem.boot /\ n.generation = g /\ n.fence = "none"
        /\ n.samples = NoSamples /\ n.outcome = "available"
        /\ n.episode = e
        /\ n.lateUsed = mem.lateUsed /\ n.lateHoldoverUsed = mem.lateHoldoverUsed
    BY <2>k, <2>e, <2>n DEF States, Outcomes
  <2>1. /\ n \in States /\ n.boot = mem.boot /\ n.generation = g /\ n.fence = "none"
        /\ n.samples = NoSamples /\ n.outcome = "available"
        /\ n.episode = Episode("resume", g)
        /\ n.lateUsed = mem.lateUsed /\ n.lateHoldoverUsed = mem.lateHoldoverUsed
    BY <2>0 DEF e
  <2>2. Episode("resume", g) \notin spent
    BY <1>m, BoundsAssumption DEF Sound, Unspent
  <2>3. Unspent(n)
    BY <2>1, <2>2, <1>m, BoundsAssumption DEF Sound, Unspent, Episode
  <2> QED
    BY <2>1, <2>3 DEF Sound, Current, Delivered, Admitted, NoSamples, Unresolved, n
<1>2. CASE ~lost
  <2>1. /\ n \in States /\ n.boot = mem.boot /\ n.generation = g /\ n.fence = "none"
        /\ n.samples = NoSamples /\ n.outcome = mem.outcome
        /\ n.episode = mem.episode
        /\ n.lateUsed = mem.lateUsed /\ n.lateHoldoverUsed = mem.lateHoldoverUsed
    BY <1>2, <1>m, <1>n, BoundsAssumption DEF States, Resumed, Fences
  <2>2. mem.episode.generation \in Nat
    BY <1>m, BoundsAssumption DEF States, Episodes
  <2>3. Unspent(n)
    BY <2>1, <2>2, <1>m, BoundsAssumption DEF Sound, Unspent, Available
  <2> QED
    BY <2>1, <2>3 DEF Sound, Current, Delivered, Admitted, NoSamples, Unresolved
<1> QED
  BY <1>1, <1>2

\* What a start makes of a sound file is sound, of this boot, and knows of no
\* step but an unknown one (Engine.load).
LEMMA ReloadedIsSound ==
    ASSUME TypeOK, Sound(disk)
    PROVE  LET n == Reloaded(disk)
           IN /\ n \in States /\ Sound(n) /\ n.boot = boot
              /\ disk.boot = boot => SameEpisode(disk, n) /\ n.fence = disk.fence
              /\ disk.boot = boot /\ Unresolved(disk) => Unresolved(n)
              /\ disk.boot # boot => n.fence = "none"
<1>1. CASE disk.boot # boot
  <2>1. spent = {}
    BY <1>1 DEF Sound, Current
  <2>2. FreshState(boot).fence = "none"
    BY DEF FreshState
  <2> QED
    BY <1>1, <2>1, <2>2, FreshStateIsSound DEF Reloaded
<1>2. CASE disk.boot = boot /\ disk.outcome = "in-flight"
  <2> DEFINE n == [disk EXCEPT !.outcome = "unknown"]
  <2>1. /\ n \in States /\ SameEpisode(disk, n) /\ n.outcome = "unknown"
        /\ n.fence = disk.fence /\ n.samples = disk.samples
    BY OutcomeOnly DEF TypeOK, Outcomes
  <2>2. Sound(n)
    <3>1. ~Available(n) /\ Admitted(n) /\ Delivered(n)
      BY <1>2, <2>1 DEF Sound, Available, Admitted, Delivered, Unresolved, SameEpisode
    <3> QED
      BY <3>1, <2>1, SoundKept
  <2>3. Reloaded(disk) = n
    BY <1>2 DEF Reloaded
  <2> QED
    BY <1>2, <2>1, <2>2, <2>3 DEF Unresolved, SameEpisode
<1>3. CASE disk.boot = boot /\ disk.outcome # "in-flight"
  BY <1>3 DEF Reloaded, TypeOK, SameEpisode
<1> QED
  BY <1>1, <1>2, <1>3

-----------------------------------------------------------------------------
(* refresh.                                                                *)

\* What a step of refresh may do to the state: it stays in its boot, generation
\* and fence, keeps its evidence, and leaves a step alone that chrony may be
\* working on.
Refreshed(m, n) ==
    /\ n \in States /\ Sound(n)
    /\ n.boot = m.boot /\ n.generation = m.generation
    /\ n.fence = m.fence /\ n.samples = m.samples
    /\ m.outcome = "in-flight" \/ (m.outcome = "unknown" /\ recent) =>
         n.outcome = m.outcome

\* A step of unknown outcome is reconciled ten seconds after its dispatch.
LEMMA ReconciledRefreshes ==
    ASSUME NEW m \in States, Sound(m), NEW e \in BOOLEAN
    PROVE  Refreshed(m, Reconciled(m, e))
<1>1. CASE m.outcome = "unknown" /\ ~recent /\ e
  <2> DEFINE n == Resolved(m, "reconciled")
  <2>1. /\ n \in States /\ SameEpisode(m, n) /\ n.outcome = "reconciled"
        /\ n.fence = m.fence /\ n.samples = m.samples
    BY ResolvedOnly DEF Outcomes
  <2>2. ~Available(n) /\ Admitted(n) /\ Delivered(n)
    BY <2>1 DEF Sound, Available, Admitted, Delivered, Unresolved, SameEpisode
  <2>3. Sound(n)
    BY <2>1, <2>2, SoundKept
  <2>4. Reconciled(m, e) = n
    BY <1>1 DEF Reconciled
  <2> QED
    BY <1>1, <2>1, <2>3, <2>4 DEF Refreshed, SameEpisode
<1>2. CASE ~(m.outcome = "unknown" /\ ~recent /\ e)
  BY <1>2 DEF Reconciled, Refreshed
<1> QED
  BY <1>1, <1>2

\* External time changes nothing about the step.
LEMMA EstablishedRefreshes ==
    ASSUME NEW m \in States, Sound(m), NEW o
    PROVE  Refreshed(m, Established(m, o))
<1> DEFINE n == [m EXCEPT !.external = TRUE]
<1>1. /\ n \in States /\ SameEpisode(m, n) /\ n.outcome = m.outcome
      /\ n.fence = m.fence /\ n.samples = m.samples
  BY ExternalOnly
<1>2. (Available(n) => n.episode \notin spent) /\ Admitted(n) /\ Delivered(n)
  BY <1>1 DEF Sound, Available, Admitted, Delivered, Unresolved, SameEpisode, Unspent
<1>3. Sound(n)
  BY <1>1, <1>2, SoundKept
<1>4. Established(m, o) \in {m, n}
  BY DEF Established
<1> QED
  BY <1>1, <1>3, <1>4 DEF Refreshed, SameEpisode

\* A late episode opens only where its kind has not been used, so that it has not
\* been spent either, and never over an unresolved step.
LEMMA LateEpisodeRefreshes ==
    ASSUME NEW m \in States, Sound(m), NEW o
    PROVE  /\ Refreshed(m, LateEpisode(m, o))
           /\ LateEpisode(m, o) # m => ~Unresolved(m)
<1> DEFINE Opened(kind) == [m EXCEPT !.episode = Episode(kind, 0), !.open = TRUE,
                                     !.outcome = "available"]
           x == [Opened("late-external") EXCEPT !.lateUsed = TRUE]
           h == [Opened("late-holdover") EXCEPT !.lateHoldoverUsed = TRUE]
           n == LateEpisode(m, o)
<1>o. ASSUME NEW kind \in {"late-external", "late-holdover"}
      PROVE  LET k == Opened(kind)
             IN /\ k \in States /\ k.boot = m.boot /\ k.generation = m.generation
                /\ k.fence = m.fence /\ k.samples = m.samples /\ k.outcome = "available"
                /\ k.episode = Episode(kind, 0)
                /\ k.lateUsed = m.lateUsed /\ k.lateHoldoverUsed = m.lateHoldoverUsed
  <2>1. Episode(kind, 0) \in Episodes
    BY BoundsAssumption DEF Episodes, Episode
  <2> QED
    BY <2>1 DEF States, Outcomes
<1>1. \/ n = m
      \/ ~Unresolved(m) /\ ~Preparing(m) /\ ~m.lateUsed /\ n = x
      \/ ~Unresolved(m) /\ ~Preparing(m) /\ ~m.lateHoldoverUsed /\ n = h
  BY DEF LateEpisode
<1>2. CASE n = x /\ ~Unresolved(m) /\ ~Preparing(m) /\ ~m.lateUsed
  <2>1. /\ x \in States /\ x.boot = m.boot /\ x.generation = m.generation
        /\ x.fence = m.fence /\ x.samples = m.samples /\ x.outcome = "available"
        /\ x.episode = Episode("late-external", 0) /\ x.lateUsed = TRUE
        /\ x.lateHoldoverUsed = m.lateHoldoverUsed
    <3> HIDE DEF Opened
    <3> QED
      BY <1>o DEF States
  <2>2. Unspent(x)
    BY <1>2, <2>1 DEF Sound, Unspent, Episode
  <2>3. Sound(x)
    BY <1>2, <2>1, <2>2 DEF Sound, Current, Delivered, Admitted, Preparing
  <2> QED
    BY <1>2, <2>1, <2>3 DEF Refreshed, Unresolved
<1>3. CASE n = h /\ ~Unresolved(m) /\ ~Preparing(m) /\ ~m.lateHoldoverUsed
  <2>1. /\ h \in States /\ h.boot = m.boot /\ h.generation = m.generation
        /\ h.fence = m.fence /\ h.samples = m.samples /\ h.outcome = "available"
        /\ h.episode = Episode("late-holdover", 0) /\ h.lateHoldoverUsed = TRUE
        /\ h.lateUsed = m.lateUsed
    <3> HIDE DEF Opened
    <3> QED
      BY <1>o DEF States
  <2>2. Unspent(h)
    BY <1>3, <2>1 DEF Sound, Unspent, Episode
  <2>3. Sound(h)
    BY <1>3, <2>1, <2>2 DEF Sound, Current, Delivered, Admitted, Preparing
  <2> QED
    BY <1>3, <2>1, <2>3 DEF Refreshed, Unresolved
<1>4. CASE n = m
  BY <1>4 DEF Refreshed
<1> QED
  BY <1>1, <1>2, <1>3, <1>4

\* A step is admitted only in an available episode and outside a preparation.
LEMMA DispatchedRefreshes ==
    ASSUME NEW m \in States, Sound(m), NEW o \in Observations(mem)
    PROVE  LET n == Dispatched(m, o)
           IN /\ Refreshed(m, n)
              /\ n # m => /\ Available(m) /\ m.fence = "none" /\ n.outcome = "in-flight"
                          /\ n.episode = m.episode /\ n.episode \notin spent
<1> DEFINE n == Dispatched(m, o)
           d == [m EXCEPT !.outcome = "in-flight",
                          !.dispatchSource = IF o.source \in Holdovers
                                             THEN o.source ELSE "none"]
<1>1. n = m \/ (n = d /\ Available(m) /\ m.fence = "none")
  BY DEF Dispatched, Preparing
<1>2. CASE n = m
  BY <1>2 DEF Refreshed
<1>3. CASE n = d /\ Available(m) /\ m.fence = "none"
  <2>1. (IF o.source \in Holdovers THEN o.source ELSE "none") \in Producers \cup {"none"}
    BY SourcesAssumption DEF Observations, Holdovers
  <2>2. d \in States /\ SameEpisode(m, d) /\ d.outcome = "in-flight"
        /\ d.fence = m.fence /\ d.samples = m.samples
    BY <2>1 DEF States, SameEpisode, Outcomes
  <2>3. ~Available(d) /\ Admitted(d) /\ Delivered(d)
    BY <2>2, <1>3 DEF Sound, Available, Admitted, Delivered, SameEpisode
  <2>4. Sound(d)
    BY <2>2, <2>3, SoundKept
  <2> QED
    BY <1>3, <2>2, <2>4 DEF Refreshed, SameEpisode, Available, Sound, Unspent
<1> QED
  BY <1>1, <1>2, <1>3

\* The states that refresh goes through: each is a refreshed one, one in which a
\* late episode opens knows of no step, and one that admits a step has an unspent
\* episode and differs from the state refresh began with.
LEMMA RefreshChain ==
    ASSUME TypeOK, Sound(mem), NEW o \in Observations(mem)
    PROVE  LET s == RefreshSteps(o)
           IN /\ \A i \in 0 .. 5 : Refreshed(mem, s[i])
              /\ s[0] = mem /\ s[2].outcome = s[1].outcome
              /\ s[4] # s[3] => ~Unresolved(s[3])
              /\ s[5] # s[4] =>
                    /\ s[5].outcome = "in-flight" /\ Available(s[4])
                    /\ s[5].fence = "none" /\ s[5].episode \notin spent
                    /\ ~Unresolved(mem) \/ ~recent
                    /\ mem.outcome # "in-flight"
<1> DEFINE r1 == Reconciled(mem, MovedAsDispatched(mem, o))
           r2 == Established(r1, o)
           e3 == Usable(r2, o) /\ o.source # "local" /\ o.residual = "settled"
           r3 == Reconciled(r2, e3)
           r4 == LateEpisode(r3, o)
           r5 == Dispatched(r4, o)
           s == RefreshSteps(o)
<1>s. /\ s[0] = mem /\ s[1] = r1 /\ s[2] = r2 /\ s[3] = r3 /\ s[4] = r4 /\ s[5] = r5
  <2>1. s = [i \in 0 .. 5 |-> IF i = 0 THEN mem ELSE IF i = 1 THEN r1
                              ELSE IF i = 2 THEN r2 ELSE IF i = 3 THEN r3
                              ELSE IF i = 4 THEN r4 ELSE r5]
    BY Zenon DEF RefreshSteps
  <2> HIDE DEF r1, r2, r3, r4, r5, s
  <2> QED
    BY <2>1
<1>t. \A m, n, k : Refreshed(m, n) /\ Refreshed(n, k) => Refreshed(m, k)
  BY DEF Refreshed
<1>f. \A m, n : Refreshed(m, n) => n \in States /\ Sound(n)
  BY DEF Refreshed
<1>0. Refreshed(mem, mem)
  BY DEF Refreshed, TypeOK
<1>1. Refreshed(mem, r1)
  <2>1. MovedAsDispatched(mem, o) \in BOOLEAN
    BY DEF MovedAsDispatched, Observations, Moves
  <2> QED
    BY <2>1, ReconciledRefreshes, <1>0, <1>f
<1>2. Refreshed(r1, r2) /\ r2.outcome = r1.outcome
  <2>1. r1 \in States /\ Sound(r1)
    BY <1>1, <1>f
  <2>2. Refreshed(r1, r2)
    BY <2>1, EstablishedRefreshes
  <2>3. [r1 EXCEPT !.external = TRUE].outcome = r1.outcome
    BY <2>1, ExternalOnly
  <2> QED
    BY <2>2, <2>3 DEF Established
<1>3. Refreshed(r2, r3)
  <2>1. r2 \in States /\ Sound(r2)
    BY <1>2, <1>f
  <2>2. e3 \in BOOLEAN
    OBVIOUS
  <2> QED
    BY <2>1, <2>2, ReconciledRefreshes
<1>4. Refreshed(r3, r4) /\ (r4 # r3 => ~Unresolved(r3))
  <2>1. r3 \in States /\ Sound(r3)
    BY <1>3, <1>f
  <2> QED
    BY <2>1, LateEpisodeRefreshes
<1>5. /\ Refreshed(r4, r5)
      /\ r5 # r4 => /\ Available(r4) /\ r4.fence = "none" /\ r5.outcome = "in-flight"
                    /\ r5.episode = r4.episode /\ r5.episode \notin spent
  <2>1. r4 \in States /\ Sound(r4)
    BY <1>4, <1>f
  <2> QED
    BY <2>1, DispatchedRefreshes
<1> HIDE DEF r1, r2, r3, r4, r5, s
<1>6. Refreshed(mem, r2) /\ Refreshed(mem, r3) /\ Refreshed(mem, r4) /\ Refreshed(mem, r5)
  BY <1>t, <1>1, <1>2, <1>3, <1>4, <1>5
<1>7. \A i \in 0 .. 5 : Refreshed(mem, s[i])
  BY <1>s, <1>0, <1>1, <1>6
<1>8. r5 # r4 => /\ r5.fence = "none"
                 /\ ~Unresolved(mem) \/ ~recent
                 /\ mem.outcome # "in-flight"
  BY <1>5, <1>6 DEF Refreshed, Available, Unresolved
<1>9. /\ \A i \in 0 .. 5 : Refreshed(mem, s[i])
      /\ s[0] = mem /\ s[2].outcome = s[1].outcome
      /\ s[4] # s[3] => ~Unresolved(s[3])
      /\ s[5] # s[4] =>
            /\ s[5].outcome = "in-flight" /\ Available(s[4])
            /\ s[5].fence = "none" /\ s[5].episode \notin spent
            /\ ~Unresolved(mem) \/ ~recent
            /\ mem.outcome # "in-flight"
  BY <1>s, <1>7, <1>2, <1>4, <1>5, <1>8
<1> QED
  BY <1>9 DEF s

-----------------------------------------------------------------------------
(* The engine's invariant, action by action.                               *)

\* The part of the invariant that most actions leave alone.
LEMMA SoundFrame ==
    ASSUME UNCHANGED <<boot, spent>>, Sound(mem'), Sound(disk')
    PROVE  Sound(mem)' /\ Sound(disk)'
BY DEF Sound, Current, Delivered, Admitted, Unspent, Available, Unresolved, Episode

\* A free lock is at neither of the stages that hold an invariant of their own.
LEMMA LockStages ==
    /\ \A stage, p : LockHeld(stage, p).stage = stage /\ LockHeld(stage, p).producer = p
    /\ FreeLock.stage = "free"
    /\ \A stage \in {"free", "dispatch", "retry"} :
          LockHeld(stage, "none") \in
              [stage : {"free", "dispatch", "retry", "send", "record"},
               producer : Producers \cup {"none"}]
    /\ FreeLock \in [stage : {"free", "dispatch", "retry", "send", "record"},
                     producer : Producers \cup {"none"}]
BY DEF LockHeld, FreeLock

\* refresh with every save done.
LEMMA RefreshAppliesInv ==
    ASSUME EngineInv, NEW o \in Observations(mem), NEW g \in 1 .. mem.generation,
           RefreshApplies(o, g), UNCHANGED pmVars
    PROVE  EngineInv'
<1> DEFINE s == RefreshSteps(o)
<1>s. /\ \A i \in 0 .. 5 : Refreshed(mem, s[i])
      /\ s[5] # s[4] =>
            /\ s[5].outcome = "in-flight" /\ Available(s[4])
            /\ s[5].fence = "none" /\ s[5].episode \notin spent
            /\ ~Unresolved(mem) \/ ~recent
            /\ mem.outcome # "in-flight"
  BY RefreshChain DEF EngineInv
<1>a. /\ Unlocked /\ g = mem.generation
      /\ mem' = s[5] /\ disk' = IF s[5] = mem THEN disk ELSE s[5]
      /\ quality' = UnknownQuality \/ (quality' = g /\ ~Unresolved(s[5]))
      /\ busy' = IF s[5] = s[4] THEN FreeLock
                 ELSE LockHeld(IF s[4].outcome = "retry" THEN "retry"
                               ELSE "dispatch", "none")
      /\ recent' = (s[5] # s[4] \/ recent)
      /\ UNCHANGED <<up, inFlight, calls, makestep, boot, spent, faults>>
  BY DEF RefreshApplies, RefreshIsCurrent
<1> HIDE DEF s
<1>1. Refreshed(mem, s[5])
  BY <1>s
<1>2. TypeOK'
  BY <1>a, <1>1, LockStages, BoundsAssumption
     DEF EngineInv, TypeOK, Refreshed, pmVars, UnknownQuality, States
<1>3. Sound(mem)' /\ Sound(disk)'
  BY <1>a, <1>1, SoundFrame DEF EngineInv, Refreshed
<1>4. RunInv'
  BY <1>a, <1>1 DEF EngineInv, RunInv, Refreshed, Unlocked
<1>5. StepInv'
  <2>1. makestep = "running" => s[5].outcome = mem.outcome /\ recent'
    BY <1>a, <1>1 DEF EngineInv, StepInv, Refreshed, Unresolved
  <2>2. inFlight => s[5].outcome = "in-flight"
    BY <1>1 DEF EngineInv, StepInv, Refreshed
  <2> QED
    BY <1>a, <1>1, <2>1, <2>2 DEF EngineInv, StepInv, Refreshed, Unresolved
<1>6. DispatchInv'
  BY <1>a, <1>s, LockStages DEF EngineInv, StepInv, DispatchInv, Unlocked, TypeOK
<1>7. SendInv'
  BY <1>a, LockStages DEF SendInv
<1>8. QualityIsCurrent'
  BY <1>a, <1>1 DEF QualityIsCurrent, Refreshed, Unresolved
<1> QED
  BY <1>2, <1>3, <1>4, <1>5, <1>6, <1>7, <1>8 DEF EngineInv

\* refresh with a save that fails.
LEMMA RefreshFailsInv ==
    ASSUME EngineInv, NEW o \in Observations(mem), NEW g \in 1 .. mem.generation,
           NEW i \in 1 .. 5, RefreshFails(o, g, i), UNCHANGED pmVars
    PROVE  EngineInv'
<1> DEFINE s == RefreshSteps(o)
<1>s. /\ \A k \in 0 .. 5 : Refreshed(mem, s[k])
      /\ s[4] # s[3] => ~Unresolved(s[3])
  BY RefreshChain DEF EngineInv
<1>a. /\ Unlocked /\ g = mem.generation /\ Fault /\ s[i] # s[i - 1]
      /\ disk' \in {disk, s[i - 1], s[i]}
      /\ mem' \in {s[i], s[i - 1]} /\ (i = 4 => mem' = s[3])
      /\ quality' = IF i = 4 THEN g ELSE UnknownQuality
      /\ recent' = (i = 5 \/ recent)
      /\ UNCHANGED <<up, busy, inFlight, calls, makestep, boot, spent>>
  BY DEF RefreshFails, RefreshIsCurrent
<1> HIDE DEF s
<1>1. Refreshed(mem, s[i]) /\ Refreshed(mem, s[i - 1])
  BY <1>s
<1>m. Refreshed(mem, mem') /\ (Refreshed(mem, disk') \/ disk' = disk)
  BY <1>1, <1>a
<1>2. TypeOK'
  BY <1>a, <1>m, BoundsAssumption
     DEF EngineInv, TypeOK, Refreshed, pmVars, UnknownQuality, States, Fault
<1>3. Sound(mem)' /\ Sound(disk)'
  BY <1>a, <1>m, SoundFrame DEF EngineInv, Refreshed
<1>4. RunInv'
  BY <1>a, <1>m DEF EngineInv, RunInv, Refreshed, Unlocked
<1>5. StepInv'
  BY <1>a, <1>m DEF EngineInv, StepInv, Refreshed, Unresolved
<1>6. DispatchInv' /\ SendInv'
  BY <1>a, LockStages DEF DispatchInv, SendInv, Unlocked
<1>7. QualityIsCurrent'
  BY <1>a, <1>s, <1>m DEF QualityIsCurrent, Refreshed, Unresolved
<1> QED
  BY <1>2, <1>3, <1>4, <1>5, <1>6, <1>7 DEF EngineInv

\* An admitted step is dropped: its deadline has passed, or chronyc cannot be
\* started.
LEMMA DispatchDropsInv ==
    ASSUME EngineInv, DispatchExpires \/ StartStepFails, UNCHANGED pmVars
    PROVE  EngineInv'
<1>a. /\ Dispatching /\ busy' = FreeLock
      /\ UNCHANGED <<up, quality, inFlight, calls, makestep, recent, boot, spent>>
      /\ \E v \in {"expired", "failed", "retry"} :
            /\ disk' \in {disk, Resolved(mem, v)}
            /\ mem' \in {Resolved(mem, v), [mem EXCEPT !.outcome = "unknown"]}
      /\ faults' = faults \/ Fault
  BY DEF DispatchExpires, StartStepFails, Saved, SaveFails
<1>b. /\ up /\ mem = disk /\ mem.outcome = "in-flight" /\ mem.fence = "none"
      /\ recent /\ makestep = "none" /\ ~inFlight /\ mem.episode \notin spent
  BY <1>a DEF Dispatching, EngineInv, DispatchInv
<1>o. ASSUME NEW v \in {"expired", "failed", "retry", "unknown"},
             NEW n \in {Resolved(mem, v), [mem EXCEPT !.outcome = v]}
      PROVE  n \in States /\ SameEpisode(mem, n) /\ Sound(n)
  <2>1. /\ Resolved(mem, v) \in States /\ SameEpisode(mem, Resolved(mem, v))
        /\ Resolved(mem, v).fence = mem.fence /\ Resolved(mem, v).samples = mem.samples
    BY ResolvedOnly DEF EngineInv, TypeOK, Outcomes
  <2>2. LET k == [mem EXCEPT !.outcome = v]
        IN k \in States /\ SameEpisode(mem, k) /\ k.fence = mem.fence
           /\ k.samples = mem.samples
    <3>1. mem \in States /\ v \in Outcomes
      BY DEF EngineInv, TypeOK, Outcomes
    <3> QED
      BY <3>1, OutcomeOnly, Zenon
  <2>3. n \in States /\ SameEpisode(mem, n) /\ n.fence = mem.fence /\ n.samples = mem.samples
    BY <2>1, <2>2
  <2>4. (Available(n) => n.episode \notin spent) /\ Admitted(n) /\ Delivered(n)
    BY <1>b, <2>3 DEF EngineInv, Sound, Available, Admitted, Delivered, SameEpisode
  <2> QED
    BY <2>3, <2>4, SoundKept DEF EngineInv
<1>1. \A v \in {"expired", "failed", "retry", "unknown"} :
        \A n \in {Resolved(mem, v), [mem EXCEPT !.outcome = v]} :
           n \in States /\ SameEpisode(mem, n) /\ Sound(n)
  BY <1>o
<1>m. /\ mem' \in States /\ SameEpisode(mem, mem') /\ Sound(mem')
      /\ disk' \in States /\ SameEpisode(mem, disk') /\ Sound(disk')
  <2>1. PICK v \in {"expired", "failed", "retry"} :
            /\ disk' \in {disk, Resolved(mem, v)}
            /\ mem' \in {Resolved(mem, v), [mem EXCEPT !.outcome = "unknown"]}
    BY <1>a
  <2>2. mem' \in States /\ SameEpisode(mem, mem') /\ Sound(mem')
    BY <2>1, <1>1
  <2>3. disk' = disk \/ (disk' \in States /\ SameEpisode(mem, disk') /\ Sound(disk'))
    BY <2>1, <1>1
  <2> QED
    BY <1>b, <2>2, <2>3 DEF EngineInv, TypeOK, SameEpisode
<1>2. TypeOK'
  BY <1>a, <1>m, LockStages, BoundsAssumption DEF EngineInv, TypeOK, pmVars, Fault
<1>3. Sound(mem)' /\ Sound(disk)'
  BY <1>a, <1>m, SoundFrame
<1>4. RunInv' /\ StepInv' /\ DispatchInv' /\ SendInv'
  BY <1>a, <1>b, <1>m, LockStages
     DEF EngineInv, RunInv, StepInv, DispatchInv, SendInv, SameEpisode, TypeOK
<1>5. QualityIsCurrent'
  BY <1>a, <1>b DEF EngineInv, QualityIsCurrent, Unresolved
<1> QED
  BY <1>2, <1>3, <1>4, <1>5 DEF EngineInv

\* chronyc is started: its episode is spent, in memory and in the file.
LEMMA StartStepInv ==
    ASSUME EngineInv, StartStep, UNCHANGED pmVars
    PROVE  EngineInv' /\ mem.episode \notin spent /\ mem.fence = "none"
<1>a. /\ Dispatching /\ makestep' = "running" /\ inFlight' = TRUE /\ busy' = FreeLock
      /\ spent' = spent \cup {mem.episode}
      /\ UNCHANGED <<mem, disk, up, quality, calls, recent, boot, faults>>
  BY DEF StartStep
<1>b. /\ up /\ mem = disk /\ mem.outcome = "in-flight" /\ mem.fence = "none"
      /\ recent /\ makestep = "none" /\ ~inFlight /\ mem.episode \notin spent
  BY <1>a DEF Dispatching, EngineInv, DispatchInv
<1>c. mem.boot = boot /\ disk.boot = boot /\ mem.episode \in Episodes
  BY <1>b DEF EngineInv, RunInv, TypeOK, States
<1>2. TypeOK'
  BY <1>a, <1>c, LockStages DEF EngineInv, TypeOK, pmVars
<1>3. Sound(mem)'
  <2>1. Unspent(mem)'
    <3>1. /\ Episode("late-external", 0) \in spent' => mem.lateUsed
          /\ Episode("late-holdover", 0) \in spent' => mem.lateHoldoverUsed
      BY <1>a DEF EngineInv, Sound, Unspent, Episode
    <3>2. \A k \in 0 .. MaxGeneration :
             Episode("resume", k) \in spent' => k <= mem.generation
      BY <1>a DEF EngineInv, Sound, Unspent, Episode
    <3> QED
      BY <1>a, <1>b, <3>1, <3>2 DEF EngineInv, Sound, Unspent, Available
  <2>2. Current(mem)'
    BY <1>a, <1>c DEF EngineInv, Sound, Current
  <2>3. Delivered(mem)' /\ Admitted(mem)'
    BY <1>a, <1>b DEF EngineInv, Sound, Delivered, Admitted
  <2> QED
    BY <2>1, <2>2, <2>3 DEF Sound
<1>4. Sound(disk)'
  <2>1. disk' = mem'
    BY <1>a, <1>b
  <2> QED
    BY <1>3, <2>1 DEF Sound, Current, Delivered, Admitted, Unspent
<1>5. RunInv' /\ DispatchInv' /\ SendInv'
  BY <1>a, <1>b, <1>c, LockStages DEF RunInv, DispatchInv, SendInv
<1>6. StepInv' /\ QualityIsCurrent'
  BY <1>a, <1>b, <1>c DEF EngineInv, StepInv, QualityIsCurrent, Unresolved
<1> QED
  BY <1>b, <1>2, <1>3, <1>4, <1>5, <1>6 DEF EngineInv

\* chrony comes to an end, and ten seconds pass.
LEMMA TimePassesInv ==
    ASSUME EngineInv, MakestepEnds \/ DispatchSettles, UNCHANGED pmVars
    PROVE  EngineInv'
<1>a. /\ UNCHANGED <<mem, disk, up, busy, quality, inFlight, calls, boot, spent, faults>>
      /\ makestep' = "none"
      /\ \/ UNCHANGED recent
         \/ recent' = FALSE /\ ~Dispatching
  BY DEF MakestepEnds, DispatchSettles, EngineInv, TypeOK
<1>b. busy.stage \in {"dispatch", "retry"} => UNCHANGED recent
  BY <1>a DEF EngineInv, DispatchInv, Dispatching
<1>1. TypeOK'
  BY <1>a DEF EngineInv, TypeOK, pmVars
<1>2. Sound(mem)' /\ Sound(disk)'
  BY <1>a, SoundFrame DEF EngineInv
<1>3. RunInv' /\ StepInv'
  BY <1>a DEF EngineInv, RunInv, StepInv, NoCalls
<1>4. DispatchInv'
  BY <1>a, <1>b DEF EngineInv, DispatchInv
<1>5. SendInv' /\ QualityIsCurrent'
  BY <1>a DEF EngineInv, SendInv, QualityIsCurrent, Unresolved
<1> QED
  BY <1>1, <1>2, <1>3, <1>4, <1>5 DEF EngineInv

\* The deadline of the episode passes, in memory and in the file.
LEMMA DeadlinePassesInv ==
    ASSUME EngineInv, DeadlinePasses, UNCHANGED pmVars
    PROVE  EngineInv'
<1> DEFINE Closed(m) == [m EXCEPT !.open = FALSE]
<1>a. /\ mem' = Closed(mem) /\ disk' = Closed(disk)
      /\ UNCHANGED <<up, busy, quality, inFlight, calls, makestep, recent, boot, spent, faults>>
  BY DEF DeadlinePasses
<1>1. ASSUME NEW m \in States, Sound(m)
      PROVE  /\ Closed(m) \in States /\ SameEpisode(m, Closed(m)) /\ Sound(Closed(m))
             /\ Closed(m).outcome = m.outcome /\ Closed(m).fence = m.fence
             /\ Closed(m).samples = m.samples
  <2>1. /\ Closed(m) \in States /\ SameEpisode(m, Closed(m))
        /\ Closed(m).outcome = m.outcome /\ Closed(m).fence = m.fence
        /\ Closed(m).samples = m.samples
    BY ClosedOnly, Zenon
  <2> HIDE DEF Closed
  <2>2. /\ Available(Closed(m)) => Closed(m).episode \notin spent
        /\ Admitted(Closed(m)) /\ Delivered(Closed(m))
    BY <2>1, <1>1 DEF Sound, Available, Admitted, Delivered, SameEpisode, Unspent, Unresolved
  <2> QED
    BY <1>1, <2>1, <2>2, SoundKept
<1>2. mem \in States /\ Sound(mem) /\ disk \in States /\ Sound(disk)
  BY DEF EngineInv, TypeOK
<1> HIDE DEF Closed
<1>3. /\ mem' \in States /\ SameEpisode(mem, mem') /\ Sound(mem')
      /\ mem'.outcome = mem.outcome /\ mem'.fence = mem.fence /\ mem'.samples = mem.samples
  BY <1>a, <1>1, <1>2
<1>4. /\ disk' \in States /\ SameEpisode(disk, disk') /\ Sound(disk')
      /\ disk'.outcome = disk.outcome /\ disk'.samples = disk.samples
  BY <1>a, <1>1, <1>2
<1>e. mem = disk => mem' = disk'
  BY <1>a
<1>5. TypeOK'
  BY <1>a, <1>3, <1>4 DEF EngineInv, TypeOK, pmVars
<1>6. Sound(mem)' /\ Sound(disk)'
  BY <1>a, <1>3, <1>4, SoundFrame
<1>7. RunInv' /\ StepInv'
  BY <1>a, <1>e, <1>3, <1>4 DEF EngineInv, RunInv, StepInv, Unresolved, SameEpisode, NoCalls
<1>8. DispatchInv'
  BY <1>a, <1>e, <1>3 DEF EngineInv, DispatchInv, SameEpisode
<1>9. SendInv' /\ QualityIsCurrent'
  BY <1>a, <1>3, <1>4 DEF EngineInv, SendInv, QualityIsCurrent, Unresolved, SameEpisode
<1> QED
  BY <1>5, <1>6, <1>7, <1>8, <1>9 DEF EngineInv

\* The parts of the state that no request and no sample touches.
Kept(m, n) ==
    /\ n \in States /\ Sound(n)
    /\ n.boot = m.boot /\ n.generation = m.generation /\ n.outcome = m.outcome

\* A step of the daemon that leaves the outcome alone and ends with the lock free.
LEMMA KeptInv ==
    ASSUME EngineInv, up, busy' = FreeLock,
           UNCHANGED <<up, quality, inFlight, makestep, recent, boot, spent, pm, token>>,
           Kept(mem, mem'), Kept(mem, disk') \/ Kept(disk, disk'),
           calls' \in [Handlers -> Calls], faults' = faults \/ Fault,
           disturbed' \in BOOLEAN
    PROVE  EngineInv'
<1>1. TypeOK'
  BY LockStages, BoundsAssumption DEF EngineInv, TypeOK, Kept, Fault
<1>2. Sound(mem)' /\ Sound(disk)'
  BY SoundFrame DEF Kept
<1>3. RunInv' /\ StepInv'
  BY DEF EngineInv, RunInv, StepInv, Unresolved, Kept
<1>4. DispatchInv' /\ SendInv'
  BY LockStages DEF DispatchInv, SendInv
<1>5. QualityIsCurrent'
  BY DEF EngineInv, QualityIsCurrent, Unresolved, Kept
<1> QED
  BY <1>1, <1>2, <1>3, <1>4, <1>5 DEF EngineInv

\* The fence may be dropped or raised at any time, but admits no suspend over a
\* step.
LEMMA FenceKept ==
    ASSUME NEW m \in States, Sound(m), NEW v \in Fences, v = "admitted" => ~Unresolved(m)
    PROVE  Kept(m, [m EXCEPT !.fence = v]) /\ [m EXCEPT !.fence = v].fence = v
<1> DEFINE n == [m EXCEPT !.fence = v]
<1>1. /\ n \in States /\ SameEpisode(m, n) /\ n.outcome = m.outcome
      /\ n.fence = v /\ n.samples = m.samples
  BY FenceOnly, Zenon
<1> HIDE DEF n
<1>2. (Available(n) => n.episode \notin spent) /\ Admitted(n) /\ Delivered(n)
  BY <1>1 DEF Sound, Available, Admitted, Delivered, SameEpisode, Unspent, Unresolved
<1>3. Kept(m, n) /\ n.fence = v
  BY <1>1, <1>2, SoundKept DEF Kept, SameEpisode
<1> QED
  BY <1>3 DEF n

\* Evidence may go, and may be recorded.
LEMMA SampleKept ==
    ASSUME NEW m \in States, Sound(m), NEW p \in Producers, NEW v \in {"none", "last"}
    PROVE  LET n == [m EXCEPT !.samples[p] = v]
           IN Kept(m, n) /\ n.fence = m.fence /\ n.samples[p] = v
<1> DEFINE n == [m EXCEPT !.samples[p] = v]
<1>0. v \in Evidence /\ m.samples \in [Producers -> Evidence]
  BY DEF Evidence, States
<1>1. /\ n \in States /\ SameEpisode(m, n) /\ n.outcome = m.outcome
      /\ n.fence = m.fence /\ n.samples = [m.samples EXCEPT ![p] = v]
  BY <1>0, SampleOnly, Zenon
<1> HIDE DEF n
<1>2. n.samples[p] = v /\ Delivered(n)
  BY <1>0, <1>1 DEF Sound, Delivered, SameEpisode
<1>3. (Available(n) => n.episode \notin spent) /\ Admitted(n)
  BY <1>1 DEF Sound, Available, Admitted, SameEpisode, Unspent, Unresolved
<1>4. Kept(m, n) /\ n.fence = m.fence /\ n.samples[p] = v
  BY <1>1, <1>2, <1>3, SoundKept DEF Kept, SameEpisode
<1> QED
  BY <1>4 DEF n

\* The requests keep their form.
LEMMA CallsTyped ==
    ASSUME TypeOK
    PROVE  /\ Released \in [Handlers -> Calls]
           /\ Abandoned \in [Handlers -> Calls]
           /\ NoCalls \in [Handlers -> Calls]
           /\ \A h \in Handlers : [calls EXCEPT ![h] = NoCall] \in [Handlers -> Calls]
           /\ \A h \in Handlers : [calls EXCEPT ![h] = Call(Op, token)] \in [Handlers -> Calls]
<1>1. NoCall \in Calls
  BY BoundsAssumption DEF NoCall, Calls
<1>2. \A h \in Handlers : calls[h] \in Calls
  BY DEF TypeOK
<1>3. \A c \in Calls : [c EXCEPT !.stage = "released"] \in Calls
                       /\ [c EXCEPT !.awaited = FALSE] \in Calls
  BY DEF Calls
<1>4. Call(Op, token) \in Calls
  BY DEF TypeOK, Call, Calls, Op
<1>5. Released \in [Handlers -> Calls]
  BY <1>2, <1>3 DEF Released
<1>6. Abandoned \in [Handlers -> Calls]
  BY <1>1, <1>2, <1>3 DEF Abandoned
<1>7. NoCalls \in [Handlers -> Calls]
  BY <1>1 DEF NoCalls
<1> QED
  BY <1>1, <1>4, <1>5, <1>6, <1>7 DEF TypeOK

\* An answer sets the stage of an awaited request and ends any other one.
LEMMA AnswerTyped ==
    ASSUME TypeOK, NEW h \in Handlers,
           NEW v \in {"ok", "error", "waiting", "check"},
           Answer(h, v) \/ SetStage(h, v)
    PROVE  calls' \in [Handlers -> Calls]
<1>1. NoCall \in Calls
  BY BoundsAssumption DEF NoCall, Calls
<1>2. calls[h] \in Calls /\ calls \in [Handlers -> Calls]
  BY DEF TypeOK
<1>3. [calls[h] EXCEPT !.stage = v] \in Calls
  BY <1>2 DEF Calls
<1>4. CASE Answer(h, v)
  BY <1>1, <1>2, <1>3, <1>4 DEF Answer
<1>5. CASE SetStage(h, v)
  <2>1. calls' = [calls EXCEPT ![h] = [calls[h] EXCEPT !.stage = v]]
    BY <1>5 DEF SetStage
  <2> QED
    BY <2>1, <1>2, <1>3
<1> QED
  BY <1>4, <1>5

\* The goroutine that waits for chronyc ends.  Memory and file may differ after a
\* failed save, but neither forgets a step that chrony is still working on.
LEMMA StepEndsInv ==
    ASSUME EngineInv, NEW confirmed \in BOOLEAN, StepEnds(confirmed), UNCHANGED pmVars
    PROVE  EngineInv'
<1> DEFINE u == [mem EXCEPT !.outcome = "unknown"]
           c == Resolved(mem, "completed")
<1>a. /\ Unlocked /\ inFlight /\ inFlight' = FALSE /\ calls' = Released
      /\ mem' \in {u, c} /\ disk' \in {disk, u, c}
      /\ makestep = "running" => mem' = u /\ disk' \in {disk, u}
      /\ faults' = faults \/ Fault
      /\ UNCHANGED <<up, busy, quality, makestep, recent, boot, spent>>
  BY DEF StepEnds, Saved, SaveFails
<1>b. mem.outcome = "in-flight" /\ mem.fence # "admitted" /\ mem \in States
  BY <1>a DEF EngineInv, StepInv, Sound, Admitted, Unresolved, TypeOK
<1>1. /\ u \in States /\ SameEpisode(mem, u) /\ u.outcome = "unknown"
      /\ u.fence = mem.fence /\ u.samples = mem.samples
  <2>1. "unknown" \in Outcomes
    BY DEF Outcomes
  <2> QED
    BY <1>b, <2>1, OutcomeOnly, Zenon
<1>2. /\ c \in States /\ SameEpisode(mem, c) /\ c.outcome = "completed"
      /\ c.fence = mem.fence /\ c.samples = mem.samples
  BY <1>b, ResolvedOnly DEF Outcomes
<1> HIDE DEF u, c
<1>3. ASSUME NEW n \in {u, c} PROVE Sound(n)
  <2>1. ~Available(n) /\ Admitted(n) /\ Delivered(n)
    BY <1>b, <1>1, <1>2 DEF EngineInv, Sound, Available, Admitted, Delivered, SameEpisode
  <2> QED
    BY <2>1, <1>1, <1>2, SoundKept DEF EngineInv
<1>4. TypeOK'
  <2>1. calls' \in [Handlers -> Calls]
    BY <1>a, CallsTyped DEF EngineInv
  <2>2. faults' \in 0 .. MaxFaults
    BY <1>a, BoundsAssumption DEF EngineInv, TypeOK, Fault
  <2> QED
    BY <1>a, <1>1, <1>2, <2>1, <2>2 DEF EngineInv, TypeOK, pmVars
<1>5. Sound(mem)' /\ Sound(disk)'
  BY <1>a, <1>3, SoundFrame DEF EngineInv
<1>6. RunInv' /\ StepInv'
  BY <1>a, <1>1, <1>2 DEF EngineInv, RunInv, StepInv, Unresolved, SameEpisode, Unlocked
<1>7. DispatchInv' /\ SendInv'
  BY <1>a, LockStages DEF DispatchInv, SendInv, Unlocked
<1>8. QualityIsCurrent'
  BY <1>a, <1>b DEF EngineInv, QualityIsCurrent, Unresolved
<1> QED
  BY <1>4, <1>5, <1>6, <1>7, <1>8 DEF EngineInv

\* A submission first takes back what is known of earlier samples.
LEMMA SubmitBeginsInv ==
    ASSUME EngineInv, NEW p \in Producers, SubmitBegins(p), UNCHANGED pmVars
    PROVE  EngineInv'
<1> DEFINE n == [mem EXCEPT !.samples[p] = "none"]
<1>a. /\ Unlocked /\ mem' = n
      /\ \/ disk' = n /\ UNCHANGED faults /\ busy' = LockHeld("send", p)
         \/ Fault /\ disk' \in {disk, n} /\ UNCHANGED busy
      /\ UNCHANGED <<up, quality, inFlight, calls, makestep, recent, boot, spent>>
  BY DEF SubmitBegins, Saved, SaveFails
<1>t. mem \in States /\ disk \in States /\ Sound(mem) /\ Sound(disk)
      /\ calls \in [Handlers -> Calls] /\ disturbed \in BOOLEAN /\ up /\ busy = FreeLock
  BY <1>a DEF EngineInv, TypeOK, Unlocked
<1>1. Kept(mem, n) /\ n.samples[p] = "none"
  BY <1>t, SampleKept, Zenon
<1>2. Kept(disk, disk)
  BY <1>t DEF Kept
<1> HIDE DEF n
<1>3. CASE Fault /\ disk' \in {disk, n} /\ UNCHANGED busy
  BY <1>a, <1>t, <1>1, <1>2, <1>3, KeptInv DEF pmVars
<1>4. CASE disk' = n /\ UNCHANGED faults /\ busy' = LockHeld("send", p)
  <2>1. TypeOK'
    BY <1>a, <1>4, <1>1 DEF EngineInv, TypeOK, Kept, pmVars, LockHeld
  <2>2. Sound(mem)' /\ Sound(disk)'
    BY <1>a, <1>4, <1>1, SoundFrame DEF Kept
  <2>3. RunInv' /\ StepInv'
    BY <1>a, <1>t, <1>4, <1>1 DEF EngineInv, RunInv, StepInv, Unresolved, Kept
  <2>4. DispatchInv' /\ SendInv'
    BY <1>a, <1>4, <1>1, LockStages DEF DispatchInv, SendInv
  <2>5. QualityIsCurrent'
    BY <1>a, <1>1 DEF EngineInv, QualityIsCurrent, Unresolved, Kept
  <2> QED
    BY <2>1, <2>2, <2>3, <2>4, <2>5 DEF EngineInv
<1> QED
  BY <1>a, <1>3, <1>4

\* A sample reaches chrony only while neither memory nor file has evidence of an
\* older one.
LEMMA SubmitSendsInv ==
    ASSUME EngineInv, SubmitSends, UNCHANGED pmVars
    PROVE  EngineInv'
<1> DEFINE p == busy.producer
           n == Outdated(mem, p)
           d == Outdated(disk, p)
<1>a. /\ up /\ busy.stage = "send"
      /\ \/ mem' = n /\ disk' = d /\ busy' = LockHeld("record", p)
         \/ UNCHANGED <<mem, disk>> /\ busy' = FreeLock
      /\ UNCHANGED <<up, quality, inFlight, calls, makestep, recent, boot, spent, faults>>
  BY DEF SubmitSends
<1>t. /\ mem \in States /\ disk \in States /\ Sound(mem) /\ Sound(disk)
      /\ calls \in [Handlers -> Calls] /\ disturbed \in BOOLEAN
      /\ p \in Producers /\ mem.samples[p] = "none" /\ disk.samples[p] = "none"
  BY <1>a DEF EngineInv, TypeOK, SendInv
<1> HIDE DEF p, n, d
<1>1. ASSUME NEW m \in States, Sound(m), m.samples[p] = "none"
      PROVE  /\ Kept(m, Outdated(m, p)) /\ Outdated(m, p).samples[p] = "none"
  <2> DEFINE k == Outdated(m, p)
  <2>1. /\ k \in States /\ SameEpisode(m, k) /\ k.outcome = m.outcome
        /\ k.fence = m.fence /\ k.samples = m.samples
    BY <1>1, <1>t, OutdatedKeeps
  <2> HIDE DEF k
  <2>2. (Available(k) => k.episode \notin spent) /\ Admitted(k) /\ Delivered(k)
    BY <1>1, <2>1 DEF Sound, Available, Admitted, Delivered, SameEpisode, Unspent, Unresolved
  <2>3. Kept(m, k) /\ k.samples[p] = "none"
    BY <1>1, <2>1, <2>2, SoundKept DEF Kept, SameEpisode
  <2> QED
    BY <2>3 DEF k
<1>2. /\ Kept(mem, n) /\ n.samples[p] = "none"
      /\ Kept(disk, d) /\ d.samples[p] = "none"
  BY <1>1, <1>t, Zenon DEF n, d
<1>3. CASE UNCHANGED <<mem, disk>> /\ busy' = FreeLock
  <2>1. Kept(mem, mem') /\ Kept(disk, disk')
    BY <1>3, <1>t DEF Kept
  <2> QED
    BY <1>a, <1>t, <1>3, <2>1, KeptInv DEF pmVars
<1>4. CASE mem' = n /\ disk' = d /\ busy' = LockHeld("record", p)
  <2>1. TypeOK'
    BY <1>a, <1>t, <1>4, <1>2 DEF EngineInv, TypeOK, Kept, pmVars, LockHeld
  <2>2. Sound(mem)' /\ Sound(disk)'
    BY <1>a, <1>4, <1>2, SoundFrame DEF Kept
  <2>3. RunInv' /\ StepInv'
    BY <1>a, <1>t, <1>4, <1>2 DEF EngineInv, RunInv, StepInv, Unresolved, Kept
  <2>4. DispatchInv' /\ SendInv'
    BY <1>a, <1>t, <1>4, <1>2, LockStages DEF DispatchInv, SendInv
  <2>5. QualityIsCurrent'
    BY <1>a, <1>4, <1>2 DEF EngineInv, QualityIsCurrent, Unresolved, Kept
  <2> QED
    BY <2>1, <2>2, <2>3, <2>4, <2>5 DEF EngineInv
<1> QED
  BY <1>a, <1>3, <1>4

\* The new sample is recorded, or external time is found before an nRF sample.
LEMMA SubmitRecordsInv ==
    ASSUME EngineInv, SubmitRecords \/ SubmitFindsExternal, UNCHANGED pmVars
    PROVE  EngineInv'
<1>t. mem \in States /\ disk \in States /\ Sound(mem) /\ Sound(disk)
      /\ calls \in [Handlers -> Calls] /\ disturbed \in BOOLEAN
      /\ Kept(mem, mem) /\ Kept(disk, disk)
  BY DEF EngineInv, TypeOK, Kept
<1>1. CASE SubmitRecords
  <2> DEFINE p == busy.producer
             n == [mem EXCEPT !.samples[p] = "last"]
  <2>a. /\ up /\ busy.stage = "record" /\ busy' = FreeLock
        /\ mem' \in {mem, n} /\ disk' \in {disk, n} /\ (faults' = faults \/ Fault)
        /\ UNCHANGED <<up, quality, inFlight, calls, makestep, recent, boot, spent>>
    BY <1>1 DEF SubmitRecords, Saved, SaveFails
  <2>1. p \in Producers
    BY <2>a DEF EngineInv, SendInv
  <2>2. Kept(mem, n)
    <3> HIDE DEF p
    <3> QED
      BY <1>t, <2>1, SampleKept, Zenon
  <2> HIDE DEF n
  <2> QED
    BY <1>t, <2>a, <2>2, KeptInv DEF pmVars
<1>2. CASE SubmitFindsExternal
  <2> DEFINE n == [mem EXCEPT !.external = TRUE]
  <2>a. /\ up /\ busy = FreeLock /\ mem' = n /\ disk' \in {disk, n}
        /\ (faults' = faults \/ Fault)
        /\ UNCHANGED <<up, busy, quality, inFlight, calls, makestep, recent, boot, spent>>
    BY <1>2 DEF SubmitFindsExternal, Saved, SaveFails, Unlocked
  <2>1. /\ n \in States /\ SameEpisode(mem, n) /\ n.outcome = mem.outcome
        /\ n.fence = mem.fence /\ n.samples = mem.samples
    BY <1>t, ExternalOnly, Zenon
  <2> HIDE DEF n
  <2>2. (Available(n) => n.episode \notin spent) /\ Admitted(n) /\ Delivered(n)
    BY <1>t, <2>1 DEF Sound, Available, Admitted, Delivered, SameEpisode, Unspent, Unresolved
  <2>3. Kept(mem, n)
    BY <1>t, <2>1, <2>2, SoundKept DEF Kept, SameEpisode
  <2> QED
    BY <1>t, <2>a, <2>3, KeptInv DEF pmVars
<1> QED
  BY <1>1, <1>2

\* The daemon dies: what is left is the file, which knows of every step.
LEMMA CrashInv ==
    ASSUME EngineInv, Crash, UNCHANGED pmVars
    PROVE  EngineInv'
<1>a. /\ up /\ Fault /\ up' = FALSE /\ mem' = disk /\ disk' = disk
      /\ busy' = FreeLock /\ quality' = UnknownQuality
      /\ inFlight' = FALSE /\ calls' = NoCalls
      /\ UNCHANGED <<makestep, recent, boot, spent>>
  BY DEF Crash
<1>1. TypeOK'
  <2>1. NoCalls \in [Handlers -> Calls]
    BY CallsTyped DEF EngineInv
  <2>2. faults' \in 0 .. MaxFaults /\ quality' \in 0 .. MaxGeneration
    BY <1>a, BoundsAssumption DEF EngineInv, TypeOK, Fault, UnknownQuality
  <2>3. up' \in BOOLEAN /\ inFlight' \in BOOLEAN
    BY <1>a, Zenon
  <2> QED
    BY <1>a, <2>1, <2>2, <2>3, LockStages DEF EngineInv, TypeOK, pmVars
<1>2. Sound(mem)' /\ Sound(disk)'
  BY <1>a, SoundFrame DEF EngineInv
<1>3. RunInv' /\ StepInv'
  BY <1>a DEF EngineInv, RunInv, StepInv, Unresolved
<1>4. DispatchInv' /\ SendInv' /\ QualityIsCurrent'
  BY <1>a, LockStages DEF DispatchInv, SendInv, QualityIsCurrent
<1> QED
  BY <1>1, <1>2, <1>3, <1>4 DEF EngineInv

\* A start forgets another boot's state and keeps every step of this one.
LEMMA NewEngineInv ==
    ASSUME EngineInv, NewEngine, UNCHANGED pmVars
    PROVE  EngineInv'
<1> DEFINE n == Reloaded(disk)
<1>a. /\ ~up /\ mem' = disk' /\ (faults' = faults \/ Fault)
      /\ \/ disk' = n /\ up' = TRUE
         \/ disk' \in {disk, n} /\ up' = up
      /\ UNCHANGED <<busy, quality, inFlight, calls, makestep, recent, boot, spent>>
  BY DEF NewEngine, Saved, SaveFails
<1>b. mem = disk /\ quality = UnknownQuality /\ ~inFlight /\ busy = FreeLock /\ calls = NoCalls
  BY <1>a DEF EngineInv, RunInv
<1>c. /\ n \in States /\ Sound(n) /\ n.boot = boot
      /\ disk.boot = boot /\ Unresolved(disk) => Unresolved(n)
  BY ReloadedIsSound DEF EngineInv
<1> HIDE DEF n
<1>1. TypeOK'
  <2>1. faults' \in 0 .. MaxFaults
    BY <1>a, BoundsAssumption DEF EngineInv, TypeOK, Fault
  <2>2. up' \in BOOLEAN
    BY <1>a, Zenon DEF EngineInv, TypeOK
  <2> QED
    BY <1>a, <1>c, <2>1, <2>2 DEF EngineInv, TypeOK, pmVars
<1>2. Sound(mem)' /\ Sound(disk)'
  BY <1>a, <1>c, SoundFrame DEF EngineInv
<1>3. RunInv'
  BY <1>a, <1>b, <1>c DEF RunInv, NoCalls
<1>4. StepInv'
  BY <1>a, <1>b, <1>c DEF EngineInv, StepInv, Unresolved
<1>5. DispatchInv' /\ SendInv' /\ QualityIsCurrent'
  BY <1>a, <1>b, LockStages DEF DispatchInv, SendInv, QualityIsCurrent
<1> QED
  BY <1>1, <1>2, <1>3, <1>4, <1>5 DEF EngineInv

\* A reboot leaves a file of an earlier boot, and a boot that has spent nothing.
LEMMA BoardRebootsInv ==
    ASSUME EngineInv, BoardReboots
    PROVE  EngineInv'
<1> DEFINE n == AllOutdated(disk)
<1>a. /\ Fault /\ boot < MaxBoots /\ boot' = boot + 1
      /\ up' = FALSE /\ disk' = n /\ mem' = n
      /\ busy' = FreeLock /\ quality' = UnknownQuality
      /\ inFlight' = FALSE /\ calls' = NoCalls
      /\ makestep' = "none" /\ recent' = FALSE /\ spent' = {}
      /\ pm' = "recover" /\ token' = 0 /\ disturbed' = FALSE
  BY DEF BoardReboots, Reboot
<1>b. n \in States /\ SameEpisode(disk, n) /\ n.outcome = disk.outcome /\ n.fence = disk.fence
  BY AllOutdatedKeeps DEF EngineInv, TypeOK
<1> HIDE DEF n
<1>1. TypeOK'
  <2>1. NoCalls \in [Handlers -> Calls]
    BY CallsTyped DEF EngineInv
  <2>2. /\ faults' \in 0 .. MaxFaults /\ quality' \in 0 .. MaxGeneration
        /\ boot' \in 1 .. MaxBoots /\ token' \in 0 .. MaxGeneration
    BY <1>a, BoundsAssumption DEF EngineInv, TypeOK, Fault, UnknownQuality
  <2>3. up' \in BOOLEAN /\ inFlight' \in BOOLEAN /\ recent' \in BOOLEAN /\ disturbed' \in BOOLEAN
    BY <1>a, Zenon
  <2> QED
    BY <1>a, <1>b, <2>1, <2>2, <2>3, LockStages DEF TypeOK, Stages
<1>2. Sound(mem)'
  <2>1. n.boot < boot'
    BY <1>a, <1>b, BoundsAssumption DEF EngineInv, TypeOK, States, Sound, Current, SameEpisode
  <2>2. Current(mem)' /\ Delivered(mem)'
    BY <1>a, <1>b, <2>1, BoundsAssumption DEF Current, Delivered, EngineInv, TypeOK, States
  <2>3. Admitted(mem)' /\ Unspent(mem)'
    BY <1>a, <1>b DEF EngineInv, Sound, Admitted, Unspent, Unresolved, SameEpisode
  <2> QED
    BY <2>2, <2>3 DEF Sound
<1>3. Sound(disk)'
  <2>1. disk' = mem'
    BY <1>a
  <2> QED
    BY <1>2, <2>1 DEF Sound, Current, Delivered, Admitted, Unspent
<1>4. RunInv' /\ StepInv'
  BY <1>a DEF RunInv, StepInv, NoCalls
<1>5. DispatchInv' /\ SendInv' /\ QualityIsCurrent'
  BY <1>a, LockStages DEF DispatchInv, SendInv, QualityIsCurrent
<1> QED
  BY <1>1, <1>2, <1>3, <1>4, <1>5 DEF EngineInv

-----------------------------------------------------------------------------
(* The requests.                                                           *)

\* Prepare raises the fence, takes it back, or admits the suspend; Abort takes it
\* back.  None of them touches a step.
LEMMA FenceInv ==
    ASSUME EngineInv, NEW h \in Handlers,
           \/ PrepareBegins(h) \/ PrepareTimesOut(h) \/ PrepareChecks(h) \/ ServeAbort(h),
           UNCHANGED <<pm, token>>, disturbed' \in BOOLEAN
    PROVE  EngineInv'
<1> DEFINE F(v) == [mem EXCEPT !.fence = v]
           x == [F("preparing") EXCEPT !.fence = "none"]
<1>t. mem \in States /\ disk \in States /\ Sound(mem) /\ Sound(disk)
      /\ Kept(mem, mem) /\ Kept(disk, disk) /\ TypeOK
  BY DEF EngineInv, TypeOK, Kept
<1>1. Kept(mem, F("preparing")) /\ Kept(mem, F("none"))
  <2>1. "preparing" \in Fences /\ "none" \in Fences
    BY DEF Fences
  <2> QED
    BY <1>t, <2>1, FenceKept, Zenon
<1>2. ~Unresolved(mem) => Kept(mem, F("admitted"))
  <2>1. "admitted" \in Fences
    BY DEF Fences
  <2> QED
    BY <1>t, <2>1, FenceKept, Zenon
<1>3. Kept(mem, x)
  <2>1. "none" \in Fences
    BY DEF Fences
  <2>2. F("preparing") \in States /\ Sound(F("preparing"))
    BY <1>1 DEF Kept
  <2> HIDE DEF F
  <2>3. Kept(F("preparing"), x)
    BY <2>1, <2>2, FenceKept, Zenon
  <2> QED
    BY <1>1, <2>3 DEF Kept
<1>4. /\ Unlocked /\ (faults' = faults \/ Fault)
      /\ \E v \in {"ok", "error", "waiting", "check"} : Answer(h, v) \/ SetStage(h, v)
      /\ \/ mem' \in {mem, F("preparing"), F("none"), x}
         \/ mem' = F("admitted") /\ ~Unresolved(mem)
      /\ \/ disk' \in {disk, F("preparing"), F("none")}
         \/ disk' = F("admitted") /\ ~Unresolved(mem)
      /\ UNCHANGED <<up, busy, quality, inFlight, makestep, recent, boot, spent>>
  BY DEF PrepareBegins, PrepareTimesOut, PrepareChecks, ServeAbort, Ready, Saved,
              SaveFails, PrepareRefused
<1> HIDE DEF F, x
<1>5. calls' \in [Handlers -> Calls]
  BY <1>4, <1>t, AnswerTyped
<1>6. Kept(mem, mem') /\ (Kept(mem, disk') \/ Kept(disk, disk'))
  BY <1>t, <1>1, <1>2, <1>3, <1>4
<1> QED
  BY <1>4, <1>5, <1>6, KeptInv DEF Unlocked

\* Resume drops the fence; what an admitted suspend resumes to has no step to
\* wait for, and no quality.
LEMMA ServeResumeInv ==
    ASSUME EngineInv, NEW h \in Handlers, NEW lost \in BOOLEAN, ServeResume(h, lost),
           UNCHANGED <<pm, token>>, disturbed' \in BOOLEAN
    PROVE  EngineInv'
<1> DEFINE n == IF mem.fence = "admitted" THEN Resumed(lost)
                ELSE [mem EXCEPT !.fence = "none"]
<1>t. mem \in States /\ disk \in States /\ Sound(mem) /\ Sound(disk)
      /\ Kept(mem, mem) /\ Kept(disk, disk) /\ TypeOK
  BY DEF EngineInv, TypeOK, Kept
<1>a. /\ Unlocked /\ (faults' = faults \/ Fault)
      /\ Answer(h, "ok") \/ Answer(h, "error")
      /\ \/ /\ mem' = n /\ disk' = n
            /\ quality' = IF mem.fence = "admitted" THEN UnknownQuality ELSE quality
         \/ disk' \in {disk, n} /\ UNCHANGED <<mem, quality>>
      /\ disk' # disk \/ mem' # mem =>
           (mem.fence = "admitted" => mem.generation < MaxGeneration)
      /\ UNCHANGED <<up, busy, inFlight, makestep, recent, boot, spent>>
  BY DEF ServeResume, Ready, Saved, SaveFails
<1>c. calls' \in [Handlers -> Calls]
  BY <1>a, <1>t, AnswerTyped
<1>1. CASE mem.fence # "admitted"
  <2>1. Kept(mem, [mem EXCEPT !.fence = "none"])
    <3>1. "none" \in Fences
      BY DEF Fences
    <3> QED
      BY <1>t, <3>1, FenceKept, Zenon
  <2>2. Kept(mem, n)
    BY <1>1, <2>1
  <2> HIDE DEF n
  <2> QED
    BY <1>a, <1>c, <1>t, <1>1, <2>2, KeptInv DEF Unlocked
<1>2. CASE UNCHANGED <<mem, disk>> /\ mem.fence = "admitted" /\ UNCHANGED quality
  BY <1>a, <1>c, <1>t, <1>2, KeptInv DEF Unlocked, Kept
<1>3. CASE mem.fence = "admitted" /\ mem.generation < MaxGeneration
  <2>1. /\ n \in States /\ Sound(n) /\ n.boot = mem.boot /\ ~Unresolved(n)
    BY <1>3, <1>t, ResumedIsSound
  <2> HIDE DEF n
  <2>2. makestep = "none" /\ ~inFlight
    BY <1>3 DEF EngineInv, StepInv, Sound, Admitted, TypeOK, Unresolved
  <2>3. TypeOK'
    BY <1>a, <1>c, <2>1, BoundsAssumption DEF EngineInv, TypeOK, Fault, UnknownQuality
  <2>4. Sound(mem)' /\ Sound(disk)'
    BY <1>a, <2>1, <1>t, SoundFrame
  <2>5. RunInv' /\ StepInv'
    BY <1>a, <2>1, <2>2 DEF EngineInv, RunInv, StepInv, Unlocked
  <2>6. DispatchInv' /\ SendInv'
    BY <1>a, LockStages DEF DispatchInv, SendInv, Unlocked
  <2>7. QualityIsCurrent'
    BY <1>a, <1>3 DEF EngineInv, QualityIsCurrent, Unresolved
  <2> QED
    BY <2>3, <2>4, <2>5, <2>6, <2>7 DEF EngineInv
<1>4. CASE UNCHANGED <<mem, disk>> /\ mem.fence = "admitted" /\ ~UNCHANGED quality
           /\ ~(mem.generation < MaxGeneration)
  BY <1>4 DEF ServeResume
<1> QED
  BY <1>a, <1>1, <1>2, <1>3, <1>4

\* pm-service and the board leave the engine alone.
LEMMA ClientInvariant ==
    ASSUME EngineInv, TypeOK', ~up => calls' = NoCalls,
           UNCHANGED <<mem, disk, up, busy, quality, inFlight, makestep, recent, boot, spent>>
    PROVE  EngineInv'
<1>1. Sound(mem)' /\ Sound(disk)'
  BY SoundFrame DEF EngineInv
<1>2. RunInv' /\ StepInv'
  BY DEF EngineInv, RunInv, StepInv, NoCalls, Unresolved
<1>3. DispatchInv' /\ SendInv' /\ QualityIsCurrent'
  BY DEF EngineInv, DispatchInv, SendInv, QualityIsCurrent, Unresolved
<1> QED
  BY <1>1, <1>2, <1>3 DEF EngineInv

\* Every stage that pm-service may go to is one of its stages.
LEMMA AfterIsStage ==
    \A ok, preparing \in BOOLEAN : After(ok, preparing) \subseteq Stages
<1> SUFFICES ASSUME NEW ok \in BOOLEAN, NEW preparing \in BOOLEAN
             PROVE  After(ok, preparing) \subseteq Stages
  OBVIOUS
<1>1. CASE pm = "recover" /\ ok
  BY <1>1 DEF After, Stages
<1>2. CASE pm = "recover-resume" /\ ok
  BY <1>2 DEF After, Stages
<1>3. CASE pm = "prepare" /\ ok
  BY <1>3 DEF After, Stages
<1>4. CASE ~(pm \in {"recover", "recover-resume", "prepare"} /\ ok)
  BY <1>4 DEF After, Stages
<1> QED
  BY <1>1, <1>2, <1>3, <1>4

\* Giving up on the requests of a daemon that serves none changes nothing.
LEMMA AbandonedNone ==
    calls = NoCalls => Abandoned = NoCalls
<1>1. [NoCall EXCEPT !.awaited = FALSE] = NoCall /\ NoCall.stage = "none"
  <2> DEFINE Empty == [op : {"none"}, stage : {"none"}, generation : {0}, awaited : {FALSE}]
  <2>1. NoCall \in Empty /\ NoCall.stage = "none"
    BY DEF NoCall
  <2>2. \A c \in Empty : [c EXCEPT !.awaited = FALSE] = c
    OBVIOUS
  <2> QED
    BY <2>1, <2>2, Zenon
<1>2. ASSUME calls = NoCalls, NEW h \in Handlers
      PROVE  (IF calls[h].stage \in {"ok", "error"} THEN NoCall
              ELSE [calls[h] EXCEPT !.awaited = FALSE]) = NoCall
  BY <1>1, <1>2 DEF NoCalls
<1> QED
  BY <1>2 DEF Abandoned, NoCalls

\* The steps of pm-service and of the board.
ClientStep ==
    \/ \E h \in Handlers : Ask(h) \/ \E old \in BOOLEAN : Reply(h, old)
    \/ CallFails \/ CallTimesOut \/ BeginSuspend \/ SuspendFails \/ BoardSleeps \/ PMCrash

\* Every step of the specification is one of the engine's, one of a request's,
\* one of pm-service's, or a reboot.
LEMMA NextSteps ==
    Next <=> EngineRuns \/ (\E h \in Handlers : Serves(h)) \/ ClientStep \/ BoardReboots
BY DEF Next, ClientStep

\* The steps of pm-service preserve the engine's invariant.
LEMMA ClientStepInv ==
    ASSUME EngineInv, ClientStep
    PROVE  EngineInv'
<1>t. TypeOK /\ pm \in Stages /\ token \in 0 .. MaxGeneration /\ disturbed \in BOOLEAN
      /\ mem.generation \in 0 .. MaxGeneration
      /\ faults \in 0 .. MaxFaults /\ calls \in [Handlers -> Calls]
  BY DEF EngineInv, TypeOK, States
<1>s. After(FALSE, FALSE) \subseteq Stages
  BY AfterIsStage
<1>c. ASSUME UNCHANGED <<mem, disk, up, busy, quality, inFlight, makestep, recent, boot, spent>>,
             pm' \in Stages, token' \in 0 .. MaxGeneration, disturbed' \in BOOLEAN,
             faults' = faults \/ Fault, calls' \in [Handlers -> Calls],
             ~up => calls' = NoCalls
      PROVE  EngineInv'
  <2>1. faults' \in 0 .. MaxFaults
    BY <1>c, <1>t, BoundsAssumption DEF Fault
  <2>2. TypeOK'
    BY <1>c, <1>t, <2>1 DEF TypeOK
  <2> QED
    BY <1>c, <2>2, ClientInvariant
<1>d. ~up => calls = NoCalls
  BY DEF EngineInv, RunInv
<1>1. ASSUME NEW h \in Handlers, Ask(h) PROVE EngineInv'
  <2>1. /\ up /\ calls' = [calls EXCEPT ![h] = Call(Op, token)]
        /\ UNCHANGED <<mem, disk, up, busy, quality, inFlight, makestep, recent,
                       boot, spent, faults, pmVars>>
    BY <1>1 DEF Ask
  <2>2. calls' \in [Handlers -> Calls]
    BY <1>t, <2>1, CallsTyped
  <2> QED
    BY <1>c, <1>t, <2>1, <2>2 DEF pmVars
<1>2. ASSUME NEW h \in Handlers, NEW old \in BOOLEAN, Reply(h, old) PROVE EngineInv'
  <2>1. /\ up /\ calls' = [calls EXCEPT ![h] = NoCall]
        /\ pm' \in After(calls[h].stage = "ok" /\ ~old, Preparing(mem))
        /\ token' \in {mem.generation, 0}
        /\ disturbed' \in BOOLEAN
        /\ UNCHANGED <<mem, disk, up, busy, quality, inFlight, makestep, recent,
                       boot, spent, faults>>
    BY <1>2, <1>t DEF Reply, Unlocked
  <2>2. calls' \in [Handlers -> Calls]
    BY <1>t, <2>1, CallsTyped
  <2>3. pm' \in Stages
    BY <2>1, AfterIsStage DEF Preparing
  <2>4. token' \in 0 .. MaxGeneration
    BY <2>1, <1>t, BoundsAssumption
  <2> QED
    BY <1>c, <2>1, <2>2, <2>3, <2>4
<1>3. CASE CallFails
  <2>1. /\ pm' \in Stages /\ token' = 0
        /\ UNCHANGED <<engineVars, disturbed>>
    BY <1>3, <1>s DEF CallFails
  <2>2. token' \in 0 .. MaxGeneration
    BY <2>1, BoundsAssumption
  <2> QED
    BY <1>c, <1>t, <1>d, <2>1, <2>2 DEF engineVars
<1>4. CASE CallTimesOut \/ PMCrash
  <2>1. /\ pm' \in Stages /\ token' = 0 /\ calls' = Abandoned /\ Fault
        /\ UNCHANGED <<mem, disk, up, busy, quality, inFlight, makestep, recent,
                       boot, spent, disturbed>>
    BY <1>4, <1>s DEF CallTimesOut, PMCrash, Stages
  <2>2. token' \in 0 .. MaxGeneration
    BY <2>1, BoundsAssumption
  <2>3. calls' \in [Handlers -> Calls]
    BY <1>t, <2>1, CallsTyped
  <2>4. ~up => calls' = NoCalls
    BY <1>d, <2>1, AbandonedNone
  <2> QED
    BY <1>c, <1>t, <2>1, <2>2, <2>3, <2>4
<1>5. CASE BeginSuspend \/ SuspendFails \/ BoardSleeps
  <2>1. pm' \in Stages /\ token' \in {token, 0} /\ UNCHANGED <<engineVars, disturbed>>
    BY <1>5 DEF BeginSuspend, SuspendFails, BoardSleeps, Stages
  <2>2. token' \in 0 .. MaxGeneration
    BY <1>t, <2>1, BoundsAssumption
  <2> QED
    BY <1>c, <1>t, <1>d, <2>1, <2>2 DEF engineVars
<1> QED
  BY <1>1, <1>2, <1>3, <1>4, <1>5 DEF ClientStep

\* The steps of the requests preserve it.
LEMMA ServesInv ==
    ASSUME EngineInv, NEW h \in Handlers, Serves(h)
    PROVE  EngineInv'
<1>1. UNCHANGED <<pm, token>> /\ disturbed' \in BOOLEAN /\ Serve(h)
  BY DEF Serves, EngineInv, TypeOK
<1> QED
  BY <1>1, FenceInv, ServeResumeInv DEF Serve

\* The steps of the engine and of chrony preserve it.
LEMMA EngineRunsInv ==
    ASSUME EngineInv, EngineRuns
    PROVE  EngineInv'
<1>1. EngineStep /\ UNCHANGED pmVars
  BY DEF EngineRuns
<1> QED
  BY <1>1, RefreshAppliesInv, RefreshFailsInv, DispatchDropsInv, StartStepInv, TimePassesInv,
     DeadlinePassesInv, StepEndsInv, SubmitBeginsInv, SubmitSendsInv, SubmitRecordsInv,
     CrashInv, NewEngineInv
     DEF EngineStep

\* The coordinator starts in a state that satisfies its invariant.
LEMMA EngineInitInv == Init => EngineInv
<1> SUFFICES ASSUME Init PROVE EngineInv
  OBVIOUS
<1>a. /\ boot = 1 /\ up = TRUE /\ mem = FreshState(1) /\ disk = FreshState(1)
      /\ busy = FreeLock /\ quality = UnknownQuality /\ inFlight = FALSE /\ calls = NoCalls
      /\ makestep = "none" /\ recent = FALSE /\ spent = {} /\ faults = MaxFaults
      /\ pm = "recover" /\ token = 0 /\ disturbed = FALSE
  BY DEF Init, EngineInit
<1>1. TypeOK
  <2>1. FreshState(1) \in States
    BY BoundsAssumption DEF FreshState, States, Episodes, Episode, Outcomes, Fences,
                            NoSamples, Evidence
  <2>2. NoCalls \in [Handlers -> Calls]
    BY BoundsAssumption DEF NoCalls, NoCall, Calls
  <2>3. quality \in 0 .. MaxGeneration /\ boot \in 1 .. MaxBoots /\ faults \in 0 .. MaxFaults
        /\ token \in 0 .. MaxGeneration
    BY <1>a, BoundsAssumption DEF UnknownQuality
  <2>4. up \in BOOLEAN /\ inFlight \in BOOLEAN /\ recent \in BOOLEAN /\ disturbed \in BOOLEAN
    BY <1>a, Zenon
  <2> QED
    BY <1>a, <2>1, <2>2, <2>3, <2>4, LockStages DEF TypeOK, Stages
<1>2. Sound(mem) /\ Sound(disk)
  BY <1>a, <1>1, FreshStateIsSound
<1>3. mem.boot = boot
  BY <1>a DEF FreshState
<1>4. RunInv /\ StepInv
  BY <1>a, <1>3 DEF RunInv, StepInv
<1>5. DispatchInv /\ SendInv /\ QualityIsCurrent
  BY <1>a, LockStages DEF DispatchInv, SendInv, QualityIsCurrent
<1> QED
  BY <1>1, <1>2, <1>4, <1>5 DEF EngineInv

\* Stuttering changes nothing.
LEMMA EngineStutters ==
    ASSUME EngineInv, UNCHANGED vars
    PROVE  EngineInv'
<1>1. UNCHANGED <<mem, disk, up, busy, quality, inFlight, calls, makestep, recent, boot,
                  spent, faults, pm, token, disturbed>>
  BY DEF vars, engineVars, pmVars
<1>2. TypeOK'
  BY <1>1 DEF EngineInv, TypeOK
<1>3. ~up => calls' = NoCalls
  BY <1>1 DEF EngineInv, RunInv
<1> QED
  BY <1>1, <1>2, <1>3, ClientInvariant

\* The engine's invariant holds in every reachable state: memory and file are
\* sound at every step, whichever save, crash, restart or reboot comes between.
THEOREM EngineInvariant == Spec => []EngineInv
<1>1. EngineInv /\ [Next]_vars => EngineInv'
  BY NextSteps, EngineRunsInv, ServesInv, ClientStepInv, BoardRebootsInv, EngineStutters
<1> QED
  BY <1>1, EngineInitInv, PTL DEF Spec

\* The type invariant of the coordinator and its client.
THEOREM TypeCorrect == Spec => []TypeOK
<1>1. EngineInv => TypeOK
  BY DEF EngineInv
<1> QED
  BY <1>1, EngineInvariant, PTL

\* Evidence describes the sample chrony was given last (Engine.Submit clears the
\* metadata before it sends).
THEOREM EvidenceTheorem == Spec => []EvidenceIsDelivered
<1>1. EngineInv => EvidenceIsDelivered
  BY DEF EngineInv, Sound, Delivered, EvidenceIsDelivered
<1> QED
  BY <1>1, EngineInvariant, PTL

\* Quality is published only for the current generation and while no step is
\* unresolved (Engine.refresh).
THEOREM QualityTheorem == Spec => []QualityIsCurrent
<1>1. EngineInv => QualityIsCurrent
  BY DEF EngineInv
<1> QED
  BY <1>1, EngineInvariant, PTL

-----------------------------------------------------------------------------
(* chrony and the fence.                                                   *)

\* Only three actions start or end a makestep.
LEMMA MakestepChanges ==
    ASSUME [Next]_vars
    PROVE  \/ UNCHANGED makestep
           \/ EngineRuns /\ StartStep
           \/ EngineRuns /\ MakestepEnds
           \/ BoardReboots
<1>1. CASE UNCHANGED vars
  BY <1>1 DEF vars, engineVars
<1>2. CASE EngineRuns
  BY <1>2 DEF EngineRuns, EngineStep, RefreshApplies, RefreshFails, DispatchExpires,
     StartStepFails, DispatchSettles, DeadlinePasses, StepEnds, SubmitBegins, SubmitSends,
     SubmitRecords, SubmitFindsExternal, Crash, NewEngine
<1>3. ASSUME NEW h \in Handlers, Serves(h) PROVE UNCHANGED makestep
  BY <1>3 DEF Serves, Serve, PrepareBegins, PrepareTimesOut, PrepareChecks, ServeAbort,
              ServeResume
<1>4. CASE ClientStep
  BY <1>4 DEF ClientStep, Ask, Reply, CallFails, CallTimesOut, BeginSuspend, SuspendFails,
              BoardSleeps, PMCrash, engineVars
<1> QED
  BY <1>1, <1>2, <1>3, <1>4, NextSteps

\* A step and an admission exclude each other.
LEMMA StepExcludesAdmission ==
    EngineInv => ~(makestep = "running" /\ Fenced(mem))
BY DEF EngineInv, StepInv, Sound, Admitted, Fenced

\* Every step of the coordinator is one of the handshake's, or none.
LEMMA HandshakeSteps ==
    ASSUME EngineInv, EngineInv', [Next]_vars
    PROVE  [Handshake!Next]_<<makestep = "running", Fenced(mem)>>
<1> DEFINE st == makestep = "running"
           ad == Fenced(mem)
<1>1. ~(st /\ ad) /\ ~(st' /\ ad')
  <2>1. EngineInv' => ~(makestep = "running" /\ Fenced(mem))'
    BY StepExcludesAdmission, PTL
  <2> QED
    BY <2>1, StepExcludesAdmission
<1>2. CASE UNCHANGED makestep
  <2>1. st' <=> st
    BY <1>2
  <2>2. CASE ad' <=> ad
    BY <2>1, <2>2, <1>2 DEF Fenced
  <2>3. CASE ad /\ ~ad'
    BY <2>1, <2>3, <1>2 DEF Handshake!Next, Handshake!Release, Fenced
  <2>4. CASE ~ad /\ ad'
    BY <2>1, <2>4, <1>1, <1>2 DEF Handshake!Next, Handshake!Admit, Fenced
  <2> QED
    BY <2>2, <2>3, <2>4
<1>3. CASE EngineRuns /\ StartStep
  <2>1. makestep = "none" /\ mem.fence = "none" /\ makestep' = "running"
        /\ UNCHANGED <<mem, boot>>
    BY <1>3 DEF EngineInv, DispatchInv, StartStep, Dispatching
  <2> QED
    BY <2>1 DEF Handshake!Next, Handshake!StartStep, Fenced
<1>4. CASE EngineRuns /\ MakestepEnds
  BY <1>4 DEF Handshake!Next, Handshake!FinishStep, Fenced, MakestepEnds
<1>5. CASE BoardReboots
  <2>1. disk \in States
    BY DEF EngineInv, TypeOK
  <2>2. AllOutdated(disk).boot = disk.boot
    BY <2>1, AllOutdatedKeeps DEF SameEpisode
  <2>3. mem' = AllOutdated(disk) /\ boot' = boot + 1 /\ makestep' = "none"
    BY <1>5 DEF BoardReboots, Reboot
  <2>4. disk.boot # boot + 1
    BY BoundsAssumption DEF EngineInv, TypeOK, States, Sound, Current
  <2>5. ~Fenced(mem)'
    BY <2>2, <2>3, <2>4 DEF Fenced
  <2> QED
    BY <2>3, <2>5 DEF Handshake!Next, Handshake!Reboot
<1> QED
  BY <1>2, <1>3, <1>4, <1>5, MakestepChanges

\* The coordinator implements SuspendHandshake: a step of the clock and an
\* admitted suspend never overlap, through failed saves, crashes and restarts.
THEOREM HandshakeTheorem == Spec => FencesSteps
<1>1. Init => Handshake!Init
  BY DEF Init, EngineInit, Handshake!Init, Fenced, FreshState
<1>2. EngineInv /\ EngineInv' /\ [Next]_vars =>
        [Handshake!Next]_<<makestep = "running", Fenced(mem)>>
  BY HandshakeSteps
<1> QED
  BY <1>1, <1>2, EngineInvariant, PTL DEF Spec, FencesSteps, Handshake!Spec

\* No episode steps the clock twice: chronyc is started only in an episode that
\* has not been spent in this boot, whatever was lost in a crash.
THEOREM OneStepTheorem == Spec => OneStepPerEpisode
<1>1. EngineInv /\ [Next]_vars =>
        [makestep = "none" /\ makestep' = "running" => mem.episode \notin spent]_vars
  <2> SUFFICES ASSUME EngineInv, [Next]_vars, makestep = "none", makestep' = "running"
               PROVE  mem.episode \notin spent
    OBVIOUS
  <2>1. StartStep
    BY MakestepChanges DEF MakestepEnds, BoardReboots, Reboot
  <2> QED
    BY <2>1 DEF StartStep, Dispatching, EngineInv, DispatchInv
<1> QED
  BY <1>1, EngineInvariant, PTL DEF Spec, OneStepPerEpisode

-----------------------------------------------------------------------------
(* The fence and the client.                                               *)

\* n has the fence of m.
SameFence(m, n) == n.boot = m.boot /\ n.generation = m.generation /\ n.fence = m.fence

\* What the engine does by itself leaves the fence where it is: memory keeps its
\* own unless the daemon dies or starts, and the file keeps its own or takes that
\* of memory.
LEMMA EngineFences ==
    ASSUME EngineInv, EngineStep
    PROVE  /\ \/ /\ up /\ up' /\ SameFence(mem, mem')
                 /\ SameFence(mem, disk') \/ SameFence(disk, disk')
              \/ /\ ~(up /\ up')
                 /\ disk.boot = boot =>
                      SameFence(disk, mem') /\ SameFence(disk, disk')
           /\ up /\ up' => calls' \in {calls, Released}
           /\ ~(up /\ up') => calls' = NoCalls
           /\ UNCHANGED boot /\ (faults' = faults \/ Fault)
<1> DEFINE Goal == /\ up /\ up' /\ SameFence(mem, mem')
                   /\ SameFence(mem, disk') \/ SameFence(disk, disk')
                   /\ calls' \in {calls, Released}
                   /\ UNCHANGED boot /\ (faults' = faults \/ Fault)
           F(m) == SameFence(mem, m)
<1>t. /\ TypeOK /\ mem \in States /\ disk \in States /\ Sound(mem) /\ Sound(disk)
      /\ F(mem) /\ SameFence(disk, disk)
      /\ ~up => mem = disk /\ calls = NoCalls
  BY DEF EngineInv, TypeOK, RunInv, SameFence
<1>x. \A m : SameEpisode(mem, m) /\ m.fence = mem.fence => F(m)
  BY DEF SameEpisode, SameFence
<1>r. \A m : Refreshed(mem, m) => F(m)
  BY DEF Refreshed, SameFence
<1>o. \A v \in Outcomes : F(Resolved(mem, v)) /\ F([mem EXCEPT !.outcome = v])
  <2> TAKE v \in Outcomes
  <2>1. F(Resolved(mem, v))
    BY <1>t, <1>x, ResolvedOnly
  <2> DEFINE n == [mem EXCEPT !.outcome = v]
  <2>2. SameEpisode(mem, n) /\ n.fence = mem.fence
    BY <1>t, OutcomeOnly, Zenon
  <2> QED
    BY <1>x, <2>1, <2>2, Zenon
<1>1. ASSUME NEW o \in Observations(mem), NEW g \in 1 .. mem.generation, RefreshApplies(o, g)
      PROVE  Goal
  <2> DEFINE s == RefreshSteps(o)
  <2>1. F(s[5])
    <3>1. Refreshed(mem, s[5])
      BY <1>t, RefreshChain
    <3> QED
      BY <3>1, <1>r
  <2>2. /\ up /\ up' /\ mem' = s[5] /\ disk' \in {disk, s[5]}
        /\ UNCHANGED <<calls, boot, faults>>
    BY <1>1 DEF RefreshApplies, Unlocked
  <2> HIDE DEF s
  <2> QED
    BY <2>1, <2>2, <1>t
<1>2. ASSUME NEW o \in Observations(mem), NEW g \in 1 .. mem.generation, NEW i \in 1 .. 5,
             RefreshFails(o, g, i)
      PROVE  Goal
  <2> DEFINE s == RefreshSteps(o)
  <2>1. F(s[i]) /\ F(s[i - 1])
    <3>1. \A k \in 0 .. 5 : Refreshed(mem, s[k])
      BY <1>t, RefreshChain
    <3> HIDE DEF s
    <3> QED
      BY <3>1, <1>r
  <2>2. /\ up /\ up' /\ mem' \in {s[i], s[i - 1]} /\ disk' \in {disk, s[i], s[i - 1]}
        /\ UNCHANGED <<calls, boot>> /\ Fault
    BY <1>2 DEF RefreshFails, Unlocked
  <2> HIDE DEF s
  <2> QED
    BY <2>1, <2>2, <1>t
<1>3. ASSUME DispatchExpires \/ StartStepFails
      PROVE  Goal
  <2>1. /\ up /\ up' /\ UNCHANGED <<calls, boot>> /\ (faults' = faults \/ Fault)
        /\ \E v \in {"expired", "failed", "retry"} :
              /\ disk' \in {disk, Resolved(mem, v)}
              /\ mem' \in {Resolved(mem, v), [mem EXCEPT !.outcome = "unknown"]}
    BY <1>3 DEF DispatchExpires, StartStepFails, Saved, SaveFails, Dispatching
  <2>2. {"expired", "failed", "retry", "unknown"} \subseteq Outcomes
    BY DEF Outcomes
  <2>3. F(mem') /\ (disk' = disk \/ F(disk'))
    BY <1>o, <2>1, <2>2
  <2> QED
    BY <2>1, <2>3, <1>t
<1>4. CASE StartStep \/ MakestepEnds \/ DispatchSettles
  <2>1. UNCHANGED <<up, mem, disk, calls, boot, faults>>
    BY <1>4 DEF StartStep, MakestepEnds, DispatchSettles
  <2> QED
    BY <2>1, <1>t DEF NoCalls
<1>5. CASE DeadlinePasses
  <2> DEFINE n == [mem EXCEPT !.open = FALSE]
             d == [disk EXCEPT !.open = FALSE]
  <2>1. mem' = n /\ disk' = d /\ UNCHANGED <<up, calls, boot, faults>>
    BY <1>5 DEF DeadlinePasses
  <2>2. SameEpisode(mem, n) /\ n.fence = mem.fence /\ SameEpisode(disk, d) /\ d.fence = disk.fence
    BY <1>t, ClosedOnly, Zenon
  <2> HIDE DEF n, d
  <2>3. SameFence(mem, n) /\ SameFence(disk, d) /\ (mem = disk => SameFence(disk, n))
    BY <2>2 DEF SameEpisode, SameFence
  <2> QED
    BY <2>1, <2>3, <1>t DEF NoCalls
<1>6. ASSUME NEW confirmed \in BOOLEAN, StepEnds(confirmed)
      PROVE  Goal
  <2> DEFINE u == [mem EXCEPT !.outcome = "unknown"]
             c == Resolved(mem, "completed")
  <2>1. /\ up /\ up' /\ mem' \in {u, c} /\ disk' \in {disk, u, c}
        /\ calls' = Released /\ UNCHANGED boot /\ (faults' = faults \/ Fault)
    BY <1>6 DEF StepEnds, Saved, SaveFails, Unlocked
  <2>2. "unknown" \in Outcomes /\ "completed" \in Outcomes
    BY DEF Outcomes
  <2>3. F(u) /\ F(c)
    BY <1>o, <2>2, Zenon
  <2> HIDE DEF u, c
  <2> QED
    BY <2>1, <2>3, <1>t
<1>7. ASSUME NEW p \in Producers, SubmitBegins(p)
      PROVE  Goal
  <2> DEFINE n == [mem EXCEPT !.samples[p] = "none"]
  <2>1. /\ up /\ up' /\ mem' = n /\ disk' \in {disk, n}
        /\ UNCHANGED <<calls, boot>> /\ (faults' = faults \/ Fault)
    BY <1>7 DEF SubmitBegins, Saved, SaveFails, Unlocked
  <2>2. Kept(mem, n) /\ n.fence = mem.fence
    BY <1>t, SampleKept, Zenon
  <2> HIDE DEF n
  <2>3. F(n)
    BY <2>2 DEF Kept, SameFence
  <2> QED
    BY <2>1, <2>3, <1>t
<1>8. ASSUME SubmitSends
      PROVE  Goal
  <2> DEFINE p == busy.producer
             n == Outdated(mem, p)
             d == Outdated(disk, p)
  <2>1. /\ up /\ up' /\ mem' \in {mem, n} /\ disk' \in {disk, d}
        /\ UNCHANGED <<calls, boot, faults>> /\ busy.stage = "send"
    BY <1>8 DEF SubmitSends
  <2>2. p \in Producers /\ mem.samples[p] = "none" /\ disk.samples[p] = "none"
    BY <2>1 DEF EngineInv, SendInv
  <2> HIDE DEF p
  <2>3. SameEpisode(mem, n) /\ n.fence = mem.fence /\ SameEpisode(disk, d) /\ d.fence = disk.fence
    BY <2>2, <1>t, OutdatedKeeps
  <2> HIDE DEF n, d
  <2>4. F(n) /\ SameFence(disk, d)
    BY <2>3 DEF SameEpisode, SameFence
  <2> QED
    BY <2>1, <2>4, <1>t
<1>9. ASSUME SubmitRecords
      PROVE  Goal
  <2> DEFINE p == busy.producer
             n == [mem EXCEPT !.samples[p] = "last"]
  <2>1. /\ up /\ up' /\ mem' \in {mem, n} /\ disk' \in {disk, n} /\ busy.stage = "record"
        /\ UNCHANGED <<calls, boot>> /\ (faults' = faults \/ Fault)
    BY <1>9 DEF SubmitRecords, Saved, SaveFails
  <2>2. p \in Producers
    BY <2>1 DEF EngineInv, SendInv
  <2> HIDE DEF p
  <2>3. Kept(mem, n) /\ n.fence = mem.fence
    BY <1>t, <2>2, SampleKept, Zenon
  <2> HIDE DEF n
  <2>4. F(n)
    BY <2>3 DEF Kept, SameFence
  <2> QED
    BY <2>1, <2>4, <1>t
<1>10. ASSUME SubmitFindsExternal
       PROVE  Goal
  <2> DEFINE n == [mem EXCEPT !.external = TRUE]
  <2>1. /\ up /\ up' /\ mem' = n /\ disk' \in {disk, n}
        /\ UNCHANGED <<calls, boot>> /\ (faults' = faults \/ Fault)
    BY <1>10 DEF SubmitFindsExternal, Saved, SaveFails, Unlocked
  <2>2. SameEpisode(mem, n) /\ n.fence = mem.fence
    BY <1>t, ExternalOnly, Zenon
  <2> HIDE DEF n
  <2> QED
    BY <2>1, <2>2, <1>x, <1>t
<1>11. CASE Crash
  <2>1. /\ ~up' /\ mem' = disk /\ disk' = disk /\ calls' = NoCalls /\ UNCHANGED boot /\ Fault
    BY <1>11 DEF Crash
  <2> QED
    BY <2>1, <1>t
<1>12. CASE NewEngine
  <2> DEFINE n == Reloaded(disk)
  <2>1. /\ ~up /\ mem' = disk' /\ disk' \in {disk, n} /\ UNCHANGED <<calls, boot>>
        /\ (faults' = faults \/ Fault)
    BY <1>12 DEF NewEngine, Saved, SaveFails
  <2>2. disk.boot = boot => SameEpisode(disk, n) /\ n.fence = disk.fence
    BY <1>t, ReloadedIsSound
  <2> HIDE DEF n
  <2>3. disk.boot = boot => SameFence(disk, n)
    BY <2>2 DEF SameEpisode, SameFence
  <2> QED
    BY <2>1, <2>3, <1>t DEF NoCalls
<1> QED
  BY <1>1, <1>2, <1>3, <1>4, <1>5, <1>6, <1>7, <1>8, <1>9, <1>10, <1>11, <1>12 DEF EngineStep

\* Serving a request changes the stage of this request only.
LEMMA CallUpdate ==
    ASSUME TypeOK, NEW h \in Handlers,
           NEW v \in {"ok", "error", "waiting", "check"},
           Answer(h, v) \/ SetStage(h, v)
    PROVE  /\ \A k \in Handlers \ {h} : calls'[k] = calls[k]
           /\ calls'[h].awaited = calls[h].awaited
           /\ calls[h].awaited => /\ calls'[h].op = calls[h].op /\ calls'[h].stage = v
                                  /\ calls'[h].generation = calls[h].generation
<1>1. calls \in [Handlers -> Calls] /\ calls[h] \in Calls /\ NoCall.awaited = FALSE
      /\ calls[h].awaited \in BOOLEAN
  BY DEF TypeOK, Calls, NoCall
<1> DEFINE c == [calls[h] EXCEPT !.stage = v]
<1>2. c.awaited = calls[h].awaited /\ c.op = calls[h].op /\ c.stage = v
      /\ c.generation = calls[h].generation
  BY <1>1 DEF Calls
<1>3. calls' = [calls EXCEPT ![h] = c] \/ (~calls[h].awaited /\ calls' = [calls EXCEPT ![h] = NoCall])
  BY DEF Answer, SetStage
<1> HIDE DEF c
<1>4. calls' = [calls EXCEPT ![h] = c] => calls'[h] = c
  BY <1>1
<1>5. calls' = [calls EXCEPT ![h] = NoCall] => calls'[h] = NoCall
  BY <1>1
<1>6. \A k \in Handlers \ {h} : calls'[k] = calls[k]
  BY <1>1, <1>3
<1>7. CASE calls'[h] = c
  BY <1>2, <1>6, <1>7
<1>8. CASE calls'[h] = NoCall /\ ~calls[h].awaited
  <2>1. calls'[h].awaited = calls[h].awaited
    BY <1>1, <1>8
  <2> QED
    BY <1>6, <1>8, <2>1
<1> QED
  BY <1>3, <1>4, <1>5, <1>7, <1>8

\* What a goroutine of the server does to its request.
LEMMA ServeUpdates ==
    ASSUME NEW h \in Handlers, Serve(h)
    PROVE  /\ up /\ up' /\ UNCHANGED boot /\ (faults' = faults \/ Fault)
           /\ \E v \in {"ok", "error", "waiting", "check"} : Answer(h, v) \/ SetStage(h, v)
           /\ calls[h].op # "none" /\ calls[h].stage \notin {"ok", "error"}
BY DEF Serve, PrepareBegins, PrepareTimesOut, PrepareChecks, ServeAbort, ServeResume,
       Ready, Unlocked, Saved, SaveFails

\* Giving up on every request leaves none that is awaited, and starting again
\* leaves none at all.
LEMMA NobodyWaits ==
    ASSUME TypeOK
    PROVE  /\ \A h \in Handlers : ~Abandoned[h].awaited
           /\ \A h \in Handlers : ~NoCalls[h].awaited /\ NoCalls[h] = NoCall
<1>1. NoCall.awaited = FALSE
  BY DEF NoCall
<1>2. \A h \in Handlers : NoCalls[h] = NoCall
  BY DEF NoCalls
<1>3. ASSUME NEW h \in Handlers PROVE ~Abandoned[h].awaited
  <2>1. [calls[h] EXCEPT !.awaited = FALSE].awaited = FALSE
    BY DEF TypeOK, Calls
  <2> QED
    BY <1>1, <2>1 DEF Abandoned
<1> QED
  BY <1>1, <1>2, <1>3

\* A step of the engine or of a request leaves the awaited requests alone, but
\* for their stage, or ends them all.
LEMMA AwaitedKept ==
    ASSUME EngineInv,
           EngineRuns \/ \E h \in Handlers : Serves(h)
    PROVE  /\ UNCHANGED <<pm, token>>
           /\ \A k \in Handlers :
                 calls'[k].awaited => /\ calls[k].awaited /\ calls'[k].op = calls[k].op
                                      /\ calls'[k].generation = calls[k].generation
<1>t. TypeOK /\ calls \in [Handlers -> Calls]
  BY DEF EngineInv, TypeOK
<1>1. CASE EngineRuns
  <2>1. UNCHANGED <<pm, token>> /\ calls' \in {calls, Released, NoCalls}
    BY <1>1, EngineFences DEF EngineRuns, pmVars
  <2>2. ASSUME NEW k \in Handlers
        PROVE  /\ Released[k].awaited = calls[k].awaited /\ Released[k].op = calls[k].op
               /\ Released[k].generation = calls[k].generation
    <3>1. calls[k] \in Calls
      BY <1>t
    <3>2. LET c == [calls[k] EXCEPT !.stage = "released"]
          IN c.awaited = calls[k].awaited /\ c.op = calls[k].op
             /\ c.generation = calls[k].generation
      BY <3>1 DEF Calls
    <3> QED
      BY <3>2 DEF Released
  <2> QED
    BY <2>1, <2>2, <1>t, NobodyWaits
<1>2. ASSUME NEW h \in Handlers, Serves(h)
      PROVE  /\ UNCHANGED <<pm, token>>
             /\ \A k \in Handlers :
                   calls'[k].awaited => /\ calls[k].awaited /\ calls'[k].op = calls[k].op
                                        /\ calls'[k].generation = calls[k].generation
  <2>1. UNCHANGED <<pm, token>> /\ Serve(h)
    BY <1>2 DEF Serves
  <2>2. PICK v \in {"ok", "error", "waiting", "check"} : Answer(h, v) \/ SetStage(h, v)
    BY <2>1, ServeUpdates
  <2>3. /\ \A k \in Handlers \ {h} : calls'[k] = calls[k]
        /\ calls'[h].awaited = calls[h].awaited
        /\ calls[h].awaited => /\ calls'[h].op = calls[h].op
                               /\ calls'[h].generation = calls[h].generation
    BY <2>2, <1>t, CallUpdate
  <2> QED
    BY <2>1, <2>3
<1> QED
  BY <1>1, <1>2

\* pm-service waits for at most one answer, to the request of its stage: every
\* step of the specification keeps it so.
LEMMA ClientInvStep ==
    ASSUME EngineInv, ClientInv, [Next]_vars
    PROVE  ClientInv'
<1>t. TypeOK /\ calls \in [Handlers -> Calls]
  BY DEF EngineInv, TypeOK
<1>o. UNCHANGED pm => (Asking' <=> Asking) /\ Op' = Op
  BY DEF Asking, Op
<1>n. (\A k \in Handlers : ~calls'[k].awaited) => ClientInv'
  BY DEF ClientInv, Awaited
<1>e. (\A k \in Handlers : ~calls[k].awaited) <=> Awaited = {}
  BY DEF Awaited
<1>1. CASE EngineRuns \/ \E h \in Handlers : Serves(h)
  <2>1. UNCHANGED pm /\ \A k \in Handlers :
           calls'[k].awaited => calls[k].awaited /\ calls'[k].op = calls[k].op
    BY <1>1, AwaitedKept
  <2> QED
    BY <2>1, <1>o DEF ClientInv, Awaited
<1>2. ASSUME NEW h \in Handlers, Ask(h) PROVE ClientInv'
  <2>1. /\ Asking /\ Awaited = {} /\ UNCHANGED pm
        /\ calls' = [calls EXCEPT ![h] = Call(Op, token)]
    BY <1>2 DEF Ask, pmVars
  <2>2. calls'[h].op = Op /\ \A k \in Handlers : calls'[k].awaited => k = h
    BY <2>1, <1>t, <1>e DEF Call
  <2> QED
    BY <2>1, <2>2, <1>o DEF ClientInv, Awaited
<1>3. ASSUME NEW h \in Handlers, NEW old \in BOOLEAN, Reply(h, old) PROVE ClientInv'
  <2>1. h \in Awaited /\ calls' = [calls EXCEPT ![h] = NoCall]
    BY <1>3 DEF Reply
  <2>2. \A k \in Handlers : ~calls'[k].awaited
    BY <2>1, <1>t DEF ClientInv, Awaited, NoCall
  <2> QED
    BY <2>2, <1>n
<1>4. CASE CallTimesOut \/ PMCrash \/ BoardReboots
  <2>1. calls' \in {Abandoned, NoCalls}
    BY <1>4 DEF CallTimesOut, PMCrash, BoardReboots, Reboot
  <2> QED
    BY <2>1, <1>t, <1>n, NobodyWaits
<1>5. CASE CallFails \/ BeginSuspend \/ SuspendFails \/ BoardSleeps
  <2>1. Awaited = {} /\ UNCHANGED calls
    BY <1>5 DEF CallFails, BeginSuspend, SuspendFails, BoardSleeps, engineVars, ClientInv, Asking
  <2> QED
    BY <2>1, <1>n, <1>e
<1>6. CASE UNCHANGED vars
  <2>1. UNCHANGED <<pm, calls>>
    BY <1>6 DEF vars, engineVars, pmVars
  <2> QED
    BY <2>1, <1>o DEF ClientInv, Awaited
<1> QED
  BY <1>1, <1>2, <1>3, <1>4, <1>5, <1>6, NextSteps DEF ClientStep

\* Prepare answers ok only once the admission is in memory and in the file.
LEMMA PrepareAnswersOk ==
    ASSUME EngineInv, NEW h \in Handlers, Serve(h), calls[h].awaited,
           calls[h].op = "prepare", calls'[h].stage = "ok"
    PROVE  mem'.fence = "admitted" /\ disk'.fence = "admitted"
<1>t. TypeOK /\ mem \in States
  BY DEF EngineInv, TypeOK
<1>1. \A v \in {"error", "waiting", "check"} : ~Answer(h, v) /\ ~SetStage(h, v)
  <2>1. ASSUME NEW v \in {"error", "waiting", "check"}, Answer(h, v) \/ SetStage(h, v)
        PROVE  FALSE
    <3>1. calls'[h].stage = v
      BY <2>1, <1>t, CallUpdate
    <3> QED
      BY <3>1
  <2> QED
    BY <2>1
<1>2. PrepareBegins(h) \/ PrepareTimesOut(h) \/ PrepareChecks(h)
  BY DEF Serve, ServeAbort, ServeResume, Ready
<1>3. ~PrepareTimesOut(h)
  BY <1>1 DEF PrepareTimesOut
<1>4. ~PrepareBegins(h)
  BY <1>1 DEF PrepareBegins
<1>5. mem' = [mem EXCEPT !.fence = "admitted"] /\ disk' = [mem EXCEPT !.fence = "admitted"]
  BY <1>1, <1>2, <1>3, <1>4 DEF PrepareChecks, Saved
<1> QED
  BY <1>5, <1>t DEF States

\* The admission that pm-service acts on stands: every step keeps it so, or is
\* recorded as disturbing it.
LEMMA AdmissionInvStep ==
    ASSUME EngineInv, EngineInv', ClientInv, AdmissionInv, [Next]_vars
    PROVE  AdmissionInv'
<1>t. TypeOK /\ calls \in [Handlers -> Calls] /\ disturbed \in BOOLEAN
  BY DEF EngineInv, TypeOK
<1>f. up' => (Fenced(mem)' <=> mem'.fence = "admitted")
             /\ (Fenced(disk)' <=> disk'.fence = "admitted")
  BY DEF EngineInv, RunInv, Fenced
<1>n. pm' # "sleep" /\ (\A k \in Handlers : ~calls'[k].awaited) => AdmissionInv'
  BY DEF AdmissionInv, Awaited
<1>k. UNCHANGED <<mem, disk, boot>> =>
        (Fenced(mem)' <=> Fenced(mem)) /\ (Fenced(disk)' <=> Fenced(disk))
  BY DEF Fenced
<1>1. CASE EngineRuns
  <2>1. EngineStep /\ UNCHANGED <<pm, disturbed>>
    BY <1>1 DEF EngineRuns, pmVars
  <2>2. Fenced(mem) /\ Fenced(disk) => Fenced(mem)' /\ Fenced(disk)'
    BY <2>1, EngineFences DEF Fenced, SameFence
  <2>3. ASSUME NEW k \in Handlers, calls'[k].awaited, calls'[k].op = "prepare",
               calls'[k].stage = "ok"
        PROVE  calls[k].awaited /\ calls[k].op = "prepare" /\ calls[k].stage = "ok"
    <3>1. calls' \in {calls, Released, NoCalls}
      BY <2>1, EngineFences
    <3>2. calls[k].awaited /\ calls[k].op = "prepare"
      BY <1>1, <2>3, AwaitedKept
    <3>3. Released[k].stage \in {calls[k].stage, "released"}
      <4>1. calls[k] \in Calls
        BY <1>t
      <4>2. [calls[k] EXCEPT !.stage = "released"].stage = "released"
        BY <4>1 DEF Calls
      <4> QED
        BY <4>2 DEF Released
    <3>4. calls[k].stage = "ok"
      BY <2>3, <3>1, <3>3, <1>t, NobodyWaits
    <3> QED
      BY <3>2, <3>4
  <2> QED
    BY <2>1, <2>2, <2>3 DEF AdmissionInv, Awaited
<1>2. ASSUME NEW h \in Handlers, Serves(h) PROVE AdmissionInv'
  <2>1. /\ Serve(h) /\ UNCHANGED pm
        /\ disturbed' = (disturbed \/ (~calls[h].awaited /\ FenceChanges))
    BY <1>2 DEF Serves
  <2>2. up /\ up'
    BY <2>1, ServeUpdates
  <2>3. PICK v \in {"ok", "error", "waiting", "check"} : Answer(h, v) \/ SetStage(h, v)
    BY <2>1, ServeUpdates
  <2>4. /\ \A k \in Handlers \ {h} : calls'[k] = calls[k]
        /\ calls'[h].awaited = calls[h].awaited
        /\ calls[h].awaited => calls'[h].op = calls[h].op
    BY <2>3, <1>t, CallUpdate
  <2>5. CASE ~calls[h].awaited /\ ~disturbed'
    <3>1. mem'.fence = mem.fence /\ disk'.fence = disk.fence /\ ~disturbed
      BY <2>1, <2>5, <1>t DEF FenceChanges
    <3>2. Fenced(mem) /\ Fenced(disk) => Fenced(mem)' /\ Fenced(disk)'
      BY <3>1, <2>2, <1>f DEF Fenced
    <3>3. \A k \in Handlers : calls'[k].awaited => calls[k].awaited /\ calls'[k] = calls[k]
      BY <2>4, <2>5
    <3> QED
      BY <3>1, <3>2, <3>3, <2>1 DEF AdmissionInv, Awaited
  <2>6. CASE calls[h].awaited /\ ~disturbed'
    <3>1. pm' # "sleep" /\ \A k \in Handlers : calls'[k].awaited => k = h
      BY <2>1, <2>4, <2>6 DEF ClientInv, Awaited, Asking
    <3>2. calls'[h].op = "prepare" /\ calls'[h].stage = "ok" => Fenced(mem)' /\ Fenced(disk)'
      BY <2>1, <2>2, <2>4, <2>6, <1>f, PrepareAnswersOk
    <3> QED
      BY <3>1, <3>2 DEF AdmissionInv, Awaited
  <2>7. CASE disturbed'
    BY <2>7 DEF AdmissionInv
  <2> QED
    BY <2>5, <2>6, <2>7
<1>3. ASSUME NEW h \in Handlers, Ask(h) PROVE AdmissionInv'
  <2>1. /\ Asking /\ Awaited = {} /\ UNCHANGED <<pm, mem, disk, boot, disturbed>>
        /\ calls' = [calls EXCEPT ![h] = Call(Op, token)]
    BY <1>3 DEF Ask, pmVars
  <2>2. pm' # "sleep"
    BY <2>1 DEF Asking
  <2>3. \A k \in Handlers : calls'[k].awaited =>
           ~(calls'[k].op = "prepare" /\ calls'[k].stage = "ok")
    BY <2>1, <1>t DEF Call, Awaited
  <2> QED
    BY <2>2, <2>3 DEF AdmissionInv, Awaited
<1>4. ASSUME NEW h \in Handlers, NEW old \in BOOLEAN, Reply(h, old) PROVE AdmissionInv'
  <2>1. /\ h \in Awaited /\ calls' = [calls EXCEPT ![h] = NoCall]
        /\ pm' \in After(calls[h].stage = "ok" /\ ~old, Preparing(mem))
        /\ disturbed' = (disturbed /\ pm' # "prepare")
        /\ UNCHANGED <<mem, disk, boot>>
    BY <1>4 DEF Reply
  <2>2. \A k \in Handlers : ~calls'[k].awaited
    BY <2>1, <1>t DEF ClientInv, Awaited, NoCall
  <2>3. CASE pm' = "sleep" /\ ~disturbed'
    <3>1. pm = "prepare" /\ calls[h].stage = "ok"
      BY <2>1, <2>3 DEF After
    <3>2. calls[h].op = "prepare" /\ ~disturbed
      BY <2>1, <2>3, <3>1 DEF ClientInv, Op
    <3>3. Fenced(mem)' /\ Fenced(disk)'
      BY <2>1, <3>1, <3>2, <1>k DEF AdmissionInv
    <3> QED
      BY <2>2, <3>3 DEF AdmissionInv, Awaited
  <2>4. CASE disturbed'
    BY <2>4 DEF AdmissionInv
  <2> QED
    BY <2>2, <2>3, <2>4, <1>n
<1>5. CASE CallTimesOut \/ PMCrash \/ BoardReboots
  <2>1. calls' \in {Abandoned, NoCalls} /\ pm' # "sleep"
    BY <1>5 DEF CallTimesOut, PMCrash, BoardReboots, Reboot, After
  <2> QED
    BY <2>1, <1>t, <1>n, NobodyWaits
<1>6. CASE CallFails \/ BeginSuspend \/ SuspendFails \/ BoardSleeps
  <2>1. Awaited = {} /\ UNCHANGED calls /\ pm' # "sleep"
    BY <1>6 DEF CallFails, BeginSuspend, SuspendFails, BoardSleeps, engineVars, ClientInv,
                Asking, After
  <2> QED
    BY <2>1, <1>n DEF Awaited
<1>7. CASE UNCHANGED vars
  <2>1. UNCHANGED <<pm, calls, disturbed, mem, disk, boot>>
    BY <1>7 DEF vars, engineVars, pmVars
  <2> QED
    BY <2>1, <1>k DEF AdmissionInv, Awaited
<1> QED
  BY <1>1, <1>2, <1>3, <1>4, <1>5, <1>6, <1>7, NextSteps DEF ClientStep

\* A request that is served in its turn leaves the fence where its answer says.
LEMMA ServeFences ==
    ASSUME EngineInv, NEW h \in Handlers, Serve(h), calls[h].awaited,
           FenceOf(calls[h], mem), UNCHANGED faults
    PROVE  FenceOf(calls'[h], mem')
<1>t. TypeOK /\ mem \in States /\ faults \in Nat
  BY BoundsAssumption DEF EngineInv, TypeOK
<1>n. ~Fault
  BY <1>t DEF Fault
<1>a. \A v \in {"ok", "error", "waiting", "check"} :
        Answer(h, v) \/ SetStage(h, v) =>
          /\ calls'[h].op = calls[h].op /\ calls'[h].stage = v
          /\ calls'[h].generation = calls[h].generation
  BY <1>t, CallUpdate
<1>f. \A v \in Fences : [mem EXCEPT !.fence = v].fence = v
  BY <1>t DEF States
<1>g. {"none", "preparing", "admitted"} = Fences
  BY DEF Fences
<1>1. CASE PrepareBegins(h)
  <2>1. calls[h].op = "prepare" /\ calls[h].stage = "queued" /\ mem.fence = "none"
    BY <1>1 DEF PrepareBegins, Ready, FenceOf
  <2>2. mem' = [mem EXCEPT !.fence = "preparing"] /\ (SetStage(h, "waiting") \/ SetStage(h, "check"))
    BY <1>1, <1>n, <2>1 DEF PrepareBegins, SaveFails, Preparing
  <2> QED
    BY <1>a, <1>f, <1>g, <2>1, <2>2 DEF FenceOf
<1>2. CASE PrepareTimesOut(h)
  <2>1. calls[h].op = "prepare" /\ Answer(h, "error") /\ mem' = [mem EXCEPT !.fence = "none"]
    BY <1>2 DEF PrepareTimesOut, Ready
  <2> QED
    BY <1>a, <1>f, <1>g, <2>1 DEF FenceOf
<1>3. CASE PrepareChecks(h)
  <2>1. calls[h].op = "prepare" /\ calls[h].stage \in {"released", "check"} /\ Preparing(mem)
    BY <1>3 DEF PrepareChecks, Ready, FenceOf, Preparing
  <2>2. \/ Answer(h, "error") /\ mem' = [mem EXCEPT !.fence = "none"]
        \/ Answer(h, "ok") /\ mem' = [mem EXCEPT !.fence = "admitted"]
    BY <1>3, <1>n, <2>1 DEF PrepareChecks, SaveFails
  <2> QED
    BY <1>a, <1>f, <1>g, <2>1, <2>2 DEF FenceOf
<1>4. CASE ServeAbort(h)
  <2>1. calls[h].op = "abort"
    BY <1>4 DEF ServeAbort, Ready
  <2>2. \/ mem' = [mem EXCEPT !.fence = "none"] /\ Answer(h, "ok")
        \/ mem' = mem /\ mem.fence = "none" /\ Answer(h, "error")
    BY <1>4, <1>n DEF ServeAbort, SaveFails, Preparing
  <2> QED
    BY <1>a, <1>f, <1>g, <2>1, <2>2 DEF FenceOf
<1>5. ASSUME NEW lost \in BOOLEAN, ServeResume(h, lost)
      PROVE  FenceOf(calls'[h], mem')
  <2>1. calls[h].op = "resume" /\ calls[h].stage = "queued" /\ mem.fence = "admitted"
        /\ calls[h].generation = mem.generation
    BY <1>5 DEF ServeResume, Ready, FenceOf
  <2>2. mem' = Resumed(lost) /\ Answer(h, "ok") /\ mem.generation < MaxGeneration
    BY <1>5, <1>n, <2>1 DEF ServeResume, SaveFails, Preparing
  <2>3. Resumed(lost).fence = "none"
    BY <1>t, <2>1, <2>2, ResumedIsSound DEF EngineInv
  <2> QED
    BY <1>a, <2>1, <2>2, <2>3 DEF FenceOf
<1> QED
  BY <1>1, <1>2, <1>3, <1>4, <1>5 DEF Serve

\* Faults only run out.
LEMMA FaultsRunOut ==
    ASSUME EngineInv, [Next]_vars, faults' = MaxFaults
    PROVE  faults = MaxFaults /\ ~Fault /\ UNCHANGED faults
<1>t. faults \in 0 .. MaxFaults
  BY DEF EngineInv, TypeOK
<1>1. faults' = faults \/ Fault
  <2>1. CASE EngineRuns
    BY <2>1, EngineFences DEF EngineRuns
  <2>2. ASSUME NEW h \in Handlers, Serves(h) PROVE faults' = faults \/ Fault
    BY <2>2, ServeUpdates DEF Serves
  <2>3. CASE ClientStep
    BY <2>3 DEF ClientStep, Ask, Reply, CallFails, CallTimesOut, BeginSuspend, SuspendFails,
                BoardSleeps, PMCrash, engineVars
  <2>4. CASE BoardReboots
    BY <2>4 DEF BoardReboots, Reboot
  <2>5. CASE UNCHANGED vars
    BY <2>5 DEF vars, engineVars
  <2> QED
    BY <2>1, <2>2, <2>3, <2>4, <2>5, NextSteps
<1> QED
  BY <1>t, <1>1, BoundsAssumption DEF Fault

\* Where nothing fails, the fence follows the suspend sequence.
LEMMA SequenceInvStep ==
    ASSUME EngineInv, ClientInv, SequenceInv, [Next]_vars
    PROVE  SequenceInv'
<1> SUFFICES ASSUME faults' = MaxFaults
             PROVE  /\ up' /\ pm' # "recover-resume"
                    /\ \A h \in Handlers : Idle(h)' \/ calls'[h].awaited
                    /\ pm' \in {"recover", "idle"} => mem'.fence = "none"
                    /\ pm' = "prepare" /\ (\A h \in Handlers : ~calls'[h].awaited) =>
                         mem'.fence = "none"
                    /\ pm' = "sleep" \/ (pm' = "resume" /\ \A h \in Handlers : ~calls'[h].awaited) =>
                         mem'.fence = "admitted" /\ token' = mem'.generation
                    /\ \A h \in Handlers : calls'[h].awaited => FenceOf(calls'[h], mem')
  BY DEF SequenceInv, FenceOf, Awaited
<1>t. TypeOK /\ calls \in [Handlers -> Calls] /\ mem \in States
  BY DEF EngineInv, TypeOK
<1>n. faults = MaxFaults /\ ~Fault /\ UNCHANGED faults
  BY FaultsRunOut
<1>s. /\ up /\ pm # "recover-resume"
      /\ \A h \in Handlers : calls[h] = NoCall \/ calls[h].awaited
      /\ pm \in {"recover", "idle"} => mem.fence = "none"
      /\ pm = "prepare" /\ (\A h \in Handlers : ~calls[h].awaited) => mem.fence = "none"
      /\ pm = "sleep" \/ (pm = "resume" /\ \A h \in Handlers : ~calls[h].awaited) =>
           mem.fence = "admitted" /\ token = mem.generation
      /\ \A h \in Handlers : calls[h].awaited => FenceOf(calls[h], mem)
  BY <1>n DEF SequenceInv, Awaited, Idle
<1>c. \A h, k \in Handlers : calls[h].awaited /\ calls[k].awaited => h = k
  BY DEF ClientInv, Awaited
<1>o. \A h \in Handlers : calls[h].awaited => Asking /\ calls[h].op = Op
  BY DEF ClientInv, Awaited
<1>i. NoCall.awaited = FALSE /\ NoCall.op = "none"
  BY DEF NoCall
<1>1. CASE EngineRuns
  <2>1. EngineStep /\ UNCHANGED <<pm, token>>
    BY <1>1 DEF EngineRuns, pmVars
  <2>2. up'
    BY <2>1, <1>s, <1>n DEF EngineStep, RefreshApplies, RefreshFails, DispatchExpires,
       StartStepFails, StartStep, MakestepEnds, DispatchSettles, DeadlinePasses, StepEnds,
       SubmitBegins, SubmitSends, SubmitRecords, SubmitFindsExternal, Crash, NewEngine
  <2>3. SameFence(mem, mem') /\ calls' \in {calls, Released}
    BY <2>1, <2>2, <1>s, EngineFences
  <2>4. ASSUME NEW h \in Handlers
        PROVE  /\ calls'[h].awaited = calls[h].awaited
               /\ calls[h] = NoCall => calls'[h] = NoCall
               /\ FenceOf(calls[h], mem) => FenceOf(calls'[h], mem')
    <3>1. calls[h] \in Calls /\ NoCall.stage = "none"
      BY <1>t DEF NoCall
    <3>2. LET c == [calls[h] EXCEPT !.stage = "released"]
          IN /\ c.awaited = calls[h].awaited /\ c.op = calls[h].op
             /\ c.generation = calls[h].generation /\ c.stage = "released"
      BY <3>1 DEF Calls
    <3>3. CASE calls'[h] = calls[h]
      BY <3>3, <2>3 DEF FenceOf, SameFence
    <3>4. CASE calls[h].stage = "waiting" /\ calls'[h] = [calls[h] EXCEPT !.stage = "released"]
      BY <3>1, <3>2, <3>4, <2>3 DEF FenceOf, SameFence
    <3> QED
      BY <2>3, <3>3, <3>4 DEF Released
  <2> QED
    BY <1>s, <2>1, <2>2, <2>3, <2>4 DEF Idle, SameFence
<1>2. ASSUME NEW h \in Handlers, Serves(h)
      PROVE  /\ up' /\ pm' # "recover-resume"
             /\ \A k \in Handlers : Idle(k)' \/ calls'[k].awaited
             /\ pm' \notin {"recover", "idle", "sleep"}
             /\ \E k \in Handlers : calls'[k].awaited
             /\ \A k \in Handlers : calls'[k].awaited => FenceOf(calls'[k], mem')
  <2>1. Serve(h) /\ UNCHANGED pm
    BY <1>2 DEF Serves
  <2>2. up' /\ calls[h].op # "none" /\ calls[h].stage \notin {"ok", "error"}
    BY <2>1, ServeUpdates
  <2>3. calls[h].awaited
    BY <2>2, <1>s, <1>i
  <2>4. PICK v \in {"ok", "error", "waiting", "check"} : Answer(h, v) \/ SetStage(h, v)
    BY <2>1, ServeUpdates
  <2>5. (\A k \in Handlers \ {h} : calls'[k] = calls[k]) /\ calls'[h].awaited
    BY <2>3, <2>4, <1>t, CallUpdate
  <2>6. FenceOf(calls'[h], mem')
    BY <2>1, <2>3, <1>s, <1>n, ServeFences
  <2>7. pm \notin {"idle", "sleep", "recover"}
    <3>1. Asking /\ calls[h].op = Op
      BY <2>3, <1>o
    <3>2. calls[h].op # "status"
      BY <2>1 DEF Serve, PrepareBegins, PrepareTimesOut, PrepareChecks, ServeAbort,
                  ServeResume, Ready
    <3> QED
      BY <3>1, <3>2 DEF Asking, Op
  <2>8. \A k \in Handlers : Idle(k)' \/ calls'[k].awaited
    BY <1>s, <2>5 DEF Idle
  <2>9. \A k \in Handlers : calls'[k].awaited => FenceOf(calls'[k], mem')
    BY <1>c, <2>3, <2>5, <2>6
  <2> QED
    BY <1>s, <2>1, <2>2, <2>5, <2>7, <2>8, <2>9
<1>3. ASSUME NEW h \in Handlers, Ask(h)
      PROVE  /\ \A k \in Handlers : Idle(k)' \/ calls'[k].awaited
             /\ \E k \in Handlers : calls'[k].awaited
             /\ \A k \in Handlers : calls'[k].awaited => FenceOf(calls'[k], mem')
             /\ UNCHANGED <<up, pm, mem, token>> /\ pm # "sleep"
  <2>1. /\ Asking /\ Awaited = {} /\ UNCHANGED <<up, mem, pm, token>>
        /\ calls' = [calls EXCEPT ![h] = Call(Op, token)]
    BY <1>3 DEF Ask, pmVars
  <2>2. /\ calls'[h] = Call(Op, token) /\ calls'[h].awaited
        /\ \A k \in Handlers \ {h} : calls'[k] = calls[k] /\ ~calls[k].awaited
    BY <2>1, <1>t DEF Awaited, Call
  <2>3. FenceOf(Call(Op, token), mem)
    <3>1. Op \in {"status", "prepare", "abort", "resume"} /\ (Op = "prepare" <=> pm = "prepare")
          /\ (Op = "resume" => pm = "resume")
      BY <2>1, <1>s, <1>t DEF Op, Asking, TypeOK, Stages
    <3>2. \A k \in Handlers : ~calls[k].awaited
      BY <2>1 DEF Awaited
    <3> QED
      BY <3>1, <3>2, <1>s DEF FenceOf, Call
  <2>4. FenceOf(calls'[h], mem')
    BY <2>1, <2>2, <2>3 DEF FenceOf
  <2> QED
    BY <1>s, <2>1, <2>2, <2>4 DEF Idle, Asking
<1>4. ASSUME NEW h \in Handlers, NEW old \in BOOLEAN, Reply(h, old)
      PROVE  /\ up' /\ UNCHANGED mem /\ \A k \in Handlers : calls'[k] = NoCall
             /\ \/ pm' \in {"prepare", "idle"} /\ mem.fence = "none"
                \/ pm' = "sleep" /\ mem.fence = "admitted" /\ token' = mem.generation
                \/ pm' = "abort"
  <2>1. /\ calls[h].awaited /\ calls' = [calls EXCEPT ![h] = NoCall]
        /\ calls[h].stage \in {"ok", "error"}
        /\ pm' \in After(calls[h].stage = "ok" /\ ~old, Preparing(mem))
        /\ token' = IF pm' \in {"recover-resume", "sleep"} THEN mem.generation ELSE 0
        /\ UNCHANGED <<mem, up>>
        /\ old => calls[h].op = "status"
    BY <1>4 DEF Reply, Awaited
  <2>2. \A k \in Handlers : calls'[k] = NoCall
    BY <2>1, <1>t, <1>s, <1>c
  <2>3. calls[h].op = Op /\ Asking /\ FenceOf(calls[h], mem)
    BY <2>1, <1>o, <1>s
  <2>4. CASE pm = "recover"
    <3>1. mem.fence = "none"
      BY <2>4, <1>s
    <3>2. pm' \in {"prepare", "idle"}
      BY <2>1, <2>4, <3>1 DEF After, Preparing
    <3> QED
      BY <2>1, <2>2, <3>1, <3>2, <1>s
  <2>5. CASE pm = "prepare"
    <3>1. calls[h].op = "prepare" /\ ~old
      BY <2>1, <2>3, <2>5 DEF Op
    <3>2. CASE calls[h].stage = "ok"
      <4>1. mem.fence = "admitted"
        BY <2>3, <3>1, <3>2 DEF FenceOf
      <4>2. pm' = "sleep"
        BY <2>1, <2>5, <3>1, <3>2, <4>1 DEF After, Preparing
      <4> QED
        BY <2>1, <2>2, <4>1, <4>2, <1>s
    <3>3. CASE calls[h].stage = "error"
      <4>1. mem.fence = "none"
        BY <2>3, <3>1, <3>3 DEF FenceOf
      <4>2. pm' = "idle"
        BY <2>1, <2>5, <3>3 DEF After
      <4> QED
        BY <2>1, <2>2, <4>1, <4>2, <1>s
    <3> QED
      BY <2>1, <3>2, <3>3
  <2>6. CASE pm \in {"abort", "resume"}
    <3>1. calls[h].op = pm
      BY <2>3, <2>6 DEF Op
    <3>2. mem.fence = "none"
      BY <2>1, <2>3, <2>6, <3>1 DEF FenceOf
    <3>3. pm' = "idle"
      BY <2>1, <2>6 DEF After
    <3> QED
      BY <2>1, <2>2, <3>2, <3>3, <1>s
  <2> QED
    BY <2>3, <2>4, <2>5, <2>6, <1>s, <1>t DEF Asking, TypeOK, Stages
<1>5. ~CallFails
  <2>1. CallFails => Awaited = {} /\ \A h \in Handlers : calls[h] # NoCall
    BY <1>s DEF CallFails, Idle
  <2> QED
    BY <2>1, <1>s, HandlersAssumption DEF Awaited
<1>6. ~CallTimesOut /\ ~PMCrash /\ ~BoardReboots
  BY <1>n DEF CallTimesOut, PMCrash, BoardReboots, Reboot
<1>7. CASE BeginSuspend \/ SuspendFails \/ BoardSleeps
  <2>1. /\ UNCHANGED <<up, mem, calls>>
        /\ \/ pm = "idle" /\ pm' = "recover"
           \/ pm = "sleep" /\ pm' = "abort"
           \/ pm = "sleep" /\ pm' = "resume" /\ UNCHANGED token
    BY <1>7 DEF BeginSuspend, SuspendFails, BoardSleeps, engineVars
  <2>2. \A k \in Handlers : ~calls[k].awaited
    BY <2>1, <1>o DEF Asking
  <2> QED
    BY <1>s, <2>1, <2>2 DEF Idle
<1>8. CASE UNCHANGED vars
  <2>1. UNCHANGED <<up, mem, calls, pm, token>>
    BY <1>8 DEF vars, engineVars, pmVars
  <2> QED
    BY <1>s, <2>1 DEF Idle, FenceOf
<1> QED
  BY <1>1, <1>2, <1>3, <1>4, <1>5, <1>6, <1>7, <1>8, <1>s, <1>i, NextSteps DEF ClientStep, Idle

\* pm-service and the coordinator agree on the suspend sequence.
THEOREM ClientInvariants == Spec => [](ClientInv /\ AdmissionInv /\ SequenceInv)
<1>1. Init => ClientInv /\ AdmissionInv /\ SequenceInv
  <2> SUFFICES ASSUME Init PROVE ClientInv /\ AdmissionInv /\ SequenceInv
    OBVIOUS
  <2>1. calls = NoCalls /\ pm = "recover" /\ mem.fence = "none" /\ up
    BY DEF Init, EngineInit, FreshState
  <2>2. \A h \in Handlers : Idle(h) /\ ~calls[h].awaited
    BY <2>1, NobodyWaits, EngineInitInv DEF Idle, EngineInv
  <2> QED
    BY <2>1, <2>2 DEF ClientInv, AdmissionInv, SequenceInv, Awaited
<1>2. EngineInv /\ EngineInv' /\ ClientInv /\ AdmissionInv /\ SequenceInv /\ [Next]_vars
      => (ClientInv /\ AdmissionInv /\ SequenceInv)'
  BY ClientInvStep, AdmissionInvStep, SequenceInvStep
<1> QED
  BY <1>1, <1>2, EngineInvariant, PTL DEF Spec

\* When pm-service takes the board down its admission stands and chrony does not
\* step, unless a request that outlived its client has changed the fence.
THEOREM SuspendTheorem == Spec => SuspendIsFenced
<1>1. EngineInv /\ AdmissionInv =>
        [pm = "sleep" /\ pm' = "resume" =>
           \/ Fenced(mem) /\ makestep = "none"
           \/ disturbed]_vars
  BY DEF EngineInv, AdmissionInv, StepInv, Sound, Admitted, Fenced, TypeOK
<1> QED
  BY <1>1, EngineInvariant, ClientInvariants, PTL DEF SuspendIsFenced

\* A suspend sequence that is over has given the clock back where nothing failed.
THEOREM PreparationTheorem == Spec => []PreparationIsReturned
<1>1. SequenceInv => PreparationIsReturned
  BY DEF SequenceInv, PreparationIsReturned, Preparing
<1> QED
  BY <1>1, ClientInvariants, PTL
=============================================================================
