--------------------------- MODULE SchedulerProofs ---------------------------
(***************************************************************************)
(* Proofs about scheduled hibernation, for any number of occurrences,      *)
(* changes of the settings, steps of the wall clock and restarts.          *)
(***************************************************************************)
EXTENDS Scheduler, TLAPS

-----------------------------------------------------------------------------
(* The inductive invariant.                                                *)

\* Whoever acts, acts for an occurrence, and goes on to nothing else that does.
OccurrenceInv ==
    /\ sched.pending # NoTarget => sched.pending.occurrence \in Occurrences
    /\ \A t \in Threads :
          /\ thread[t].pc \in {"send", "act"} => thread[t].occurrence \in Occurrences
          /\ thread[t].then \in {"idle", "dispatch"}
    /\ thread["cron"].pc = "fire" => Latest(clock.wall) \in Occurrences

\* Nothing is under way that hibernates the board.
Calm ==
    /\ sched.pending = NoTarget
    /\ \A t \in Threads : thread[t].pc \notin {"send", "act"}

\* The gate and the startup cooldown keep everything calm, and what the marker
\* says of the last run outlives it.
CalmInv ==
    /\ ~sched.synced => Calm /\ sched.handled = 0
    /\ sched.suppressed => Calm
    /\ history.woken => sched.suppressed
    /\ history.sent # {} => marker # "absent"

\* Occurrence k has been sent, is being sent, or is to be sent on stand-by.
Used(k) ==
    \/ k \in history.sent
    \/ \E t \in Threads : Dispatching(t) /\ thread[t].occurrence = k
    \/ sched.pending # NoTarget /\ sched.pending.occurrence = k

\* The occurrences that the schedule must not use again.
Spent == {k \in Occurrences : Used(k) /\ k \notin history.overtaken}

\* They are of the past, covered by lastFired, behind the cron entry once the
\* cooldown is over, and behind every catch-up that is under way.
SpentInv ==
    /\ \A k \in Spent :
          /\ k <= Latest(clock.wall) /\ k <= sched.handled
          /\ sched.cooling \/ sched.entry = 0 \/ k < sched.entry
          /\ thread["cron"].pc = "fire" /\ ~sched.cooling => k < Latest(clock.wall)
          /\ \A t \in Threads : thread[t].pc = "act" => k < thread[t].occurrence
    /\ \A t \in Threads :
          /\ thread[t].pc = "act"
          /\ thread[t].occurrence \notin history.overtaken
          => thread[t].occurrence <= Latest(clock.wall)

\* And each of them has been used in one way only.
OnceInv ==
    \A t \in Threads :
        Dispatching(t) /\ thread[t].occurrence \notin history.overtaken =>
            /\ thread[t].occurrence \notin history.sent
            /\ sched.pending # NoTarget => sched.pending.occurrence # thread[t].occurrence
            /\ \A u \in Threads \ {t} :
                  Dispatching(u) => thread[u].occurrence # thread[t].occurrence

\* A target that waits for stand-by has not been sent.
PendingInv ==
    sched.pending # NoTarget /\ sched.pending.occurrence \notin history.overtaken =>
        sched.pending.occurrence \notin history.sent

SInv == TypeOK /\ OccurrenceInv /\ CalmInv /\ SpentInv /\ OnceInv /\ PendingInv

-----------------------------------------------------------------------------
(* The operators.                                                          *)

\* The latest occurrence is an occurrence or 0, and grows with the clock.
LEMMA LatestTyped ==
    ASSUME NEW phase \in Phases
    PROVE  /\ Latest(phase) \in 0 .. MaxOccurrences
           /\ \A q \in Phases : phase <= q => Latest(phase) <= Latest(q)
BY ScheduleAssumption DEF Latest, Phases

\* A rebuild changes the cron entry only: to nothing, or to the next occurrence.
LEMMA RebuiltTyped ==
    ASSUME NEW s \in Schedulers, NEW phase \in Phases
    PROVE  /\ Rebuilt(s, phase) \in Schedulers
           /\ Rebuilt(s, phase).entry \in {0, Latest(phase) + 1}
           /\ Rebuilt(s, phase).enabled = s.enabled
           /\ Rebuilt(s, phase).synced = s.synced
           /\ Rebuilt(s, phase).standby = s.standby
           /\ Rebuilt(s, phase).pending = s.pending
           /\ Rebuilt(s, phase).handled = s.handled
           /\ Rebuilt(s, phase).cooling = s.cooling
           /\ Rebuilt(s, phase).suppressed = s.suppressed
           /\ Rebuilt(s, phase).started = s.started
<1> DEFINE e == IF s.enabled /\ s.cron THEN Latest(phase) + 1 ELSE 0
<1>1. e \in 0 .. MaxOccurrences + 1 /\ e \in {0, Latest(phase) + 1}
  BY LatestTyped, ScheduleAssumption
<1>2. Rebuilt(s, phase) = [s EXCEPT !.entry = e]
  BY DEF Rebuilt
<1> HIDE DEF e
<1> QED
  BY <1>1, <1>2 DEF Schedulers

\* The targets are typed; a step of the wall clock keeps the occurrence of one.
LEMMA TargetsTyped ==
    /\ NoTarget \in [occurrence : 0 .. MaxOccurrences,
                     basis : {"none", "mono", "wall", "adrift", "late"}]
    /\ \A k \in Occurrences, b \in {"mono", "wall", "adrift", "late"} :
          /\ Target(k, b) \in [occurrence : 0 .. MaxOccurrences,
                               basis : {"none", "mono", "wall", "adrift", "late"}]
          /\ Target(k, b) # NoTarget /\ Target(k, b).occurrence = k
          /\ Target(k, b).basis = b
    /\ \A p \in [occurrence : 0 .. MaxOccurrences,
                 basis : {"none", "mono", "wall", "adrift", "late"}] :
          /\ Adrift(p) \in [occurrence : 0 .. MaxOccurrences,
                            basis : {"none", "mono", "wall", "adrift", "late"}]
          /\ Adrift(p).occurrence = p.occurrence
          /\ Adrift(p) = NoTarget <=> p = NoTarget
BY ScheduleAssumption DEF NoTarget, Target, Adrift, Occurrences

\* Where a goroutine goes.
LEMMA GoesTyped ==
    ASSUME NEW pc \in Steps, NEW k \in 0 .. MaxOccurrences, NEW b \in BOOLEAN,
           NEW then \in Steps
    PROVE  /\ Goes(pc, k, b, then) \in Goroutines
           /\ Goes(pc, k, b, then).pc = pc
           /\ Goes(pc, k, b, then).occurrence = k
           /\ Goes(pc, k, b, then).standby = b
           /\ Goes(pc, k, b, then).then = then
BY DEF Goes, Goroutines

\* The same without an occurrence.
LEMMA AtTyped ==
    ASSUME NEW pc \in Steps
    PROVE  At(pc) \in Goroutines /\ At(pc).pc = pc /\ At(pc).then = "idle"
BY ScheduleAssumption DEF At, Goes, Goroutines, Steps

\* A move moves one goroutine.
LEMMA Moves ==
    ASSUME TypeOK, NEW t \in Threads, NEW where \in Goroutines, Move(t, where)
    PROVE  /\ thread' \in [Threads -> Goroutines] /\ thread'[t] = where
           /\ \A u \in Threads \ {t} : thread'[u] = thread[u]
BY DEF TypeOK, Move

\* Overtaking gives up the occurrences from the one read by a catch-up under way.
LEMMA Overtakes ==
    ASSUME TypeOK, OccurrenceInv, NEW t \in Threads, NEW k \in Occurrences
    PROVE  /\ Overtaking(t, k) \in Histories
           /\ Overtaking(t, k).sent = history.sent
           /\ Overtaking(t, k).woken = history.woken
           /\ Overtaking(t, k).stuck = history.stuck
           /\ history.overtaken \subseteq Overtaking(t, k).overtaken
           /\ \A u \in Threads \ {t} : thread[u].pc = "act" =>
                 thread[u].occurrence .. k \subseteq Overtaking(t, k).overtaken
<1> DEFINE behind == {u \in Threads \ {t} : Enters(u, "act")}
           more == UNION {thread[u].occurrence .. k : u \in behind}
<1>1. \A u \in behind : thread[u].occurrence \in Occurrences
  BY DEF OccurrenceInv, Enters
<1>2. \A u \in behind : thread[u].occurrence .. k \subseteq Occurrences
  BY <1>1, ScheduleAssumption DEF Occurrences
<1>3. more \subseteq Occurrences
  BY <1>2, Zenon
<1>4. \A u \in Threads \ {t} :
         thread[u].pc = "act" => thread[u].occurrence .. k \subseteq more
  BY Zenon DEF Enters
<1>5. Overtaking(t, k) = [history EXCEPT !.overtaken = @ \cup more]
  BY Zenon DEF Overtaking
<1> HIDE DEF more
<1>6. history.overtaken \subseteq Occurrences
  BY DEF TypeOK, Histories
<1>7. history.overtaken \cup more \in SUBSET Occurrences
  BY <1>3, <1>6
<1>8. /\ Overtaking(t, k) \in Histories
      /\ Overtaking(t, k).sent = history.sent
      /\ Overtaking(t, k).woken = history.woken
      /\ Overtaking(t, k).stuck = history.stuck
      /\ Overtaking(t, k).overtaken = history.overtaken \cup more
  BY <1>5, <1>7 DEF TypeOK, Histories
<1> QED
  BY <1>4, <1>8

-----------------------------------------------------------------------------
(* What the actions do.                                                    *)

\* A goroutine that fires is on its way to send.
LEMMA FiresEffects ==
    ASSUME TypeOK, NEW t \in Threads, NEW k \in Occurrences,
           NEW then \in {"idle", "dispatch"}, Fires(t, k, then)
    PROVE  /\ thread' \in [Threads -> Goroutines] /\ thread'[t].pc = "send"
           /\ thread'[t].occurrence = k /\ thread'[t].then = then
           /\ \A u \in Threads \ {t} : thread'[u] = thread[u]
<1>1. "send" \in Steps /\ k \in 0 .. MaxOccurrences /\ then \in Steps
  BY ScheduleAssumption DEF Steps, Occurrences
<1>2. /\ Goes("send", k, FALSE, then) \in Goroutines
      /\ Goes("send", k, FALSE, then).pc = "send"
      /\ Goes("send", k, FALSE, then).occurrence = k
      /\ Goes("send", k, FALSE, then).then = then
  BY <1>1 DEF Goes, Goroutines
<1>3. Move(t, Goes("send", k, FALSE, then))
  BY DEF Fires
<1> QED
  BY <1>2, <1>3, Moves

\* A goroutine that goes somewhere without an occurrence.
LEMMA GoesOn ==
    ASSUME TypeOK, NEW t \in Threads, NEW pc \in Steps, Move(t, At(pc))
    PROVE  /\ thread' \in [Threads -> Goroutines] /\ thread'[t].pc = pc
           /\ thread'[t].then = "idle"
           /\ \A u \in Threads \ {t} : thread'[u] = thread[u]
<1>1. At(pc) \in Goroutines /\ At(pc).pc = pc /\ At(pc).then = "idle"
  BY AtTyped
<1> QED
  BY <1>1, Moves

\* Sending records the occurrence and leaves a marker.
LEMMA SendEffects ==
    ASSUME TypeOK, OccurrenceInv, NEW t \in Threads, NEW written \in BOOLEAN,
           Send(t, written)
    PROVE  /\ thread[t].pc = "send" /\ thread[t].occurrence \in Occurrences
           /\ thread' \in [Threads -> Goroutines]
           /\ thread'[t].pc \in {"idle", "dispatch"} /\ thread'[t].then = "idle"
           /\ \A u \in Threads \ {t} : thread'[u] = thread[u]
           /\ history' \in Histories
           /\ history'.sent = history.sent \cup {thread[t].occurrence}
           /\ history'.overtaken = history.overtaken
           /\ history'.woken = history.woken
           /\ marker' \in {"present", "lost"}
           /\ sched' = sched /\ clock' = clock /\ left' = left
<1>1. thread[t].pc = "send" /\ thread[t].occurrence \in Occurrences
  BY DEF Send, Enters, OccurrenceInv
<1>2. thread[t].then \in {"idle", "dispatch"} /\ thread[t].then \in Steps
  BY DEF OccurrenceInv, Steps
<1>3. Move(t, At(thread[t].then))
  BY DEF Send
<1>4. /\ thread' \in [Threads -> Goroutines]
      /\ thread'[t].pc = thread[t].then /\ thread'[t].then = "idle"
      /\ \A u \in Threads \ {t} : thread'[u] = thread[u]
  BY <1>2, <1>3, GoesOn
<1>5. history' = [history EXCEPT !.sent = @ \cup {thread[t].occurrence}]
  BY DEF Send
<1>6. /\ history' \in Histories
      /\ history'.sent = history.sent \cup {thread[t].occurrence}
      /\ history'.overtaken = history.overtaken
      /\ history'.woken = history.woken
  BY <1>1, <1>5 DEF TypeOK, Histories
<1>7. marker' \in {"present", "lost"}
  BY DEF Send
<1> QED
  BY <1>1, <1>2, <1>4, <1>6, <1>7 DEF Send

\* The cron engine's turn: the entry moves on to the next occurrence.
LEMMA CronEffects ==
    ASSUME TypeOK, OccurrenceInv, CronFires
    PROVE  /\ thread["cron"].pc = "idle"
           /\ sched.entry # 0 /\ sched.entry <= Latest(clock.wall)
           /\ Latest(clock.wall) \in Occurrences
           /\ sched' \in Schedulers
           /\ sched'.entry = Latest(clock.wall) + 1
           /\ sched'.pending = sched.pending /\ sched'.handled = sched.handled
           /\ sched'.cooling = sched.cooling /\ sched'.suppressed = sched.suppressed
           /\ sched'.synced = sched.synced
           /\ thread' \in [Threads -> Goroutines] /\ thread'["cron"].pc = "fire"
           /\ thread'["cron"].then = "idle"
           /\ \A u \in Threads \ {"cron"} : thread'[u] = thread[u]
           /\ clock' = clock /\ marker' = marker /\ history' = history /\ left' = left
<1>1. Latest(clock.wall) \in 0 .. MaxOccurrences /\ sched.entry \in 0 .. MaxOccurrences + 1
  BY LatestTyped DEF TypeOK, Clocks, Schedulers
<1>2. sched.entry # 0 /\ sched.entry <= Latest(clock.wall)
  BY DEF CronFires, CronDue
<1>3. Latest(clock.wall) \in Occurrences
  BY <1>1, <1>2, ScheduleAssumption DEF Occurrences
<1>4. Latest(clock.wall) + 1 \in 0 .. MaxOccurrences + 1
  BY <1>1, ScheduleAssumption
<1>5. sched' = [sched EXCEPT !.entry = Latest(clock.wall) + 1]
  BY DEF CronFires
<1>6. /\ sched' \in Schedulers
      /\ sched'.entry = Latest(clock.wall) + 1
      /\ sched'.pending = sched.pending /\ sched'.handled = sched.handled
      /\ sched'.cooling = sched.cooling /\ sched'.suppressed = sched.suppressed
      /\ sched'.synced = sched.synced
  BY <1>4, <1>5 DEF TypeOK, Schedulers
<1>7. "cron" \in Threads /\ "fire" \in Steps /\ Move("cron", At("fire"))
  BY DEF Threads, Steps, CronFires
<1>8. /\ thread' \in [Threads -> Goroutines] /\ thread'["cron"].pc = "fire"
      /\ thread'["cron"].then = "idle"
      /\ \A u \in Threads \ {"cron"} : thread'[u] = thread[u]
  BY <1>7, GoesOn
<1> QED
  BY <1>2, <1>3, <1>6, <1>8 DEF CronFires, Enters

\* fire records the occurrence that is due and uses it, at once or for stand-by.
FireUses ==
    /\ sched.synced /\ ~sched.suppressed /\ ~sched.cooling
    /\ Latest(clock.wall) \in Occurrences
    /\ sched'.handled = Latest(clock.wall) /\ sched'.cooling
    /\ \/ /\ sched'.pending = NoTarget
          /\ thread'["cron"].pc = "send"
          /\ thread'["cron"].occurrence = Latest(clock.wall)
       \/ /\ sched'.pending # NoTarget
          /\ sched'.pending.occurrence = Latest(clock.wall)
          /\ sched.enabled
          /\ thread'["cron"].pc = "idle"
    /\ history' = Overtaking("cron", Latest(clock.wall))

\* fire does that, or returns early.
LEMMA FireEffects ==
    ASSUME TypeOK, OccurrenceInv, fire
    PROVE  /\ thread["cron"].pc = "fire"
           /\ sched' \in Schedulers
           /\ sched'.entry = sched.entry
           /\ sched'.suppressed = sched.suppressed /\ sched'.synced = sched.synced
           /\ thread' \in [Threads -> Goroutines]
           /\ thread'["cron"].then = "idle"
           /\ \A u \in Threads \ {"cron"} : thread'[u] = thread[u]
           /\ clock' = clock /\ marker' = marker /\ left' = left
           /\ \/ FireUses
              \/ thread'["cron"].pc = "idle" /\ sched' = sched /\ history' = history
<1> DEFINE k == Latest(clock.wall)
           fired == [sched EXCEPT !.handled = k, !.cooling = TRUE]
           target == Target(k, IF clock.stepped THEN "late" ELSE "mono")
<1>0. thread["cron"].pc = "fire" /\ "cron" \in Threads /\ "idle" \in Steps
  BY DEF fire, Enters, Threads, Steps
<1>1. k \in Occurrences /\ k \in 0 .. MaxOccurrences
  BY <1>0, ScheduleAssumption DEF OccurrenceInv, Occurrences
<1>2. /\ target \in [occurrence : 0 .. MaxOccurrences,
                     basis : {"none", "mono", "wall", "adrift", "late"}]
      /\ target # NoTarget /\ target.occurrence = k
  <2>1. CASE clock.stepped
    BY <2>1, <1>1, TargetsTyped
  <2>2. CASE ~clock.stepped
    BY <2>2, <1>1, TargetsTyped
  <2> QED
    BY <2>1, <2>2
<1>3. /\ NoTarget \in [occurrence : 0 .. MaxOccurrences,
                       basis : {"none", "mono", "wall", "adrift", "late"}]
  BY TargetsTyped
<1>4. fired \in Schedulers /\ fired.handled = k /\ fired.cooling
      /\ fired.entry = sched.entry /\ fired.suppressed = sched.suppressed
      /\ fired.synced = sched.synced
  BY <1>1 DEF TypeOK, Schedulers
<1>5. CASE ~FireAllowed /\ Move("cron", At("idle")) /\ UNCHANGED <<sched, history>>
  <2>1. /\ thread' \in [Threads -> Goroutines] /\ thread'["cron"].pc = "idle"
        /\ thread'["cron"].then = "idle"
        /\ \A u \in Threads \ {"cron"} : thread'[u] = thread[u]
    BY <1>0, <1>5, GoesOn
  <2> QED
    BY <1>0, <1>5, <2>1 DEF fire, TypeOK
<1>6. CASE /\ FireAllowed
           /\ sched' = [fired EXCEPT !.pending = NoTarget]
           /\ Fires("cron", k, "idle") /\ history' = Overtaking("cron", k)
  <2>1. /\ thread' \in [Threads -> Goroutines] /\ thread'["cron"].pc = "send"
        /\ thread'["cron"].occurrence = k /\ thread'["cron"].then = "idle"
        /\ \A u \in Threads \ {"cron"} : thread'[u] = thread[u]
    <3> HIDE DEF k
    <3> QED
      BY <1>0, <1>1, <1>6, FiresEffects
  <2> HIDE DEF fired
  <2>2. /\ sched' \in Schedulers /\ sched'.handled = k /\ sched'.cooling
        /\ sched'.entry = sched.entry /\ sched'.suppressed = sched.suppressed
        /\ sched'.synced = sched.synced /\ sched'.pending = NoTarget
    BY <1>3, <1>4, <1>6 DEF Schedulers
  <2>3. FireUses
    BY <1>1, <1>6, <2>1, <2>2 DEF FireUses, FireAllowed
  <2> QED
    BY <1>0, <2>1, <2>2, <2>3 DEF fire
<1>7. CASE /\ FireAllowed
           /\ sched' = [fired EXCEPT !.pending = target]
           /\ Move("cron", At("idle")) /\ history' = Overtaking("cron", k)
  <2>1. /\ thread' \in [Threads -> Goroutines] /\ thread'["cron"].pc = "idle"
        /\ thread'["cron"].then = "idle"
        /\ \A u \in Threads \ {"cron"} : thread'[u] = thread[u]
    BY <1>0, <1>7, GoesOn
  <2> HIDE DEF fired, target
  <2>2. /\ sched' \in Schedulers /\ sched'.handled = k /\ sched'.cooling
        /\ sched'.entry = sched.entry /\ sched'.suppressed = sched.suppressed
        /\ sched'.synced = sched.synced /\ sched'.pending = target
    BY <1>2, <1>4, <1>7 DEF Schedulers
  <2>3. FireUses
    BY <1>1, <1>2, <1>7, <2>1, <2>2 DEF FireUses, FireAllowed
  <2> QED
    BY <1>0, <2>1, <2>2, <2>3 DEF fire
<1> QED
  BY <1>5, <1>6, <1>7, Zenon DEF fire

\* A target that is taken is sent, or dropped when it is past.
Takes(t) ==
    \/ thread'[t].pc = "idle"
    \/ /\ thread'[t].pc = "send"
       /\ thread'[t].occurrence = sched.pending.occurrence

\* Taking a target moves one goroutine.
LEMMA TakeEffects ==
    ASSUME TypeOK, OccurrenceInv, sched.pending # NoTarget, NEW t \in Threads, Take(t)
    PROVE  /\ thread' \in [Threads -> Goroutines] /\ thread'[t].then = "idle"
           /\ \A u \in Threads \ {t} : thread'[u] = thread[u]
           /\ Takes(t)
<1>1. sched.pending.occurrence \in Occurrences
  BY DEF OccurrenceInv
<1>2. PICK past \in Past : IF past THEN Move(t, At("idle"))
                           ELSE Fires(t, sched.pending.occurrence, "idle")
  BY DEF Take
<1>3. "idle" \in Steps /\ "idle" \in {"idle", "dispatch"}
  BY DEF Steps
<1>4. CASE past
  <2>1. /\ thread' \in [Threads -> Goroutines] /\ thread'[t].pc = "idle"
        /\ thread'[t].then = "idle"
        /\ \A u \in Threads \ {t} : thread'[u] = thread[u]
    BY <1>2, <1>3, <1>4, GoesOn
  <2> QED
    BY <2>1 DEF Takes
<1>5. CASE ~past
  <2>1. /\ thread' \in [Threads -> Goroutines] /\ thread'[t].pc = "send"
        /\ thread'[t].occurrence = sched.pending.occurrence
        /\ thread'[t].then = "idle"
        /\ \A u \in Threads \ {t} : thread'[u] = thread[u]
    BY <1>1, <1>2, <1>3, <1>5, FiresEffects
  <2> QED
    BY <2>1 DEF Takes
<1> QED
  BY <1>4, <1>5

\* A goroutine takes the pending target, and only with the gate open.
TakesPending(t) ==
    /\ sched.synced /\ sched.pending # NoTarget
    /\ sched'.pending = NoTarget /\ Takes(t)

\* The vehicle watcher takes, keeps or drops a target.
LEMMA VehicleEffects ==
    ASSUME TypeOK, OccurrenceInv, NEW standby \in BOOLEAN, OnVehicleStateChanged(standby)
    PROVE  /\ thread["vehicle"].pc = "idle"
           /\ sched' \in Schedulers
           /\ sched'.entry = sched.entry /\ sched'.handled = sched.handled
           /\ sched'.cooling = sched.cooling
           /\ sched'.suppressed = sched.suppressed /\ sched'.synced = sched.synced
           /\ thread' \in [Threads -> Goroutines]
           /\ \/ thread' = thread /\ sched'.pending \in {sched.pending, NoTarget}
              \/ /\ TakesPending("vehicle") /\ thread'["vehicle"].then = "idle"
                 /\ \A u \in Threads \ {"vehicle"} : thread'[u] = thread[u]
           /\ clock' = clock /\ marker' = marker /\ history' = history /\ left' = left
<1> DEFINE known == [sched EXCEPT !.standby = standby]
<1>0. thread["vehicle"].pc = "idle" /\ "vehicle" \in Threads
  BY DEF OnVehicleStateChanged, Enters, Threads
<1>1. /\ known \in Schedulers /\ known.entry = sched.entry
      /\ known.handled = sched.handled /\ known.cooling = sched.cooling
      /\ known.suppressed = sched.suppressed /\ known.synced = sched.synced
      /\ known.pending = sched.pending
  BY DEF TypeOK, Schedulers
<1>2. \/ sched' = known /\ thread' = thread
      \/ sched' = [known EXCEPT !.pending = NoTarget] /\ thread' = thread
      \/ /\ sched.synced /\ sched.pending # NoTarget
         /\ sched' = [known EXCEPT !.pending = NoTarget] /\ Take("vehicle")
  BY Zenon DEF OnVehicleStateChanged
<1> HIDE DEF known
<1>3. NoTarget \in [occurrence : 0 .. MaxOccurrences,
                    basis : {"none", "mono", "wall", "adrift", "late"}]
  BY TargetsTyped
<1>4. /\ sched' \in Schedulers
      /\ sched'.entry = sched.entry /\ sched'.handled = sched.handled
      /\ sched'.cooling = sched.cooling
      /\ sched'.suppressed = sched.suppressed /\ sched'.synced = sched.synced
      /\ sched' # known => sched'.pending = NoTarget
  BY <1>1, <1>2, <1>3 DEF Schedulers
<1>5. CASE thread' = thread
  BY <1>0, <1>1, <1>4, <1>5 DEF TypeOK, OnVehicleStateChanged
<1>6. CASE /\ sched.synced /\ sched.pending # NoTarget
           /\ sched' = [known EXCEPT !.pending = NoTarget] /\ Take("vehicle")
  <2>1. /\ thread' \in [Threads -> Goroutines] /\ thread'["vehicle"].then = "idle"
        /\ \A u \in Threads \ {"vehicle"} : thread'[u] = thread[u]
        /\ Takes("vehicle")
    BY <1>0, <1>6, TakeEffects
  <2>2. sched'.pending = NoTarget
    BY <1>1, <1>6 DEF Schedulers
  <2>3. TakesPending("vehicle")
    BY <1>6, <2>1, <2>2 DEF TakesPending
  <2> QED
    BY <1>0, <1>4, <2>1, <2>3 DEF OnVehicleStateChanged
<1> QED
  BY <1>2, <1>5, <1>6

\* The monitor takes a target, or leaves it.
LEMMA DispatchEffects ==
    ASSUME TypeOK, OccurrenceInv, dispatchPending
    PROVE  /\ thread["monitor"].pc = "dispatch"
           /\ sched' \in Schedulers
           /\ sched'.entry = sched.entry /\ sched'.handled = sched.handled
           /\ sched'.cooling = sched.cooling
           /\ sched'.suppressed = sched.suppressed /\ sched'.synced = sched.synced
           /\ thread' \in [Threads -> Goroutines]
           /\ thread'["monitor"].then = "idle"
           /\ \A u \in Threads \ {"monitor"} : thread'[u] = thread[u]
           /\ \/ thread'["monitor"].pc = "idle" /\ sched' = sched
              \/ TakesPending("monitor")
           /\ clock' = clock /\ marker' = marker /\ history' = history /\ left' = left
<1>0. thread["monitor"].pc = "dispatch" /\ "monitor" \in Threads /\ "idle" \in Steps
  BY DEF dispatchPending, Enters, Threads, Steps
<1>1. CASE Move("monitor", At("idle")) /\ UNCHANGED sched
  <2>1. /\ thread' \in [Threads -> Goroutines] /\ thread'["monitor"].pc = "idle"
        /\ thread'["monitor"].then = "idle"
        /\ \A u \in Threads \ {"monitor"} : thread'[u] = thread[u]
    BY <1>0, <1>1, GoesOn
  <2> QED
    BY <1>0, <1>1, <2>1 DEF TypeOK, dispatchPending
<1>2. CASE /\ sched.synced /\ sched.pending # NoTarget /\ Take("monitor")
           /\ sched' = [sched EXCEPT !.pending = NoTarget]
  <2>1. /\ thread' \in [Threads -> Goroutines] /\ thread'["monitor"].then = "idle"
        /\ \A u \in Threads \ {"monitor"} : thread'[u] = thread[u]
        /\ Takes("monitor")
    BY <1>0, <1>2, TakeEffects
  <2>2. /\ sched' \in Schedulers
        /\ sched'.entry = sched.entry /\ sched'.handled = sched.handled
        /\ sched'.cooling = sched.cooling
        /\ sched'.suppressed = sched.suppressed /\ sched'.synced = sched.synced
        /\ sched'.pending = NoTarget
    BY <1>2, TargetsTyped DEF TypeOK, Schedulers
  <2>3. TakesPending("monitor")
    BY <1>2, <2>1, <2>2 DEF TakesPending
  <2> QED
    BY <1>0, <2>1, <2>2, <2>3 DEF dispatchPending
<1> QED
  BY <1>1, <1>2, Zenon DEF dispatchPending

\* The first half of catchUpMissed reads an occurrence that lastFired does not
\* cover, with the gate open and no cooldown after a wake, or nothing.
LEMMA ReadsEffects ==
    ASSUME TypeOK, OccurrenceInv, NEW t \in Threads, CatchUpReads(t)
    PROVE  /\ thread[t].pc = "catch-up"
           /\ thread' \in [Threads -> Goroutines]
           /\ thread'[t].then \in {"idle", "dispatch"}
           /\ \A u \in Threads \ {t} : thread'[u] = thread[u]
           /\ \/ thread'[t].pc \in {"idle", "dispatch"}
              \/ /\ thread'[t].pc = "act" /\ thread'[t].occurrence = Latest(clock.wall)
                 /\ Latest(clock.wall) \in Occurrences
                 /\ Latest(clock.wall) > sched.handled
                 /\ sched.synced /\ ~sched.suppressed
           /\ sched' = sched /\ clock' = clock /\ marker' = marker
           /\ history' = history /\ left' = left
<1> DEFINE k == Latest(clock.wall)
<1>0. /\ thread[t].pc = "catch-up" /\ "act" \in Steps
      /\ AfterCatchUp(t) \in {"idle", "dispatch"} /\ AfterCatchUp(t) \in Steps
  BY DEF CatchUpReads, Enters, AfterCatchUp, Steps
<1>1. k \in 0 .. MaxOccurrences
  BY LatestTyped DEF TypeOK, Clocks
<1>2. sched.handled \in 0 .. MaxOccurrences /\ sched.standby \in BOOLEAN
  BY DEF TypeOK, Schedulers
<1>3. CASE CatchUpAllowed /\ Missed(k)
  <2>1. k > sched.handled /\ sched.synced /\ ~sched.suppressed
    BY <1>3 DEF CatchUpAllowed, Missed
  <2>2. k \in Occurrences
    BY <1>1, <1>2, <2>1, ScheduleAssumption DEF Occurrences
  <2>3. Move(t, Goes("act", k, sched.standby, AfterCatchUp(t)))
    BY <1>3 DEF CatchUpReads
  <2> HIDE DEF k
  <2>4. /\ Goes("act", k, sched.standby, AfterCatchUp(t)) \in Goroutines
        /\ Goes("act", k, sched.standby, AfterCatchUp(t)).pc = "act"
        /\ Goes("act", k, sched.standby, AfterCatchUp(t)).occurrence = k
        /\ Goes("act", k, sched.standby, AfterCatchUp(t)).then = AfterCatchUp(t)
    BY <1>0, <1>1, <1>2, GoesTyped
  <2>5. /\ thread' \in [Threads -> Goroutines] /\ thread'[t].pc = "act"
        /\ thread'[t].occurrence = k /\ thread'[t].then = AfterCatchUp(t)
        /\ \A u \in Threads \ {t} : thread'[u] = thread[u]
    BY <2>3, <2>4, Moves
  <2> QED
    BY <1>0, <2>1, <2>2, <2>5 DEF CatchUpReads, k
<1>4. CASE ~(CatchUpAllowed /\ Missed(k))
  <2>1. Move(t, At(AfterCatchUp(t)))
    BY <1>4 DEF CatchUpReads
  <2>2. /\ thread' \in [Threads -> Goroutines] /\ thread'[t].pc = AfterCatchUp(t)
        /\ thread'[t].then = "idle"
        /\ \A u \in Threads \ {t} : thread'[u] = thread[u]
    BY <1>0, <2>1, GoesOn
  <2> QED
    BY <1>0, <2>2 DEF CatchUpReads
<1> QED
  BY <1>3, <1>4

\* The second half sends the occurrence and records it.
CatchUpSends(t) ==
    LET k == thread[t].occurrence
    IN /\ sched'.handled = k /\ sched'.cooling /\ sched'.pending = NoTarget
       /\ thread'[t].pc = "send" /\ thread'[t].occurrence = k
       /\ history' = Overtaking(t, k)

\* Or defers it and gives it up.
CatchUpDefers(t) ==
    LET k == thread[t].occurrence
    IN /\ sched'.handled = sched.handled /\ sched'.cooling = sched.cooling
       /\ sched'.pending # NoTarget /\ sched'.pending.occurrence = k
       /\ sched.enabled /\ sched.synced
       /\ thread'[t].pc \in {"idle", "dispatch"}
       /\ history'.sent = history.sent /\ history'.woken = history.woken
       /\ history'.overtaken = history.overtaken \cup {k}

\* Or does nothing.
LEMMA ActsEffects ==
    ASSUME TypeOK, OccurrenceInv, NEW t \in Threads, CatchUpActs(t)
    PROVE  /\ thread[t].pc = "act" /\ thread[t].occurrence \in Occurrences
           /\ sched' \in Schedulers
           /\ sched'.entry = sched.entry
           /\ sched'.suppressed = sched.suppressed /\ sched'.synced = sched.synced
           /\ thread' \in [Threads -> Goroutines]
           /\ thread'[t].then \in {"idle", "dispatch"}
           /\ \A u \in Threads \ {t} : thread'[u] = thread[u]
           /\ history' \in Histories
           /\ \/ CatchUpSends(t)
              \/ CatchUpDefers(t)
              \/ /\ thread'[t].pc \in {"idle", "dispatch"}
                 /\ sched' = sched /\ history' = history
           /\ clock' = clock /\ marker' = marker /\ left' = left
<1> DEFINE k == thread[t].occurrence
           then == thread[t].then
<1>0. /\ thread[t].pc = "act" /\ k \in Occurrences /\ k \in 0 .. MaxOccurrences
      /\ then \in {"idle", "dispatch"} /\ then \in Steps
  BY ScheduleAssumption DEF CatchUpActs, Enters, OccurrenceInv, Occurrences, Steps
<1>1. /\ Target(k, "wall") \in [occurrence : 0 .. MaxOccurrences,
                                basis : {"none", "mono", "wall", "adrift", "late"}]
      /\ NoTarget \in [occurrence : 0 .. MaxOccurrences,
                       basis : {"none", "mono", "wall", "adrift", "late"}]
      /\ Target(k, "wall") # NoTarget /\ Target(k, "wall").occurrence = k
  BY <1>0, TargetsTyped
<1>2. CASE /\ sched' = [sched EXCEPT !.handled = k, !.cooling = TRUE,
                                     !.pending = NoTarget]
           /\ Fires(t, k, then) /\ history' = Overtaking(t, k)
  <2> HIDE DEF k, then
  <2>1. /\ thread' \in [Threads -> Goroutines] /\ thread'[t].pc = "send"
        /\ thread'[t].occurrence = k /\ thread'[t].then = then
        /\ \A u \in Threads \ {t} : thread'[u] = thread[u]
    BY <1>0, <1>2, FiresEffects
  <2>2. /\ sched' \in Schedulers /\ sched'.entry = sched.entry
        /\ sched'.suppressed = sched.suppressed /\ sched'.synced = sched.synced
        /\ sched'.handled = k /\ sched'.cooling /\ sched'.pending = NoTarget
    BY <1>0, <1>1, <1>2 DEF TypeOK, Schedulers
  <2>3. history' \in Histories
    BY <1>0, <1>2, Overtakes
  <2>4. CatchUpSends(t)
    BY <1>2, <2>1, <2>2 DEF CatchUpSends, k
  <2> QED
    BY <1>0, <2>1, <2>2, <2>3, <2>4 DEF CatchUpActs, k
<1>3. CASE /\ StillWanted /\ sched' = [sched EXCEPT !.pending = Target(k, "wall")]
           /\ Move(t, At(then))
           /\ history' = [history EXCEPT !.overtaken = @ \cup {k},
                                         !.stuck = @ \/ sched.standby]
  <2> HIDE DEF k, then
  <2>1. /\ thread' \in [Threads -> Goroutines] /\ thread'[t].pc = then
        /\ thread'[t].then = "idle"
        /\ \A u \in Threads \ {t} : thread'[u] = thread[u]
    BY <1>0, <1>3, GoesOn
  <2>2. /\ sched' \in Schedulers /\ sched'.entry = sched.entry
        /\ sched'.suppressed = sched.suppressed /\ sched'.synced = sched.synced
        /\ sched'.handled = sched.handled /\ sched'.cooling = sched.cooling
        /\ sched'.pending = Target(k, "wall")
    BY <1>1, <1>3 DEF TypeOK, Schedulers
  <2>3. /\ history' \in Histories /\ history'.sent = history.sent
        /\ history'.woken = history.woken
        /\ history'.overtaken = history.overtaken \cup {k}
    BY <1>0, <1>3 DEF TypeOK, Histories
  <2>4. CatchUpDefers(t)
    BY <1>0, <1>1, <1>3, <2>1, <2>2, <2>3 DEF CatchUpDefers, StillWanted, k
  <2> QED
    BY <1>0, <2>1, <2>2, <2>3, <2>4 DEF CatchUpActs, k
<1>4. CASE Move(t, At(then)) /\ UNCHANGED <<sched, history>>
  <2>1. /\ thread' \in [Threads -> Goroutines] /\ thread'[t].pc = then
        /\ thread'[t].then = "idle"
        /\ \A u \in Threads \ {t} : thread'[u] = thread[u]
    <3> HIDE DEF k, then
    <3> QED
      BY <1>0, <1>4, GoesOn
  <2> QED
    BY <1>0, <1>4, <2>1 DEF CatchUpActs, TypeOK
<1> QED
  BY <1>2, <1>3, <1>4, Zenon DEF CatchUpActs

\* The poll opens the gate, or finds it open.
LEMMA PollEffects ==
    ASSUME TypeOK, OccurrenceInv, pollForTimeSync
    PROVE  /\ thread["poll"].pc = "idle"
           /\ sched' \in Schedulers /\ thread' \in [Threads -> Goroutines]
           /\ sched'.pending = sched.pending /\ sched'.handled = sched.handled
           /\ sched'.cooling = sched.cooling /\ sched'.suppressed = sched.suppressed
           /\ sched'.entry \in {sched.entry, 0, Latest(clock.wall) + 1}
           /\ sched'.synced
           /\ clock' \in Clocks /\ clock'.wall = clock.wall
           /\ history' \in Histories /\ history'.sent = history.sent
           /\ history'.woken = history.woken
           /\ history'.overtaken = history.overtaken
           /\ \/ thread' = thread
              \/ /\ thread'["poll"].pc = "catch-up" /\ thread'["poll"].then = "idle"
                 /\ \A u \in Threads \ {"poll"} : thread'[u] = thread[u]
           /\ marker' = marker /\ left' = left
<1>0. thread["poll"].pc = "idle" /\ "poll" \in Threads /\ "catch-up" \in Steps
  BY DEF pollForTimeSync, Enters, Threads, Steps
<1>1. clock' \in Clocks /\ clock'.wall = clock.wall
  BY DEF pollForTimeSync, TypeOK, Clocks
<1>2. CASE SetTimeSynced
  <2> DEFINE s == [sched EXCEPT !.synced = TRUE]
  <2>1. /\ s \in Schedulers /\ s.pending = sched.pending /\ s.handled = sched.handled
        /\ s.cooling = sched.cooling /\ s.suppressed = sched.suppressed /\ s.synced
    BY DEF TypeOK, Schedulers
  <2>2. sched' = Rebuilt(s, clock.wall) /\ clock.wall \in Phases
    BY <1>2 DEF SetTimeSynced, TypeOK, Clocks
  <2> HIDE DEF s
  <2>3. /\ sched' \in Schedulers /\ sched'.entry \in {0, Latest(clock.wall) + 1}
        /\ sched'.pending = s.pending /\ sched'.handled = s.handled
        /\ sched'.cooling = s.cooling /\ sched'.suppressed = s.suppressed
        /\ sched'.synced = s.synced
    BY <2>1, <2>2, RebuiltTyped, Zenon
  <2>4. Move("poll", At("catch-up"))
    BY <1>2 DEF SetTimeSynced
  <2>5. /\ thread' \in [Threads -> Goroutines] /\ thread'["poll"].pc = "catch-up"
        /\ thread'["poll"].then = "idle"
        /\ \A u \in Threads \ {"poll"} : thread'[u] = thread[u]
    BY <1>0, <2>4, GoesOn
  <2> QED
    BY <1>0, <1>1, <1>2, <2>1, <2>3, <2>5 DEF SetTimeSynced, pollForTimeSync, TypeOK
<1>3. CASE /\ sched.synced /\ UNCHANGED <<sched, thread>>
           /\ history' = [history EXCEPT !.stuck = @ \/ sched.pending # NoTarget]
  <2>1. /\ history' \in Histories /\ history'.sent = history.sent
        /\ history'.woken = history.woken /\ history'.overtaken = history.overtaken
    BY <1>3 DEF TypeOK, Histories
  <2> QED
    BY <1>0, <1>1, <1>3, <2>1 DEF pollForTimeSync, TypeOK
<1> QED
  BY <1>2, <1>3 DEF pollForTimeSync, Reaccepted

\* A slew that makes the clock right again moves nothing else.
LEMMA SlewEffects ==
    ASSUME TypeOK, WallSlews
    PROVE  /\ clock' \in Clocks /\ clock'.wall = clock.wall
           /\ history' \in Histories /\ history'.sent = history.sent
           /\ history'.woken = history.woken
           /\ history'.overtaken = history.overtaken
           /\ sched' = sched /\ thread' = thread /\ marker' = marker /\ left' = left
<1>1. clock' \in Clocks /\ clock'.wall = clock.wall
  BY DEF WallSlews, TypeOK, Clocks
<1>2. history' = [history EXCEPT !.stuck = @ \/ sched.pending # NoTarget]
  BY DEF WallSlews, Reaccepted
<1>3. /\ history' \in Histories /\ history'.sent = history.sent
      /\ history'.woken = history.woken /\ history'.overtaken = history.overtaken
  BY <1>2 DEF TypeOK, Histories
<1> QED
  BY <1>1, <1>3 DEF WallSlews, Reaccepted

\* The monitor of clock jumps rebuilds the entry and keeps or drops the target.
LEMMA JumpEffects ==
    ASSUME TypeOK, OccurrenceInv, checkClockJump
    PROVE  /\ thread["monitor"].pc = "idle"
           /\ sched' \in Schedulers /\ thread' \in [Threads -> Goroutines]
           /\ sched'.pending \in {sched.pending, NoTarget}
           /\ sched'.handled = sched.handled
           /\ sched'.cooling = sched.cooling /\ sched'.suppressed = sched.suppressed
           /\ sched'.entry \in {0, Latest(clock.wall) + 1}
           /\ sched'.synced = sched.synced
           /\ clock' \in Clocks /\ clock'.wall = clock.wall
           /\ thread'["monitor"].pc \in {"catch-up", "idle"}
           /\ thread'["monitor"].then = "idle"
           /\ \A u \in Threads \ {"monitor"} : thread'[u] = thread[u]
           /\ history' = history /\ marker' = marker /\ left' = left
<1> DEFINE pc == IF clock.jump = "forward" THEN "catch-up" ELSE "idle"
<1>0. /\ thread["monitor"].pc = "idle" /\ "monitor" \in Threads
      /\ pc \in Steps /\ pc \in {"catch-up", "idle"}
  BY DEF checkClockJump, Enters, Threads, Steps
<1>1. clock' \in Clocks /\ clock'.wall = clock.wall /\ clock.wall \in Phases
  BY DEF checkClockJump, TypeOK, Clocks
<1>2. PICK past \in Past :
         sched' = Rebuilt([sched EXCEPT !.pending = IF past THEN NoTarget ELSE @],
                          clock.wall)
  BY DEF checkClockJump
<1> DEFINE p == IF past THEN NoTarget ELSE sched.pending
           s == [sched EXCEPT !.pending = p]
<1>3. /\ p \in {sched.pending, NoTarget}
      /\ p \in [occurrence : 0 .. MaxOccurrences,
                basis : {"none", "mono", "wall", "adrift", "late"}]
  BY TargetsTyped DEF TypeOK, Schedulers
<1>4. sched' = Rebuilt(s, clock.wall)
  BY <1>2
<1> HIDE DEF p, pc
<1>5. /\ s \in Schedulers /\ s.pending = p /\ s.handled = sched.handled
      /\ s.cooling = sched.cooling /\ s.suppressed = sched.suppressed
      /\ s.synced = sched.synced
  BY <1>3 DEF TypeOK, Schedulers
<1> HIDE DEF s
<1>6. /\ sched' \in Schedulers /\ sched'.entry \in {0, Latest(clock.wall) + 1}
      /\ sched'.pending = s.pending /\ sched'.handled = s.handled
      /\ sched'.cooling = s.cooling /\ sched'.suppressed = s.suppressed
      /\ sched'.synced = s.synced
  BY <1>1, <1>4, <1>5, RebuiltTyped, Zenon
<1>7. Move("monitor", At(pc))
  BY DEF checkClockJump, pc
<1>8. /\ thread' \in [Threads -> Goroutines] /\ thread'["monitor"].pc = pc
      /\ thread'["monitor"].then = "idle"
      /\ \A u \in Threads \ {"monitor"} : thread'[u] = thread[u]
  BY <1>0, <1>7, GoesOn
<1> QED
  BY <1>0, <1>1, <1>3, <1>5, <1>6, <1>8 DEF checkClockJump

\* A change of a setting changes what hibernates in the entry only.
LEMMA SettingsEffects ==
    ASSUME TypeOK, SetEnabled \/ SetCron \/ SetDuration
    PROVE  /\ sched' \in Schedulers
           /\ sched'.pending = sched.pending /\ sched'.handled = sched.handled
           /\ sched'.cooling = sched.cooling /\ sched'.suppressed = sched.suppressed
           /\ sched'.entry \in {sched.entry, 0, Latest(clock.wall) + 1}
           /\ sched'.synced = sched.synced
           /\ history' \in Histories /\ history'.sent = history.sent
           /\ history'.woken = history.woken
           /\ history'.overtaken = history.overtaken
           /\ thread' = thread /\ clock' = clock /\ marker' = marker
           /\ left' \in [settings : 0 .. MaxSettings, steps : 0 .. MaxSteps,
                         restarts : 0 .. MaxRestarts]
<1>0. clock.wall \in Phases
  BY DEF TypeOK, Clocks
<1>1. left' \in [settings : 0 .. MaxSettings, steps : 0 .. MaxSteps,
                 restarts : 0 .. MaxRestarts]
  <2>1. left.settings > 0 /\ left' = [left EXCEPT !.settings = @ - 1]
    BY DEF SetEnabled, SetCron, SetDuration, Changes
  <2> QED
    BY <2>1, ScheduleAssumption DEF TypeOK
<1>2. /\ history' \in Histories /\ history'.sent = history.sent
      /\ history'.woken = history.woken /\ history'.overtaken = history.overtaken
  BY DEF SetEnabled, SetCron, SetDuration, TypeOK, Histories
<1>3. ASSUME NEW setting \in {"enabled", "cron"}, Changes(setting)
      PROVE  /\ sched' \in Schedulers
             /\ sched'.pending = sched.pending /\ sched'.handled = sched.handled
             /\ sched'.cooling = sched.cooling /\ sched'.suppressed = sched.suppressed
             /\ sched'.entry \in {0, Latest(clock.wall) + 1}
             /\ sched'.synced = sched.synced
  <2> DEFINE s == [sched EXCEPT ![setting] = ~@]
  <2>1. /\ s \in Schedulers /\ s.pending = sched.pending
        /\ s.handled = sched.handled /\ s.cooling = sched.cooling
        /\ s.suppressed = sched.suppressed /\ s.synced = sched.synced
    BY <1>3 DEF TypeOK, Schedulers
  <2>2. sched' = Rebuilt(s, clock.wall)
    BY <1>3 DEF Changes
  <2> HIDE DEF s
  <2>3. /\ sched' \in Schedulers /\ sched'.entry \in {0, Latest(clock.wall) + 1}
        /\ sched'.pending = s.pending /\ sched'.handled = s.handled
        /\ sched'.cooling = s.cooling /\ sched'.suppressed = s.suppressed
        /\ sched'.synced = s.synced
    BY <1>0, <2>1, <2>2, RebuiltTyped, Zenon
  <2> QED
    BY <2>1, <2>3
<1>4. ASSUME SetDuration
      PROVE  /\ sched' \in Schedulers
             /\ sched'.pending = sched.pending /\ sched'.handled = sched.handled
             /\ sched'.cooling = sched.cooling /\ sched'.suppressed = sched.suppressed
             /\ sched'.entry = sched.entry /\ sched'.synced = sched.synced
  BY <1>4 DEF SetDuration, TypeOK, Schedulers
<1>5. CASE SetEnabled \/ SetCron
  <2>1. PICK setting \in {"enabled", "cron"} : Changes(setting)
    BY <1>5 DEF SetEnabled, SetCron
  <2> QED
    BY <1>1, <1>2, <1>3, <2>1 DEF Changes
<1>6. CASE SetDuration
  BY <1>1, <1>2, <1>4, <1>6 DEF SetDuration
<1> QED
  BY <1>5, <1>6

\* A step of the wall clock sets targets adrift; a step back is none under a fire,
\* and gives up what lies ahead.
LEMMA WallEffects ==
    ASSUME TypeOK, NEW phase \in Phases, WallSteps(phase)
    PROVE  /\ thread["cron"].pc # "fire" \/ phase >= clock.wall
           /\ sched' \in Schedulers
           /\ sched'.pending = Adrift(sched.pending) /\ sched'.handled = sched.handled
           /\ sched'.cooling = sched.cooling /\ sched'.suppressed = sched.suppressed
           /\ sched'.entry = sched.entry /\ sched'.synced = sched.synced
           /\ clock' \in Clocks /\ clock'.wall = phase
           /\ history' \in Histories /\ history'.sent = history.sent
           /\ history'.woken = history.woken
           /\ history.overtaken \subseteq history'.overtaken
           /\ \/ phase >= clock.wall
              \/ \A k \in Occurrences : k > Latest(phase) => k \in history'.overtaken
           /\ thread' = thread /\ marker' = marker
           /\ left' \in [settings : 0 .. MaxSettings, steps : 0 .. MaxSteps,
                         restarts : 0 .. MaxRestarts]
<1>1. left' \in [settings : 0 .. MaxSettings, steps : 0 .. MaxSteps,
                 restarts : 0 .. MaxRestarts]
  <2>1. left.steps > 0 /\ left' = [left EXCEPT !.steps = @ - 1]
    BY DEF WallSteps
  <2> QED
    BY <2>1, ScheduleAssumption DEF TypeOK
<1>2. /\ sched' \in Schedulers
      /\ sched'.pending = Adrift(sched.pending) /\ sched'.handled = sched.handled
      /\ sched'.cooling = sched.cooling /\ sched'.suppressed = sched.suppressed
      /\ sched'.entry = sched.entry /\ sched'.synced = sched.synced
  <2>1. Adrift(sched.pending) \in [occurrence : 0 .. MaxOccurrences,
                                   basis : {"none", "mono", "wall", "adrift", "late"}]
    BY TargetsTyped DEF TypeOK, Schedulers
  <2>2. sched' = [sched EXCEPT !.pending = Adrift(sched.pending)]
    BY DEF WallSteps
  <2> QED
    BY <2>1, <2>2 DEF TypeOK, Schedulers
<1>3. CASE /\ phase >= clock.wall /\ UNCHANGED history
           /\ \E valid \in {TRUE, clock.valid} :
                 clock' = [wall |-> phase, jump |-> "forward", valid |-> valid,
                           stepped |-> TRUE]
  <2>0. PICK valid \in BOOLEAN :
           clock' = [wall |-> phase, jump |-> "forward", valid |-> valid,
                     stepped |-> TRUE]
    <3>1. clock.valid \in BOOLEAN
      BY DEF TypeOK, Clocks
    <3> QED
      BY <1>3, <3>1, Zenon
  <2>1. clock' \in Clocks /\ clock'.wall = phase
    BY <2>0 DEF Clocks
  <2>2. /\ history' \in Histories /\ history'.sent = history.sent
        /\ history'.woken = history.woken
        /\ history.overtaken \subseteq history'.overtaken
    BY <1>3 DEF TypeOK
  <2> QED
    BY <1>1, <1>2, <1>3, <2>1, <2>2 DEF WallSteps, Enters
<1>4. CASE /\ ~Enters("cron", "fire")
           /\ clock' = [wall |-> phase, jump |-> "backward", valid |-> FALSE,
                        stepped |-> TRUE]
           /\ history' = [history EXCEPT
                             !.overtaken = @ \cup {k \in Occurrences : k > Latest(phase)}]
  <2>1. clock' \in Clocks /\ clock'.wall = phase
    BY <1>4 DEF Clocks
  <2> DEFINE ahead == {k \in Occurrences : k > Latest(phase)}
  <2>2. ahead \subseteq Occurrences
    OBVIOUS
  <2>3. \A k \in Occurrences : k > Latest(phase) => k \in ahead
    OBVIOUS
  <2>4. history' = [history EXCEPT !.overtaken = @ \cup ahead]
    BY <1>4
  <2> HIDE DEF ahead
  <2>5. /\ history' \in Histories /\ history'.sent = history.sent
        /\ history'.woken = history.woken
        /\ history'.overtaken = history.overtaken \cup ahead
    BY <2>2, <2>4 DEF TypeOK, Histories
  <2> QED
    BY <1>1, <1>2, <1>4, <2>1, <2>3, <2>5 DEF WallSteps, Enters
<1> QED
  BY <1>3, <1>4 DEF WallSteps

\* The goroutines of a process that has just been started are idle.
LEMMA IdleTyped ==
    /\ AllIdle \in [Threads -> Goroutines]
    /\ \A t \in Threads : AllIdle[t].pc = "idle" /\ AllIdle[t].then = "idle"
<1>1. At("idle") \in Goroutines /\ At("idle").pc = "idle" /\ At("idle").then = "idle"
  BY AtTyped DEF Steps
<1> QED
  BY <1>1 DEF AllIdle

\* A restart forgets everything but the marker.
LEMMA StartsEffects ==
    ASSUME TypeOK, NEW phase \in Phases, NEW hibernated \in BOOLEAN,
           NEW removed \in BOOLEAN, Starts(phase, hibernated, removed)
    PROVE  /\ TypeOK'
           /\ sched'.pending = NoTarget /\ sched'.handled = 0 /\ ~sched'.synced
           /\ sched'.suppressed <=> marker = "present" /\ removed
           /\ \A t \in Threads : thread'[t].pc = "idle" /\ thread'[t].then = "idle"
           /\ history'.sent = {}
           /\ history'.woken => hibernated /\ removed /\ marker # "lost"
<1> DEFINE suppressed == marker = "present" /\ removed
           woken == hibernated /\ removed /\ marker # "lost"
<1>1. /\ suppressed \in BOOLEAN /\ woken \in BOOLEAN
      /\ sched.enabled \in BOOLEAN /\ sched.cron \in BOOLEAN
      /\ sched.duration \in BOOLEAN /\ sched.standby \in BOOLEAN
  BY DEF TypeOK, Schedulers
<1>2. sched' = Fresh(sched.enabled, sched.cron, sched.duration, sched.standby,
                     suppressed, phase)
  BY DEF Starts
<1>3. history' = FreshHistory(woken)
  BY DEF Starts
<1>4. /\ sched' \in Schedulers /\ sched'.pending = NoTarget /\ sched'.handled = 0
      /\ sched'.synced = FALSE /\ sched'.suppressed = suppressed
  <2> HIDE DEF suppressed
  <2> DEFINE r == [enabled |-> sched.enabled, cron |-> sched.cron,
                   duration |-> sched.duration, synced |-> FALSE,
                   standby |-> sched.standby, pending |-> NoTarget,
                   handled |-> 0, cooling |-> FALSE, suppressed |-> suppressed,
                   entry |-> 0, started |-> Latest(phase)]
  <2>1. Latest(phase) \in 0 .. MaxOccurrences /\ 0 \in 0 .. MaxOccurrences
        /\ 0 \in 0 .. MaxOccurrences + 1
    BY LatestTyped, ScheduleAssumption
  <2>2. NoTarget \in [occurrence : 0 .. MaxOccurrences,
                      basis : {"none", "mono", "wall", "adrift", "late"}]
    BY TargetsTyped
  <2>3. /\ r \in Schedulers /\ r.pending = NoTarget /\ r.handled = 0
        /\ r.synced = FALSE /\ r.suppressed = suppressed
    BY <1>1, <2>1, <2>2 DEF Schedulers
  <2>4. sched' = Rebuilt(r, phase)
    BY <1>2 DEF Fresh
  <2> HIDE DEF r
  <2>5. /\ sched' \in Schedulers /\ sched'.pending = r.pending
        /\ sched'.handled = r.handled /\ sched'.synced = r.synced
        /\ sched'.suppressed = r.suppressed
    BY <2>3, <2>4, RebuiltTyped, Zenon
  <2> QED
    BY <2>3, <2>5
<1>5. history' \in Histories /\ history'.sent = {} /\ history'.woken = woken
  <2>1. {} \in SUBSET Occurrences
    OBVIOUS
  <2> HIDE DEF woken
  <2>2. history'.sent = {} /\ history'.woken = woken
    BY <1>3 DEF FreshHistory
  <2>3. history' = [woken |-> woken, sent |-> {}, overtaken |-> {}, stuck |-> FALSE]
    BY <1>3 DEF FreshHistory
  <2>4. history' \in Histories
    BY <1>1, <2>1, <2>3, Zenon DEF Histories
  <2> QED
    BY <2>2, <2>4
<1>6. /\ thread' \in [Threads -> Goroutines]
      /\ \A t \in Threads : thread'[t].pc = "idle" /\ thread'[t].then = "idle"
  BY IdleTyped DEF Starts
<1>7. clock' \in Clocks
  BY DEF Starts, FreshClock, Clocks
<1>8. marker' \in {"absent", "present", "lost"}
  BY DEF Starts, TypeOK
<1>9. left' \in [settings : 0 .. MaxSettings, steps : 0 .. MaxSteps,
                 restarts : 0 .. MaxRestarts]
  <2>1. left.restarts > 0 /\ left' = [left EXCEPT !.restarts = @ - 1]
    BY DEF Starts
  <2> QED
    BY <2>1, ScheduleAssumption DEF TypeOK
<1>10. TypeOK'
  BY <1>4, <1>5, <1>6, <1>7, <1>8, <1>9 DEF TypeOK
<1> QED
  BY <1>4, <1>5, <1>6, <1>10

\* The time steps: the clock, and the ends of the cooldowns, when all is quiet.
LEMMA TimeEffects ==
    ASSUME TypeOK, TimePasses \/ CooldownEnds \/ StartupCooldownEnds \/ ClockFallsBehind
    PROVE  /\ sched' \in Schedulers
           /\ sched'.pending = sched.pending /\ sched'.handled = sched.handled
           /\ sched'.entry = sched.entry /\ sched'.synced = sched.synced
           /\ sched'.suppressed => sched.suppressed
           /\ history'.woken => /\ sched'.suppressed = sched.suppressed
                                /\ history' = history
           /\ clock' \in Clocks /\ clock'.wall >= clock.wall
           /\ history' \in Histories /\ history'.sent = history.sent
           /\ history'.overtaken = history.overtaken
           /\ thread' = thread /\ marker' = marker /\ left' = left
           /\ \A t \in Threads : thread[t].pc = "idle"
           /\ sched.entry = 0 \/ sched.entry > Latest(clock.wall)
<1>0. Latest(clock.wall) \in 0 .. MaxOccurrences /\ sched.entry \in 0 .. MaxOccurrences + 1
  BY LatestTyped DEF TypeOK, Clocks, Schedulers
<1>1. /\ \A t \in Threads : thread[t].pc = "idle"
      /\ sched.entry = 0 \/ sched.entry > Latest(clock.wall)
  <2>1. Quiet
    BY DEF TimePasses, CooldownEnds, StartupCooldownEnds, ClockFallsBehind
  <2> QED
    BY <1>0, <2>1 DEF Quiet, Enters, CronDue
<1>2. CASE TimePasses
  <2>1. clock' \in Clocks /\ clock'.wall >= clock.wall
    <3>1. clock.wall + 1 \in Phases /\ clock.wall + 1 >= clock.wall
      BY <1>2, ScheduleAssumption DEF TimePasses, TypeOK, Clocks, Phases
    <3>2. clock' = [clock EXCEPT !.wall = clock.wall + 1, !.stepped = FALSE]
      BY <1>2 DEF TimePasses
    <3> QED
      BY <3>1, <3>2 DEF TypeOK, Clocks
  <2> QED
    BY <1>1, <1>2, <2>1 DEF TimePasses, TypeOK
<1>3. clock.wall >= clock.wall
  BY ScheduleAssumption DEF TypeOK, Clocks, Phases
<1>4. CASE CooldownEnds
  <2>1. /\ sched' \in Schedulers
        /\ sched'.pending = sched.pending /\ sched'.handled = sched.handled
        /\ sched'.entry = sched.entry /\ sched'.synced = sched.synced
        /\ sched'.suppressed = sched.suppressed
    BY <1>4 DEF CooldownEnds, TypeOK, Schedulers
  <2> QED
    BY <1>1, <1>3, <1>4, <2>1 DEF CooldownEnds, TypeOK
<1>5. CASE StartupCooldownEnds
  <2>1. /\ sched' \in Schedulers
        /\ sched'.pending = sched.pending /\ sched'.handled = sched.handled
        /\ sched'.entry = sched.entry /\ sched'.synced = sched.synced
        /\ ~sched'.suppressed
    BY <1>5 DEF StartupCooldownEnds, TypeOK, Schedulers
  <2>2. /\ history' \in Histories /\ history'.sent = history.sent
        /\ history'.overtaken = history.overtaken /\ ~history'.woken
    BY <1>5 DEF StartupCooldownEnds, TypeOK, Histories
  <2> QED
    BY <1>1, <1>3, <1>5, <2>1, <2>2 DEF StartupCooldownEnds, TypeOK
<1>6. CASE ClockFallsBehind
  <2>1. clock' \in Clocks /\ clock'.wall = clock.wall
    BY <1>6 DEF ClockFallsBehind, TypeOK, Clocks
  <2> QED
    BY <1>1, <1>3, <1>6, <2>1 DEF ClockFallsBehind, TypeOK
<1> QED
  BY <1>2, <1>4, <1>5, <1>6

-----------------------------------------------------------------------------
(* The types, and the occurrences that are acted for.                      *)

\* The initial states have their types, and nothing is under way.
LEMMA InitTyped ==
    ASSUME Init
    PROVE  /\ TypeOK /\ sched.pending = NoTarget /\ sched.handled = 0 /\ ~sched.suppressed
           /\ \A t \in Threads : thread[t].pc = "idle" /\ thread[t].then = "idle"
           /\ history.sent = {} /\ ~history.woken
<1>1. PICK enabled \in BOOLEAN, standby \in BOOLEAN :
         sched = Fresh(enabled, TRUE, TRUE, standby, FALSE, 0)
  BY DEF Init
<1>2. /\ sched \in Schedulers /\ sched.pending = NoTarget /\ sched.handled = 0
      /\ sched.suppressed = FALSE
  <2> DEFINE r == [enabled |-> enabled, cron |-> TRUE, duration |-> TRUE,
                   synced |-> FALSE, standby |-> standby, pending |-> NoTarget,
                   handled |-> 0, cooling |-> FALSE, suppressed |-> FALSE,
                   entry |-> 0, started |-> Latest(0)]
  <2>1. 0 \in Phases /\ 0 \in 0 .. MaxOccurrences /\ 0 \in 0 .. MaxOccurrences + 1
    BY ScheduleAssumption DEF Phases
  <2>2. Latest(0) \in 0 .. MaxOccurrences
    BY <2>1, LatestTyped
  <2>3. NoTarget \in [occurrence : 0 .. MaxOccurrences,
                      basis : {"none", "mono", "wall", "adrift", "late"}]
    BY TargetsTyped
  <2>4. /\ r \in Schedulers /\ r.pending = NoTarget /\ r.handled = 0
        /\ r.suppressed = FALSE
    BY <2>1, <2>2, <2>3 DEF Schedulers
  <2>5. sched = Rebuilt(r, 0)
    BY <1>1 DEF Fresh
  <2> HIDE DEF r
  <2>6. /\ sched \in Schedulers /\ sched.pending = r.pending
        /\ sched.handled = r.handled /\ sched.suppressed = r.suppressed
    BY <2>1, <2>4, <2>5, RebuiltTyped, Zenon
  <2> QED
    BY <2>4, <2>6
<1>3. /\ thread \in [Threads -> Goroutines]
      /\ \A t \in Threads : thread[t].pc = "idle" /\ thread[t].then = "idle"
  BY IdleTyped DEF Init
<1>4. clock \in Clocks
  BY ScheduleAssumption DEF Init, FreshClock, Clocks, Phases
<1>5. history \in Histories /\ history.sent = {} /\ ~history.woken
  BY DEF Init, FreshHistory, Histories
<1>6. left \in [settings : 0 .. MaxSettings, steps : 0 .. MaxSteps,
                restarts : 0 .. MaxRestarts]
  BY ScheduleAssumption DEF Init
<1>7. marker \in {"absent", "present", "lost"}
  BY DEF Init
<1> QED
  BY <1>2, <1>3, <1>4, <1>5, <1>6, <1>7 DEF TypeOK

\* A step of the specification is a step of one of the actions.
LEMMA StepCases ==
    ASSUME TypeOK, Next
    PROVE  \/ \E t \in Threads, written \in BOOLEAN : Send(t, written)
           \/ \E t \in Threads : CatchUpReads(t)
           \/ \E t \in Threads : CatchUpActs(t)
           \/ fire \/ dispatchPending
           \/ \E standby \in BOOLEAN : OnVehicleStateChanged(standby)
           \/ CronFires \/ pollForTimeSync \/ checkClockJump
           \/ SetEnabled \/ SetCron \/ SetDuration
           \/ TimePasses \/ CooldownEnds \/ StartupCooldownEnds \/ ClockFallsBehind
           \/ WallSlews \/ \E phase \in Phases : WallSteps(phase)
           \/ \E phase \in Phases, hibernated \in BOOLEAN, removed \in BOOLEAN :
                 /\ Starts(phase, hibernated, removed)
                 /\ hibernated => history.sent # {}
<1>1. clock.wall \in Phases
  BY DEF TypeOK, Clocks
<1>2. ASSUME NEW removed \in BOOLEAN, Restarts(removed)
      PROVE  \E phase \in Phases, hibernated \in BOOLEAN, r \in BOOLEAN :
                 Starts(phase, hibernated, r) /\ (hibernated => history.sent # {})
  BY <1>1, <1>2 DEF Restarts
<1>3. ASSUME NEW phase \in Phases, NEW removed \in BOOLEAN, Hibernates(phase, removed)
      PROVE  \E p \in Phases, hibernated \in BOOLEAN, r \in BOOLEAN :
                 Starts(p, hibernated, r) /\ (hibernated => history.sent # {})
  BY <1>3 DEF Hibernates
<1> QED
  BY <1>2, <1>3, Zenon DEF Next, Proceeds

\* Occurrences are kept by a step that moves one goroutine for an occurrence.
LEMMA OccurrenceKept ==
    ASSUME OccurrenceInv, NEW t \in Threads,
           \A u \in Threads \ {t} : thread'[u] = thread[u],
           thread'[t].then \in {"idle", "dispatch"},
           thread'[t].pc \in {"send", "act"} => thread'[t].occurrence \in Occurrences,
           sched'.pending # NoTarget => sched'.pending.occurrence \in Occurrences,
           thread'["cron"].pc = "fire" => Latest(clock'.wall) \in Occurrences
    PROVE  OccurrenceInv'
<1>1. ASSUME NEW u \in Threads
      PROVE  /\ thread'[u].pc \in {"send", "act"} => thread'[u].occurrence \in Occurrences
             /\ thread'[u].then \in {"idle", "dispatch"}
  BY u = t \/ u \in Threads \ {t} DEF OccurrenceInv
<1> QED
  BY <1>1 DEF OccurrenceInv

\* Types and occurrences are kept by every step.
LEMMA OccurrenceStep ==
    ASSUME TypeOK, OccurrenceInv, [Next]_vars
    PROVE  TypeOK' /\ OccurrenceInv'
<1>0. \A t \in Threads : thread[t].pc \in {"send", "act"} =>
         thread[t].occurrence \in Occurrences
  BY DEF OccurrenceInv
<1>1. ASSUME NEW t \in Threads, NEW written \in BOOLEAN, Send(t, written)
      PROVE  TypeOK' /\ OccurrenceInv'
  <2>1. TypeOK'
    BY <1>1, SendEffects DEF TypeOK
  <2>2. /\ \A u \in Threads \ {t} : thread'[u] = thread[u]
        /\ thread'[t].then \in {"idle", "dispatch"}
        /\ thread'[t].pc \in {"send", "act"} => thread'[t].occurrence \in Occurrences
    BY <1>1, SendEffects DEF OccurrenceInv
  <2>3. sched'.pending # NoTarget => sched'.pending.occurrence \in Occurrences
    BY <1>1, SendEffects DEF OccurrenceInv
  <2>4. thread'["cron"].pc = "fire" => Latest(clock'.wall) \in Occurrences
    BY <1>1, SendEffects DEF OccurrenceInv, Threads
  <2>5. OccurrenceInv'
    BY <2>2, <2>3, <2>4, OccurrenceKept
  <2> QED
    BY <2>1, <2>5
<1>2. ASSUME NEW t \in Threads, CatchUpReads(t)
      PROVE  TypeOK' /\ OccurrenceInv'
  <2>1. TypeOK'
    BY <1>2, ReadsEffects DEF TypeOK
  <2>2. /\ \A u \in Threads \ {t} : thread'[u] = thread[u]
        /\ thread'[t].then \in {"idle", "dispatch"}
        /\ thread'[t].pc \in {"send", "act"} => thread'[t].occurrence \in Occurrences
    BY <1>2, ReadsEffects DEF OccurrenceInv
  <2>3. sched'.pending # NoTarget => sched'.pending.occurrence \in Occurrences
    BY <1>2, ReadsEffects DEF OccurrenceInv
  <2>4. thread'["cron"].pc = "fire" => Latest(clock'.wall) \in Occurrences
    BY <1>2, ReadsEffects DEF OccurrenceInv, Threads
  <2>5. OccurrenceInv'
    BY <2>2, <2>3, <2>4, OccurrenceKept
  <2> QED
    BY <2>1, <2>5
<1>3. ASSUME NEW t \in Threads, CatchUpActs(t)
      PROVE  TypeOK' /\ OccurrenceInv'
  <2>1. TypeOK'
    BY <1>3, ActsEffects DEF TypeOK
  <2>2. /\ \A u \in Threads \ {t} : thread'[u] = thread[u]
        /\ thread'[t].then \in {"idle", "dispatch"}
        /\ thread'[t].pc \in {"send", "act"} => thread'[t].occurrence \in Occurrences
    BY <1>3, ActsEffects DEF OccurrenceInv, CatchUpSends, CatchUpDefers
  <2>3. sched'.pending # NoTarget => sched'.pending.occurrence \in Occurrences
    BY <1>3, ActsEffects DEF OccurrenceInv, CatchUpSends, CatchUpDefers
  <2>4. thread'["cron"].pc = "fire" => Latest(clock'.wall) \in Occurrences
    BY <1>3, ActsEffects DEF OccurrenceInv, CatchUpSends, CatchUpDefers, Threads
  <2>5. OccurrenceInv'
    BY <2>2, <2>3, <2>4, OccurrenceKept
  <2> QED
    BY <2>1, <2>5
<1>4. CASE fire
  <2>1. history' \in Histories
    <3>1. CASE FireUses
      <4>1. "cron" \in Threads
        BY DEF Threads
      <4> QED
        BY <3>1, <4>1, Overtakes DEF FireUses
    <3> QED
      BY <1>4, <3>1, FireEffects DEF TypeOK
  <2>2. TypeOK'
    BY <1>4, <2>1, FireEffects DEF TypeOK
  <2>3. OccurrenceInv'
    BY <1>4, FireEffects DEF OccurrenceInv, FireUses
  <2> QED
    BY <2>2, <2>3
<1>5. CASE dispatchPending
  <2>1. TypeOK'
    BY <1>5, DispatchEffects DEF TypeOK
  <2>2. /\ \A u \in Threads \ {"monitor"} : thread'[u] = thread[u]
        /\ thread'["monitor"].then \in {"idle", "dispatch"}
        /\ thread'["monitor"].pc \in {"send", "act"} => thread'["monitor"].occurrence \in Occurrences
    BY <1>5, DispatchEffects DEF OccurrenceInv, TakesPending, Takes
  <2>3. sched'.pending # NoTarget => sched'.pending.occurrence \in Occurrences
    BY <1>5, DispatchEffects DEF OccurrenceInv, TakesPending, Takes
  <2>4. thread'["cron"].pc = "fire" => Latest(clock'.wall) \in Occurrences
    BY <1>5, DispatchEffects DEF OccurrenceInv, TakesPending, Takes, Threads
  <2>5. OccurrenceInv'
    BY <2>2, <2>3, <2>4, OccurrenceKept DEF Threads
  <2> QED
    BY <2>1, <2>5
<1>6. ASSUME NEW standby \in BOOLEAN, OnVehicleStateChanged(standby)
      PROVE  TypeOK' /\ OccurrenceInv'
  <2>1. TypeOK'
    BY <1>6, VehicleEffects DEF TypeOK
  <2>2. sched'.pending # NoTarget => sched'.pending.occurrence \in Occurrences
    BY <1>6, VehicleEffects DEF OccurrenceInv, TakesPending
  <2>3. \A u \in Threads \ {"vehicle"} : thread'[u] = thread[u]
    BY <1>6, VehicleEffects
  <2>4. /\ thread'["vehicle"].then \in {"idle", "dispatch"}
        /\ thread'["vehicle"].pc \in {"send", "act"} =>
              thread'["vehicle"].occurrence \in Occurrences
    BY <1>6, VehicleEffects DEF OccurrenceInv, TakesPending, Takes, Threads
  <2>5. thread'["cron"].pc = "fire" => Latest(clock'.wall) \in Occurrences
    BY <1>6, <2>3, VehicleEffects DEF OccurrenceInv, Threads
  <2>6. OccurrenceInv'
    BY <2>2, <2>3, <2>4, <2>5, OccurrenceKept DEF Threads
  <2> QED
    BY <2>1, <2>6
<1>7. CASE CronFires
  <2>1. TypeOK'
    BY <1>7, CronEffects DEF TypeOK
  <2>2. /\ \A u \in Threads \ {"cron"} : thread'[u] = thread[u]
        /\ thread'["cron"].then \in {"idle", "dispatch"}
        /\ thread'["cron"].pc \in {"send", "act"} => thread'["cron"].occurrence \in Occurrences
    BY <1>7, CronEffects DEF OccurrenceInv
  <2>3. sched'.pending # NoTarget => sched'.pending.occurrence \in Occurrences
    BY <1>7, CronEffects DEF OccurrenceInv
  <2>4. thread'["cron"].pc = "fire" => Latest(clock'.wall) \in Occurrences
    BY <1>7, CronEffects DEF OccurrenceInv, Threads
  <2>5. OccurrenceInv'
    BY <2>2, <2>3, <2>4, OccurrenceKept DEF Threads
  <2> QED
    BY <2>1, <2>5
<1>8. CASE pollForTimeSync
  <2>1. TypeOK'
    BY <1>8, PollEffects DEF TypeOK
  <2>2. /\ sched'.pending # NoTarget => sched'.pending.occurrence \in Occurrences
        /\ \A u \in Threads \ {"poll"} : thread'[u] = thread[u]
    BY <1>8, PollEffects DEF OccurrenceInv
  <2>3. /\ thread'["poll"].then \in {"idle", "dispatch"}
        /\ thread'["poll"].pc \in {"idle", "catch-up"}
    BY <1>8, PollEffects DEF OccurrenceInv, Threads
  <2>4. thread'["cron"].pc = "fire" => Latest(clock'.wall) \in Occurrences
    BY <1>8, <2>2, PollEffects DEF OccurrenceInv, Threads
  <2>5. OccurrenceInv'
    BY <2>2, <2>3, <2>4, OccurrenceKept DEF Threads
  <2> QED
    BY <2>1, <2>5
<1>9. CASE checkClockJump
  <2>1. TypeOK'
    BY <1>9, JumpEffects DEF TypeOK
  <2>2. /\ \A u \in Threads \ {"monitor"} : thread'[u] = thread[u]
        /\ thread'["monitor"].then \in {"idle", "dispatch"}
        /\ thread'["monitor"].pc \in {"send", "act"} => thread'["monitor"].occurrence \in Occurrences
    BY <1>9, JumpEffects DEF OccurrenceInv
  <2>3. sched'.pending # NoTarget => sched'.pending.occurrence \in Occurrences
    BY <1>9, JumpEffects DEF OccurrenceInv
  <2>4. thread'["cron"].pc = "fire" => Latest(clock'.wall) \in Occurrences
    BY <1>9, JumpEffects DEF OccurrenceInv, Threads
  <2>5. OccurrenceInv'
    BY <2>2, <2>3, <2>4, OccurrenceKept DEF Threads
  <2> QED
    BY <2>1, <2>5
<1>10. CASE SetEnabled \/ SetCron \/ SetDuration
  <2>1. TypeOK'
    BY <1>10, SettingsEffects DEF TypeOK
  <2>2. OccurrenceInv'
    BY <1>10, SettingsEffects DEF OccurrenceInv
  <2> QED
    BY <2>1, <2>2
<1>11. CASE TimePasses \/ CooldownEnds \/ StartupCooldownEnds \/ ClockFallsBehind
  <2>1. TypeOK'
    BY <1>11, TimeEffects DEF TypeOK
  <2>2. OccurrenceInv'
    BY <1>11, TimeEffects DEF OccurrenceInv, Threads
  <2> QED
    BY <2>1, <2>2
<1>12. ASSUME NEW phase \in Phases, WallSteps(phase)
       PROVE  TypeOK' /\ OccurrenceInv'
  <2>1. TypeOK'
    BY <1>12, WallEffects DEF TypeOK
  <2>2. sched.pending \in [occurrence : 0 .. MaxOccurrences,
                           basis : {"none", "mono", "wall", "adrift", "late"}]
    BY DEF TypeOK, Schedulers
  <2>3. clock.wall \in Phases /\ Latest(phase) \in 0 .. MaxOccurrences
    BY LatestTyped DEF TypeOK, Clocks
  <2>4. ASSUME thread["cron"].pc = "fire" PROVE Latest(phase) \in Occurrences
    <3>1. phase >= clock.wall /\ Latest(clock.wall) \in Occurrences
      BY <1>12, <2>4, WallEffects DEF OccurrenceInv
    <3>2. Latest(clock.wall) <= Latest(phase)
      BY <2>3, <3>1, LatestTyped, ScheduleAssumption DEF Phases
    <3> QED
      BY <2>3, <3>1, <3>2, ScheduleAssumption DEF Occurrences
  <2>5. /\ thread' = thread /\ clock'.wall = phase
        /\ sched'.pending # NoTarget => sched'.pending.occurrence \in Occurrences
    BY <1>12, <2>2, WallEffects, TargetsTyped DEF OccurrenceInv
  <2>6. OccurrenceInv'
    BY <2>4, <2>5 DEF OccurrenceInv
  <2> QED
    BY <2>1, <2>6
<1>13. ASSUME NEW phase \in Phases, NEW hibernated \in BOOLEAN, NEW removed \in BOOLEAN,
              Starts(phase, hibernated, removed)
       PROVE  TypeOK' /\ OccurrenceInv'
  BY <1>13, StartsEffects DEF OccurrenceInv, Threads
<1>15. CASE WallSlews
  BY <1>15, SlewEffects DEF TypeOK, OccurrenceInv
<1>14. CASE UNCHANGED vars
  BY <1>14 DEF vars, TypeOK, OccurrenceInv
<1> QED
  BY <1>1, <1>2, <1>3, <1>4, <1>5, <1>6, <1>7, <1>8, <1>9, <1>10, <1>11, <1>12,
     <1>13, <1>14, <1>15, StepCases, Zenon

-----------------------------------------------------------------------------
(* The gate and the startup cooldown.                                      *)

\* Calm is kept by a step that moves one goroutine elsewhere and sets no target.
LEMMA CalmKept ==
    ASSUME Calm, NEW t \in Threads, thread'[t].pc \notin {"send", "act"},
           \A u \in Threads \ {t} : thread'[u] = thread[u],
           sched'.pending \in {sched.pending, NoTarget}
    PROVE  Calm'
<1>1. ASSUME NEW u \in Threads
      PROVE  thread'[u].pc \notin {"send", "act"}
  BY u = t \/ u \in Threads \ {t} DEF Calm
<1>2. sched'.pending = NoTarget
  BY DEF Calm
<1> QED
  BY <1>1, <1>2 DEF Calm

\* While the gate is closed or the startup cooldown lasts, nothing is sent,
\* deferred or about to be; the cooldown lasts as long as the board is known to
\* have been woken, because the marker outlives the run that sent.
LEMMA CalmStep ==
    ASSUME TypeOK, OccurrenceInv, CalmInv, [Next]_vars
    PROVE  CalmInv'
<1> DEFINE Closed == ~sched.synced \/ sched.suppressed
<1>0. Closed => Calm
  BY DEF CalmInv
<1>1. ASSUME NEW t \in Threads, NEW written \in BOOLEAN, Send(t, written)
      PROVE  CalmInv'
  <2>1. ~Calm
    BY <1>1, SendEffects DEF Calm
  <2>2. sched' = sched /\ history'.woken = history.woken /\ marker' # "absent"
    BY <1>1, SendEffects
  <2> QED
    BY <1>0, <2>1, <2>2 DEF CalmInv
<1>2. ASSUME NEW t \in Threads, CatchUpReads(t)
      PROVE  CalmInv'
  <2>1. sched' = sched /\ history' = history /\ marker' = marker
    BY <1>2, ReadsEffects
  <2>2. ASSUME Closed PROVE Calm'
    <3>1. /\ thread'[t].pc \notin {"send", "act"}
          /\ \A u \in Threads \ {t} : thread'[u] = thread[u]
      BY <1>2, <2>2, ReadsEffects
    <3> QED
      BY <1>0, <2>1, <2>2, <3>1, CalmKept
  <2> QED
    BY <2>1, <2>2 DEF CalmInv
<1>3. ASSUME NEW t \in Threads, CatchUpActs(t)
      PROVE  CalmInv'
  <2>1. ~Calm
    BY <1>3, ActsEffects DEF Calm
  <2>2. /\ sched'.synced = sched.synced /\ sched'.suppressed = sched.suppressed
        /\ marker' = marker
    BY <1>3, ActsEffects
  <2>3. history'.woken = history.woken /\ history'.sent = history.sent
    <3>1. CASE CatchUpSends(t)
      BY <1>3, <3>1, ActsEffects, Overtakes DEF CatchUpSends
    <3>2. CASE CatchUpDefers(t)
      BY <3>2 DEF CatchUpDefers
    <3> QED
      BY <1>3, <3>1, <3>2, ActsEffects
  <2> QED
    BY <1>0, <2>1, <2>2, <2>3 DEF CalmInv
<1>4. CASE fire
  <2>0. "cron" \in Threads
    BY DEF Threads
  <2>1. /\ sched'.synced = sched.synced /\ sched'.suppressed = sched.suppressed
        /\ marker' = marker /\ \A u \in Threads \ {"cron"} : thread'[u] = thread[u]
    BY <1>4, FireEffects
  <2>2. CASE FireUses
    <3>1. history'.woken = history.woken /\ history'.sent = history.sent
      BY <2>0, <2>2, Overtakes DEF FireUses
    <3> QED
      BY <2>1, <2>2, <3>1 DEF FireUses, CalmInv
  <2>3. CASE thread'["cron"].pc = "idle" /\ sched' = sched /\ history' = history
    <3>1. ASSUME Closed PROVE Calm'
      BY <1>0, <2>0, <2>1, <2>3, <3>1, CalmKept
    <3> QED
      BY <2>1, <2>3, <3>1 DEF CalmInv
  <2> QED
    BY <1>4, <2>2, <2>3, FireEffects
<1>5. CASE dispatchPending
  <2>0. "monitor" \in Threads
    BY DEF Threads
  <2>1. /\ sched'.synced = sched.synced /\ sched'.suppressed = sched.suppressed
        /\ marker' = marker /\ sched'.handled = sched.handled /\ history' = history
        /\ \A u \in Threads \ {"monitor"} : thread'[u] = thread[u]
    BY <1>5, DispatchEffects
  <2>2. CASE TakesPending("monitor")
    BY <1>0, <2>1, <2>2 DEF TakesPending, Calm, CalmInv
  <2>3. CASE thread'["monitor"].pc = "idle" /\ sched' = sched
    <3>1. ASSUME Closed PROVE Calm'
      BY <1>0, <2>0, <2>1, <2>3, <3>1, CalmKept
    <3> QED
      BY <2>1, <2>3, <3>1 DEF CalmInv
  <2> QED
    BY <1>5, <2>2, <2>3, DispatchEffects
<1>6. ASSUME NEW standby \in BOOLEAN, OnVehicleStateChanged(standby)
      PROVE  CalmInv'
  <2>1. /\ sched'.synced = sched.synced /\ sched'.suppressed = sched.suppressed
        /\ marker' = marker /\ sched'.handled = sched.handled /\ history' = history
    BY <1>6, VehicleEffects
  <2>2. CASE TakesPending("vehicle")
    BY <1>0, <2>1, <2>2 DEF TakesPending, Calm, CalmInv
  <2>3. CASE thread' = thread /\ sched'.pending \in {sched.pending, NoTarget}
    <3>1. ASSUME Closed PROVE Calm'
      BY <1>0, <2>3, <3>1 DEF Calm
    <3> QED
      BY <2>1, <2>3, <3>1 DEF CalmInv
  <2> QED
    BY <1>6, <2>2, <2>3, VehicleEffects
<1>7. CASE CronFires
  <2>0. "cron" \in Threads
    BY DEF Threads
  <2>1. /\ sched'.synced = sched.synced /\ sched'.suppressed = sched.suppressed
        /\ sched'.handled = sched.handled /\ sched'.pending = sched.pending
        /\ history' = history /\ marker' = marker
        /\ thread'["cron"].pc \notin {"send", "act"}
        /\ \A u \in Threads \ {"cron"} : thread'[u] = thread[u]
    BY <1>7, CronEffects
  <2>2. ASSUME Closed PROVE Calm'
    BY <1>0, <2>0, <2>1, <2>2, CalmKept
  <2> QED
    BY <2>1, <2>2 DEF CalmInv
<1>8. CASE pollForTimeSync
  <2>0. "poll" \in Threads
    BY DEF Threads
  <2>1. /\ sched'.synced /\ sched'.suppressed = sched.suppressed
        /\ sched'.pending = sched.pending
        /\ history'.woken = history.woken /\ history'.sent = history.sent
        /\ marker' = marker
    BY <1>8, PollEffects
  <2>2. /\ thread'["poll"].pc \notin {"send", "act"}
        /\ \A u \in Threads \ {"poll"} : thread'[u] = thread[u]
    BY <1>8, PollEffects
  <2>3. ASSUME Closed PROVE Calm'
    BY <1>0, <2>0, <2>1, <2>2, <2>3, CalmKept
  <2> QED
    BY <2>1, <2>3 DEF CalmInv
<1>9. CASE checkClockJump
  <2>0. "monitor" \in Threads
    BY DEF Threads
  <2>1. /\ sched'.synced = sched.synced /\ sched'.suppressed = sched.suppressed
        /\ sched'.handled = sched.handled /\ sched'.pending \in {sched.pending, NoTarget}
        /\ history' = history /\ marker' = marker
        /\ thread'["monitor"].pc \notin {"send", "act"}
        /\ \A u \in Threads \ {"monitor"} : thread'[u] = thread[u]
    BY <1>9, JumpEffects
  <2>2. ASSUME Closed PROVE Calm'
    BY <1>0, <2>0, <2>1, <2>2, CalmKept
  <2> QED
    BY <2>1, <2>2 DEF CalmInv
<1>10. CASE SetEnabled \/ SetCron \/ SetDuration
  BY <1>10, SettingsEffects DEF CalmInv, Calm
<1>11. CASE TimePasses \/ CooldownEnds \/ StartupCooldownEnds \/ ClockFallsBehind
  BY <1>11, TimeEffects DEF CalmInv, Calm
<1>12. ASSUME NEW phase \in Phases, WallSteps(phase)
       PROVE  CalmInv'
  <2>1. sched.pending \in [occurrence : 0 .. MaxOccurrences,
                           basis : {"none", "mono", "wall", "adrift", "late"}]
    BY DEF TypeOK, Schedulers
  <2>2. Adrift(sched.pending) = NoTarget <=> sched.pending = NoTarget
    BY <2>1, TargetsTyped
  <2> QED
    BY <1>12, <2>2, WallEffects DEF CalmInv, Calm
<1>13. ASSUME NEW phase \in Phases, NEW hibernated \in BOOLEAN, NEW removed \in BOOLEAN,
              Starts(phase, hibernated, removed), hibernated => history.sent # {}
       PROVE  CalmInv'
  <2>1. history'.woken => sched'.suppressed
    BY <1>13, StartsEffects DEF CalmInv, TypeOK
  <2>2. Calm' /\ sched'.handled = 0 /\ history'.sent = {}
    BY <1>13, StartsEffects DEF Calm
  <2> QED
    BY <2>1, <2>2 DEF CalmInv
<1>15. CASE WallSlews
  BY <1>15, SlewEffects DEF CalmInv, Calm
<1>14. CASE UNCHANGED vars
  BY <1>14 DEF vars, CalmInv, Calm
<1> QED
  BY <1>1, <1>2, <1>3, <1>4, <1>5, <1>6, <1>7, <1>8, <1>9, <1>10, <1>11, <1>12,
     <1>13, <1>14, <1>15, StepCases, Zenon

-----------------------------------------------------------------------------
(* Every occurrence is used once.                                          *)

\* The numbers that are compared are numbers.
LEMMA NumbersTyped ==
    ASSUME TypeOK
    PROVE  /\ Latest(clock.wall) \in Nat /\ sched.handled \in Nat /\ sched.entry \in Nat
           /\ \A t \in Threads : thread[t].occurrence \in Nat
           /\ Occurrences \subseteq Nat /\ Spent \subseteq Nat
<1>1. Latest(clock.wall) \in 0 .. MaxOccurrences
  BY LatestTyped DEF TypeOK, Clocks
<1>2. sched.handled \in 0 .. MaxOccurrences /\ sched.entry \in 0 .. MaxOccurrences + 1
  BY DEF TypeOK, Schedulers
<1>3. \A t \in Threads : thread[t].occurrence \in 0 .. MaxOccurrences
  BY DEF TypeOK, Goroutines
<1>4. \A n \in 0 .. MaxOccurrences : n \in Nat
  BY ScheduleAssumption
<1>5. \A n \in 0 .. MaxOccurrences + 1 : n \in Nat
  BY ScheduleAssumption
<1>6. Occurrences \subseteq Nat
  BY ScheduleAssumption DEF Occurrences
<1>7. Spent \subseteq Nat
  BY <1>6 DEF Spent
<1> QED
  BY <1>1, <1>2, <1>3, <1>4, <1>5, <1>6, <1>7

\* A step by which nothing comes to be sent or deferred uses nothing.
LEMMA NothingUsed ==
    ASSUME OnceInv, PendingInv, history'.sent = history.sent,
           history.overtaken \subseteq history'.overtaken,
           sched'.pending # NoTarget => /\ sched.pending # NoTarget
                                        /\ sched'.pending.occurrence = sched.pending.occurrence,
           \A t \in Threads : thread'[t].pc = "send" =>
              thread[t].pc = "send" /\ thread'[t].occurrence = thread[t].occurrence
    PROVE  Spent' \subseteq Spent /\ OnceInv' /\ PendingInv'
<1>1. Spent' \subseteq Spent
  BY DEF Spent, Used, Dispatching
<1>2. PendingInv'
  BY DEF PendingInv
<1>3. OnceInv'
  <2> SUFFICES ASSUME NEW t \in Threads, thread'[t].pc = "send",
                      thread'[t].occurrence \notin history'.overtaken
               PROVE  /\ thread'[t].occurrence \notin history'.sent
                      /\ sched'.pending # NoTarget =>
                            sched'.pending.occurrence # thread'[t].occurrence
                      /\ \A u \in Threads \ {t} :
                            thread'[u].pc = "send" => thread'[u].occurrence # thread'[t].occurrence
    BY DEF OnceInv, Dispatching
  <2>1. /\ thread[t].pc = "send" /\ thread'[t].occurrence = thread[t].occurrence
        /\ thread[t].occurrence \notin history.overtaken
    OBVIOUS
  <2>2. /\ thread[t].occurrence \notin history.sent
        /\ sched.pending # NoTarget => sched.pending.occurrence # thread[t].occurrence
        /\ \A u \in Threads \ {t} :
              thread[u].pc = "send" => thread[u].occurrence # thread[t].occurrence
    BY <2>1 DEF OnceInv, Dispatching
  <2> QED
    BY <2>1, <2>2
<1> QED
  BY <1>1, <1>2, <1>3

\* A step that uses nothing, lowers nothing and starts no catch-up keeps what is
\* spent behind the schedule.
LEMMA SpentKept ==
    ASSUME TypeOK, SpentInv, Spent' \subseteq Spent,
           history.overtaken \subseteq history'.overtaken,
           sched'.handled = sched.handled, sched'.cooling = sched.cooling,
           Latest(clock'.wall) = Latest(clock.wall),
           sched'.entry \in {sched.entry, 0, Latest(clock.wall) + 1},
           thread'["cron"].pc = "fire" => thread["cron"].pc = "fire",
           \A t \in Threads : thread'[t].pc = "act" =>
              thread[t].pc = "act" /\ thread'[t].occurrence = thread[t].occurrence
    PROVE  SpentInv'
<1>1. ASSUME NEW k \in Spent'
      PROVE  /\ k <= Latest(clock'.wall) /\ k <= sched'.handled
             /\ sched'.cooling \/ sched'.entry = 0 \/ k < sched'.entry
             /\ thread'["cron"].pc = "fire" /\ ~sched'.cooling => k < Latest(clock'.wall)
             /\ \A t \in Threads : thread'[t].pc = "act" => k < thread'[t].occurrence
  <2>1. /\ k \in Spent /\ k \in Nat /\ Latest(clock.wall) \in Nat
    BY NumbersTyped
  <2>2. /\ k <= Latest(clock.wall) /\ k <= sched.handled
        /\ sched.cooling \/ sched.entry = 0 \/ k < sched.entry
        /\ thread["cron"].pc = "fire" /\ ~sched.cooling => k < Latest(clock.wall)
        /\ \A t \in Threads : thread[t].pc = "act" => k < thread[t].occurrence
    BY <2>1 DEF SpentInv
  <2> QED
    BY <2>1, <2>2
<1>2. ASSUME NEW t \in Threads, thread'[t].pc = "act",
             thread'[t].occurrence \notin history'.overtaken
      PROVE  thread'[t].occurrence <= Latest(clock'.wall)
  BY <1>2 DEF SpentInv
<1> QED
  BY <1>1, <1>2 DEF SpentInv

\* A step that uses an occurrence beyond all that are spent, records it, and gives
\* up what a catch-up under way has read at or before it.
Uses(t, k) ==
    /\ thread[t].pc # "send" /\ sched'.handled = k /\ sched'.cooling
    /\ clock' = clock /\ history' = Overtaking(t, k)
    /\ \A u \in Threads \ {t} : thread'[u] = thread[u]
    /\ \/ /\ sched'.pending = NoTarget
          /\ thread'[t].pc = "send" /\ thread'[t].occurrence = k
       \/ /\ sched'.pending # NoTarget /\ sched'.pending.occurrence = k
          /\ thread'[t].pc = "idle"

\* Such a step keeps what is spent behind the schedule, and spent once.
LEMMA UseStep ==
    ASSUME TypeOK, OccurrenceInv, SpentInv, OnceInv,
           NEW t \in Threads, NEW k \in Occurrences, Uses(t, k),
           \A j \in Spent : j < k,
           k \notin history.overtaken => k <= Latest(clock.wall)
    PROVE  SpentInv' /\ OnceInv' /\ PendingInv'
<1>1. /\ history'.sent = history.sent /\ history.overtaken \subseteq history'.overtaken
      /\ \A u \in Threads \ {t} : thread[u].pc = "act" =>
            thread[u].occurrence .. k \subseteq history'.overtaken
  BY Overtakes DEF Uses
<1>2. Spent' \subseteq Spent \cup {k}
  <2> SUFFICES ASSUME NEW j \in Spent', j # k PROVE j \in Spent
    OBVIOUS
  <2>1. j \in Occurrences /\ Used(j)' /\ j \notin history'.overtaken
    BY DEF Spent
  <2>2. CASE j \in history'.sent
    BY <1>1, <2>1, <2>2 DEF Spent, Used
  <2>3. CASE \E u \in Threads : thread'[u].pc = "send" /\ thread'[u].occurrence = j
    <3>1. PICK u \in Threads : thread'[u].pc = "send" /\ thread'[u].occurrence = j
      BY <2>3
    <3>2. u # t /\ thread'[u] = thread[u]
      BY <3>1 DEF Uses
    <3> QED
      BY <1>1, <2>1, <3>1, <3>2 DEF Spent, Used, Dispatching
  <2>4. CASE sched'.pending # NoTarget /\ sched'.pending.occurrence = j
    BY <2>4 DEF Uses
  <2> QED
    BY <2>1, <2>2, <2>3, <2>4 DEF Used, Dispatching
<1>3. k \in Nat /\ Latest(clock.wall) \in Nat /\ sched.handled \in Nat
      /\ \A u \in Threads : thread[u].occurrence \in Nat
  BY NumbersTyped
<1>4. /\ sched'.handled = k /\ sched'.cooling /\ clock' = clock
      /\ \A u \in Threads \ {t} : thread'[u] = thread[u]
      /\ thread'[t].pc # "act"
  BY DEF Uses
<1>5. ASSUME NEW j \in Spent'
      PROVE  /\ j <= Latest(clock'.wall) /\ j <= sched'.handled
             /\ sched'.cooling
             /\ \A u \in Threads : thread'[u].pc = "act" => j < thread'[u].occurrence
  <2>0. j \notin history'.overtaken /\ j \notin history.overtaken
    BY <1>1 DEF Spent
  <2>1. CASE j \in Spent
    <3>1. /\ j <= Latest(clock.wall) /\ j < k /\ j \in Nat
          /\ \A u \in Threads : thread[u].pc = "act" => j < thread[u].occurrence
      BY <2>1, NumbersTyped DEF SpentInv
    <3>2. j <= k
      BY <1>3, <3>1
    <3>3. ASSUME NEW u \in Threads, thread'[u].pc = "act"
          PROVE  j < thread'[u].occurrence
      BY <1>4, <3>1, <3>3
    <3> QED
      BY <1>4, <3>1, <3>2, <3>3
  <2>2. CASE j = k
    <3>1. j <= Latest(clock'.wall) /\ j <= sched'.handled
      BY <1>3, <1>4, <2>0, <2>2
    <3>2. ASSUME NEW u \in Threads, thread'[u].pc = "act"
          PROVE  j < thread'[u].occurrence
      <4>1. u \in Threads \ {t} /\ thread'[u] = thread[u]
        BY <1>4, <3>2
      <4>2. k \notin thread[u].occurrence .. k
        BY <1>1, <2>0, <2>2, <3>2, <4>1
      <4> QED
        BY <1>3, <2>2, <4>1, <4>2
    <3> QED
      BY <1>4, <3>1, <3>2
  <2> QED
    BY <1>2, <2>1, <2>2
<1>6. ASSUME NEW u \in Threads, thread'[u].pc = "act",
             thread'[u].occurrence \notin history'.overtaken
      PROVE  thread'[u].occurrence <= Latest(clock'.wall)
  BY <1>1, <1>4, <1>6 DEF SpentInv
<1>7. SpentInv'
  BY <1>5, <1>6 DEF SpentInv
<1>8. k \notin history'.overtaken => ~Used(k)
  <2>1. k \notin Spent
    BY <1>3
  <2> QED
    BY <1>1, <2>1 DEF Spent
<1>9. PendingInv'
  BY <1>1, <1>8 DEF PendingInv, Uses, Used
<1>10. OnceInv'
  <2> SUFFICES ASSUME NEW v \in Threads, thread'[v].pc = "send",
                      thread'[v].occurrence \notin history'.overtaken
               PROVE  /\ thread'[v].occurrence \notin history'.sent
                      /\ sched'.pending # NoTarget =>
                            sched'.pending.occurrence # thread'[v].occurrence
                      /\ \A u \in Threads \ {v} :
                            thread'[u].pc = "send" => thread'[u].occurrence # thread'[v].occurrence
    BY DEF OnceInv, Dispatching
  <2>1. CASE v = t
    <3>1. thread'[v].occurrence = k /\ sched'.pending = NoTarget
      BY <2>1 DEF Uses
    <3>2. ~Used(k)
      BY <1>8, <3>1
    <3>3. k \notin history.sent
      BY <3>2 DEF Used
    <3>4. ASSUME NEW u \in Threads \ {v}, thread'[u].pc = "send"
          PROVE  thread'[u].occurrence # k
      BY <1>4, <2>1, <3>2, <3>4 DEF Used, Dispatching
    <3> QED
      BY <1>1, <3>1, <3>3, <3>4
  <2>2. CASE v # t
    <3>1. /\ thread'[v] = thread[v] /\ thread[v].occurrence \notin history.overtaken
      BY <1>1, <1>4, <2>2
    <3>2. /\ thread[v].occurrence \notin history.sent
          /\ \A u \in Threads \ {v} :
                thread[u].pc = "send" => thread[u].occurrence # thread[v].occurrence
      BY <3>1 DEF OnceInv, Dispatching
    <3>3. thread[v].occurrence # k
      BY <1>8, <3>1 DEF Used, Dispatching
    <3>4. ASSUME NEW u \in Threads \ {v}, thread'[u].pc = "send"
          PROVE  thread'[u].occurrence # thread'[v].occurrence
      <4>1. CASE u = t
        BY <3>1, <3>3, <3>4, <4>1 DEF Uses
      <4>2. CASE u # t
        BY <1>4, <3>1, <3>2, <3>4, <4>2
      <4> QED
        BY <4>1, <4>2
    <3>5. sched'.pending # NoTarget =>
             sched'.pending.occurrence # thread'[v].occurrence
      BY <3>1, <3>3 DEF Uses
    <3> QED
      BY <1>1, <3>1, <3>2, <3>4, <3>5
  <2> QED
    BY <2>1, <2>2
<1> QED
  BY <1>7, <1>9, <1>10

\* A target that is sent is used no more than a target that waits.
LEMMA TakeStep ==
    ASSUME OnceInv, PendingInv, NEW t \in Threads, TakesPending(t),
           thread[t].pc # "send", history' = history,
           \A u \in Threads \ {t} : thread'[u] = thread[u]
    PROVE  Spent' \subseteq Spent /\ OnceInv' /\ PendingInv'
<1> DEFINE p == sched.pending.occurrence
<1>1. sched.pending # NoTarget /\ sched'.pending = NoTarget
  BY DEF TakesPending
<1>2. thread'[t].pc = "send" => thread'[t].occurrence = p
  BY DEF TakesPending, Takes
<1>3. Spent' \subseteq Spent
  <2> SUFFICES ASSUME NEW j \in Spent' PROVE j \in Spent
    OBVIOUS
  <2>1. j \in Occurrences /\ Used(j)' /\ j \notin history.overtaken
    BY DEF Spent
  <2>2. Used(j)
    <3>1. ASSUME NEW u \in Threads, thread'[u].pc = "send", thread'[u].occurrence = j
          PROVE  Used(j)
      BY <1>1, <1>2, <3>1 DEF Used, Dispatching
    <3> QED
      BY <1>1, <2>1, <3>1 DEF Used, Dispatching
  <2> QED
    BY <2>1, <2>2 DEF Spent
<1>4. PendingInv'
  BY <1>1 DEF PendingInv
<1>5. OnceInv'
  <2> SUFFICES ASSUME NEW v \in Threads, thread'[v].pc = "send",
                      thread'[v].occurrence \notin history.overtaken
               PROVE  /\ thread'[v].occurrence \notin history.sent
                      /\ \A u \in Threads \ {v} :
                            thread'[u].pc = "send" => thread'[u].occurrence # thread'[v].occurrence
    BY <1>1 DEF OnceInv, Dispatching
  <2>1. CASE v = t
    <3>1. thread'[v].occurrence = p /\ p \notin history.overtaken
      BY <1>2, <2>1
    <3>2. p \notin history.sent
      BY <1>1, <3>1 DEF PendingInv
    <3>3. ASSUME NEW u \in Threads \ {v}, thread'[u].pc = "send"
          PROVE  thread'[u].occurrence # p
      BY <1>1, <2>1, <3>1, <3>3 DEF OnceInv, Dispatching
    <3> QED
      BY <3>1, <3>2, <3>3
  <2>2. CASE v # t
    <3>1. /\ thread'[v] = thread[v] /\ thread[v].occurrence \notin history.sent
          /\ p # thread[v].occurrence
          /\ \A u \in Threads \ {v} :
                thread[u].pc = "send" => thread[u].occurrence # thread[v].occurrence
      BY <1>1, <2>2 DEF OnceInv, Dispatching
    <3>2. ASSUME NEW u \in Threads \ {v}, thread'[u].pc = "send"
          PROVE  thread'[u].occurrence # thread'[v].occurrence
      <4>1. CASE u = t
        BY <1>2, <3>1, <3>2, <4>1
      <4>2. CASE u # t
        BY <3>1, <3>2, <4>2
      <4> QED
        BY <4>1, <4>2
    <3> QED
      BY <3>1, <3>2
  <2> QED
    BY <2>1, <2>2
<1> QED
  BY <1>3, <1>4, <1>5

\* What has been sent is used no more than what is being sent.
LEMMA SendStep ==
    ASSUME TypeOK, OccurrenceInv, OnceInv, PendingInv, NEW t \in Threads,
           NEW written \in BOOLEAN, Send(t, written)
    PROVE  Spent' \subseteq Spent /\ OnceInv' /\ PendingInv'
<1> DEFINE k == thread[t].occurrence
<1>1. /\ thread[t].pc = "send" /\ thread'[t].pc \in {"idle", "dispatch"}
      /\ \A u \in Threads \ {t} : thread'[u] = thread[u]
      /\ history'.sent = history.sent \cup {k}
      /\ history'.overtaken = history.overtaken /\ sched' = sched
  BY SendEffects
<1>2. Spent' \subseteq Spent
  <2> SUFFICES ASSUME NEW j \in Spent' PROVE j \in Spent
    OBVIOUS
  <2>1. j \in Occurrences /\ Used(j)' /\ j \notin history.overtaken
    BY <1>1 DEF Spent
  <2>2. Used(j)
    <3>1. ASSUME NEW u \in Threads, thread'[u].pc = "send", thread'[u].occurrence = j
          PROVE  Used(j)
      BY <1>1, <3>1 DEF Used, Dispatching
    <3>2. ASSUME j \in history'.sent PROVE Used(j)
      BY <1>1, <3>2 DEF Used, Dispatching
    <3> QED
      BY <1>1, <2>1, <3>1, <3>2 DEF Used, Dispatching
  <2> QED
    BY <2>1, <2>2 DEF Spent
<1>3. PendingInv'
  BY <1>1 DEF PendingInv, OnceInv, Dispatching
<1>4. OnceInv'
  <2> SUFFICES ASSUME NEW v \in Threads, thread'[v].pc = "send",
                      thread'[v].occurrence \notin history.overtaken
               PROVE  /\ thread'[v].occurrence \notin history'.sent
                      /\ sched.pending # NoTarget =>
                            sched.pending.occurrence # thread'[v].occurrence
                      /\ \A u \in Threads \ {v} :
                            thread'[u].pc = "send" => thread'[u].occurrence # thread'[v].occurrence
    BY <1>1 DEF OnceInv, Dispatching
  <2>1. v # t /\ thread'[v] = thread[v]
    BY <1>1
  <2>2. /\ thread[v].occurrence \notin history.sent
        /\ sched.pending # NoTarget => sched.pending.occurrence # thread[v].occurrence
        /\ \A u \in Threads \ {v} :
              thread[u].pc = "send" => thread[u].occurrence # thread[v].occurrence
    BY <2>1 DEF OnceInv, Dispatching
  <2>3. ASSUME NEW u \in Threads \ {v}, thread'[u].pc = "send"
        PROVE  thread'[u].occurrence # thread'[v].occurrence
    BY <1>1, <2>1, <2>2, <2>3
  <2> QED
    BY <1>1, <2>1, <2>2, <2>3
<1> QED
  BY <1>2, <1>3, <1>4

\* The parts of the invariant about what has been used.
OnceParts == SpentInv /\ OnceInv /\ PendingInv

\* The first half of a catch-up uses nothing, and reads beyond all that is spent.
LEMMA ReadsStep ==
    ASSUME TypeOK, OccurrenceInv, OnceParts, NEW t \in Threads, CatchUpReads(t)
    PROVE  OnceParts'
<1>1. /\ sched' = sched /\ clock' = clock /\ history' = history
      /\ thread[t].pc = "catch-up"
      /\ \A u \in Threads \ {t} : thread'[u] = thread[u]
      /\ \/ thread'[t].pc \in {"idle", "dispatch"}
         \/ /\ thread'[t].pc = "act" /\ thread'[t].occurrence = Latest(clock.wall)
            /\ Latest(clock.wall) > sched.handled
  BY ReadsEffects
<1>2. Spent' \subseteq Spent /\ OnceInv' /\ PendingInv'
  <2>1. \A u \in Threads : thread'[u].pc = "send" =>
           thread[u].pc = "send" /\ thread'[u].occurrence = thread[u].occurrence
    BY <1>1
  <2> QED
    BY <1>1, <2>1, NothingUsed DEF OnceParts
<1>3. /\ Latest(clock.wall) \in Nat /\ sched.handled \in Nat
      /\ Spent \subseteq Nat
  BY NumbersTyped
<1>4. ASSUME NEW k \in Spent'
      PROVE  /\ k <= Latest(clock'.wall) /\ k <= sched'.handled
             /\ sched'.cooling \/ sched'.entry = 0 \/ k < sched'.entry
             /\ thread'["cron"].pc = "fire" /\ ~sched'.cooling => k < Latest(clock'.wall)
             /\ \A u \in Threads : thread'[u].pc = "act" => k < thread'[u].occurrence
  <2>1. k \in Spent /\ k \in Nat
    BY <1>2, <1>3
  <2>2. /\ k <= Latest(clock.wall) /\ k <= sched.handled
        /\ sched.cooling \/ sched.entry = 0 \/ k < sched.entry
        /\ thread["cron"].pc = "fire" /\ ~sched.cooling => k < Latest(clock.wall)
        /\ \A u \in Threads : thread[u].pc = "act" => k < thread[u].occurrence
    BY <2>1 DEF OnceParts, SpentInv
  <2>3. ASSUME NEW u \in Threads, thread'[u].pc = "act"
        PROVE  k < thread'[u].occurrence
    <3>1. CASE u = t
      BY <1>1, <1>3, <2>1, <2>2, <2>3, <3>1
    <3>2. CASE u # t
      BY <1>1, <2>2, <2>3, <3>2
    <3> QED
      BY <3>1, <3>2
  <2>4. thread'["cron"].pc = "fire" => thread["cron"].pc = "fire"
    BY <1>1 DEF Threads
  <2> QED
    BY <1>1, <2>2, <2>3, <2>4
<1>5. ASSUME NEW u \in Threads, thread'[u].pc = "act",
             thread'[u].occurrence \notin history'.overtaken
      PROVE  thread'[u].occurrence <= Latest(clock'.wall)
  <2>1. CASE u = t
    BY <1>1, <1>3, <1>5, <2>1
  <2>2. CASE u # t
    BY <1>1, <1>5, <2>2 DEF OnceParts, SpentInv
  <2> QED
    BY <2>1, <2>2
<1> QED
  BY <1>2, <1>4, <1>5 DEF OnceParts, SpentInv

\* The second half uses the occurrence, gives it up, or does nothing.
LEMMA ActsStep ==
    ASSUME TypeOK, OccurrenceInv, OnceParts, NEW t \in Threads, CatchUpActs(t)
    PROVE  OnceParts'
<1> DEFINE k == thread[t].occurrence
<1>1. /\ thread[t].pc = "act" /\ k \in Occurrences /\ clock' = clock
      /\ sched'.entry = sched.entry
      /\ \A u \in Threads \ {t} : thread'[u] = thread[u]
  BY ActsEffects
<1>2. CASE CatchUpSends(t)
  <2>1. Uses(t, k)
    BY <1>1, <1>2 DEF Uses, CatchUpSends
  <2>2. /\ \A j \in Spent : j < k
        /\ k \notin history.overtaken => k <= Latest(clock.wall)
    BY <1>1 DEF OnceParts, SpentInv
  <2> QED
    BY <1>1, <2>1, <2>2, UseStep DEF OnceParts
<1>3. ASSUME thread'[t].pc \in {"idle", "dispatch"}, history'.sent = history.sent,
             history.overtaken \subseteq history'.overtaken,
             Spent' \subseteq Spent,
             sched'.handled = sched.handled, sched'.cooling = sched.cooling
      PROVE  SpentInv'
  <2>1. /\ Latest(clock'.wall) = Latest(clock.wall)
        /\ thread'["cron"].pc = "fire" => thread["cron"].pc = "fire"
        /\ \A u \in Threads : thread'[u].pc = "act" =>
              thread[u].pc = "act" /\ thread'[u].occurrence = thread[u].occurrence
    BY <1>1, <1>3 DEF Threads
  <2>2. sched'.entry \in {sched.entry, 0, Latest(clock.wall) + 1}
    BY <1>1
  <2> QED
    BY <1>3, <2>1, <2>2, SpentKept DEF OnceParts
<1>4. CASE CatchUpDefers(t)
  <2>1. /\ sched'.pending # NoTarget /\ sched'.pending.occurrence = k
        /\ thread'[t].pc \in {"idle", "dispatch"}
        /\ history'.sent = history.sent
        /\ history'.overtaken = history.overtaken \cup {k}
        /\ sched'.handled = sched.handled /\ sched'.cooling = sched.cooling
    BY <1>4 DEF CatchUpDefers
  <2>2. Spent' \subseteq Spent
    <3> SUFFICES ASSUME NEW j \in Spent' PROVE j \in Spent
      OBVIOUS
    <3>1. j \in Occurrences /\ Used(j)' /\ j \notin history.overtaken /\ j # k
      BY <2>1 DEF Spent
    <3>2. Used(j)
      <4>1. ASSUME NEW u \in Threads, thread'[u].pc = "send", thread'[u].occurrence = j
            PROVE  Used(j)
        BY <1>1, <2>1, <4>1 DEF Used, Dispatching
      <4> QED
        BY <2>1, <3>1, <4>1 DEF Used, Dispatching
    <3> QED
      BY <3>1, <3>2 DEF Spent
  <2>3. SpentInv'
    BY <1>3, <2>1, <2>2
  <2>4. PendingInv'
    BY <2>1 DEF PendingInv
  <2>5. OnceInv'
    <3> SUFFICES ASSUME NEW v \in Threads, thread'[v].pc = "send",
                        thread'[v].occurrence \notin history'.overtaken
                 PROVE  /\ thread'[v].occurrence \notin history'.sent
                        /\ sched'.pending # NoTarget =>
                              sched'.pending.occurrence # thread'[v].occurrence
                        /\ \A u \in Threads \ {v} :
                              thread'[u].pc = "send" => thread'[u].occurrence # thread'[v].occurrence
      BY DEF OnceInv, Dispatching
    <3>1. /\ v # t /\ thread'[v] = thread[v] /\ thread[v].occurrence # k
          /\ thread[v].occurrence \notin history.overtaken
      BY <1>1, <2>1
    <3>2. /\ thread[v].occurrence \notin history.sent
          /\ \A u \in Threads \ {v} :
                thread[u].pc = "send" => thread[u].occurrence # thread[v].occurrence
      BY <3>1 DEF OnceParts, OnceInv, Dispatching
    <3>3. ASSUME NEW u \in Threads \ {v}, thread'[u].pc = "send"
          PROVE  thread'[u].occurrence # thread'[v].occurrence
      BY <1>1, <2>1, <3>1, <3>2, <3>3
    <3> QED
      BY <2>1, <3>1, <3>2, <3>3
  <2> QED
    BY <2>3, <2>4, <2>5 DEF OnceParts
<1>5. CASE /\ thread'[t].pc \in {"idle", "dispatch"}
           /\ sched' = sched /\ history' = history
  <2>1. \A u \in Threads : thread'[u].pc = "send" =>
           thread[u].pc = "send" /\ thread'[u].occurrence = thread[u].occurrence
    BY <1>1, <1>5
  <2>2. Spent' \subseteq Spent /\ OnceInv' /\ PendingInv'
    BY <1>5, <2>1, NothingUsed DEF OnceParts
  <2> QED
    BY <1>3, <1>5, <2>2 DEF OnceParts
<1> QED
  BY <1>2, <1>4, <1>5, ActsEffects

\* A step that moves one goroutine, uses nothing and lowers nothing.
LEMMA PlainStep ==
    ASSUME TypeOK, OnceParts, NEW t \in Threads,
           \A u \in Threads \ {t} : thread'[u] = thread[u],
           thread'[t] = thread[t] \/ thread'[t].pc \in {"idle", "catch-up"},
           sched'.pending \in {sched.pending, NoTarget},
           sched'.handled = sched.handled, sched'.cooling = sched.cooling,
           sched'.entry \in {sched.entry, 0, Latest(clock.wall) + 1},
           clock'.wall = clock.wall, history'.sent = history.sent,
           history'.overtaken = history.overtaken
    PROVE  OnceParts'
<1>1. /\ \A u \in Threads : thread'[u].pc = "send" =>
            thread[u].pc = "send" /\ thread'[u].occurrence = thread[u].occurrence
      /\ \A u \in Threads : thread'[u].pc = "act" =>
            thread[u].pc = "act" /\ thread'[u].occurrence = thread[u].occurrence
      /\ thread'["cron"].pc = "fire" => thread["cron"].pc = "fire"
  BY DEF Threads
<1>2. Spent' \subseteq Spent /\ OnceInv' /\ PendingInv'
  BY <1>1, NothingUsed DEF OnceParts
<1>3. SpentInv'
  BY <1>1, <1>2, SpentKept DEF OnceParts
<1> QED
  BY <1>2, <1>3 DEF OnceParts

\* The cron engine's job starts after every spent occurrence.
LEMMA CronStep ==
    ASSUME TypeOK, OccurrenceInv, OnceParts, CronFires
    PROVE  OnceParts'
<1>1. /\ sched.entry # 0 /\ sched.entry <= Latest(clock.wall)
      /\ sched'.entry = Latest(clock.wall) + 1
      /\ sched'.pending = sched.pending /\ sched'.handled = sched.handled
      /\ sched'.cooling = sched.cooling
      /\ thread'["cron"].pc = "fire"
      /\ \A u \in Threads \ {"cron"} : thread'[u] = thread[u]
      /\ clock' = clock /\ history' = history
  BY CronEffects
<1>2. Latest(clock.wall) \in Nat /\ sched.entry \in Nat /\ Spent \subseteq Nat
  BY NumbersTyped
<1>3. Spent' \subseteq Spent /\ OnceInv' /\ PendingInv'
  BY <1>1, NothingUsed DEF OnceParts
<1>4. ASSUME NEW k \in Spent'
      PROVE  /\ k <= Latest(clock'.wall) /\ k <= sched'.handled
             /\ sched'.cooling \/ sched'.entry = 0 \/ k < sched'.entry
             /\ thread'["cron"].pc = "fire" /\ ~sched'.cooling => k < Latest(clock'.wall)
             /\ \A u \in Threads : thread'[u].pc = "act" => k < thread'[u].occurrence
  <2>1. k \in Spent /\ k \in Nat
    BY <1>2, <1>3
  <2>2. /\ k <= Latest(clock.wall) /\ k <= sched.handled
        /\ sched.cooling \/ sched.entry = 0 \/ k < sched.entry
        /\ \A u \in Threads : thread[u].pc = "act" => k < thread[u].occurrence
    BY <2>1 DEF OnceParts, SpentInv
  <2>3. \A u \in Threads : thread'[u].pc = "act" => k < thread'[u].occurrence
    BY <1>1, <2>2
  <2> QED
    BY <1>1, <1>2, <2>1, <2>2, <2>3
<1>5. ASSUME NEW u \in Threads, thread'[u].pc = "act",
             thread'[u].occurrence \notin history'.overtaken
      PROVE  thread'[u].occurrence <= Latest(clock'.wall)
  BY <1>1, <1>5 DEF OnceParts, SpentInv
<1> QED
  BY <1>3, <1>4, <1>5 DEF OnceParts, SpentInv

\* fire uses the occurrence that is due, after every spent one, or nothing.
LEMMA FireStep ==
    ASSUME TypeOK, OccurrenceInv, OnceParts, fire
    PROVE  OnceParts'
<1> DEFINE k == Latest(clock.wall)
<1>0. "cron" \in Threads
  BY DEF Threads
<1>1. /\ thread["cron"].pc = "fire" /\ clock' = clock /\ sched'.entry = sched.entry
      /\ \A u \in Threads \ {"cron"} : thread'[u] = thread[u]
  BY FireEffects
<1>2. CASE FireUses
  <2>1. Uses("cron", k) /\ k \in Occurrences /\ ~sched.cooling
    BY <1>1, <1>2 DEF FireUses, Uses
  <2>2. \A j \in Spent : j < k
    BY <1>1, <2>1 DEF OnceParts, SpentInv
  <2>3. k <= Latest(clock.wall)
    BY NumbersTyped
  <2> QED
    BY <1>0, <2>1, <2>2, <2>3, UseStep DEF OnceParts
<1>3. CASE thread'["cron"].pc = "idle" /\ sched' = sched /\ history' = history
  BY <1>0, <1>1, <1>3, PlainStep
<1> QED
  BY <1>2, <1>3, FireEffects

\* Taking a target keeps what is spent behind the schedule.
LEMMA TakenStep ==
    ASSUME TypeOK, OnceParts, NEW t \in Threads, TakesPending(t),
           thread[t].pc # "send", history' = history, clock' = clock,
           \A u \in Threads \ {t} : thread'[u] = thread[u],
           sched'.handled = sched.handled, sched'.cooling = sched.cooling,
           sched'.entry = sched.entry
    PROVE  OnceParts'
<1>1. Spent' \subseteq Spent /\ OnceInv' /\ PendingInv'
  BY TakeStep DEF OnceParts
<1>2. thread'[t].pc \in {"idle", "send"}
  BY DEF TakesPending, Takes
<1>3. /\ \A u \in Threads : thread'[u].pc = "act" =>
            thread[u].pc = "act" /\ thread'[u].occurrence = thread[u].occurrence
      /\ thread'["cron"].pc = "fire" => thread["cron"].pc = "fire"
  BY <1>2 DEF Threads
<1>4. /\ Latest(clock'.wall) = Latest(clock.wall)
      /\ sched'.entry \in {sched.entry, 0, Latest(clock.wall) + 1}
  OBVIOUS
<1>5. SpentInv'
  BY <1>1, <1>3, <1>4, SpentKept DEF OnceParts
<1> QED
  BY <1>1, <1>5 DEF OnceParts

\* Time passes and cooldowns end only when the entry is ahead of what is spent.
LEMMA TimeStep ==
    ASSUME TypeOK, OnceParts,
           TimePasses \/ CooldownEnds \/ StartupCooldownEnds \/ ClockFallsBehind
    PROVE  OnceParts'
<1>1. /\ sched'.pending = sched.pending /\ sched'.handled = sched.handled
      /\ sched'.entry = sched.entry
      /\ clock' \in Clocks /\ clock'.wall >= clock.wall
      /\ history'.sent = history.sent /\ history'.overtaken = history.overtaken
      /\ thread' = thread /\ \A t \in Threads : thread[t].pc = "idle"
      /\ sched.entry = 0 \/ sched.entry > Latest(clock.wall)
  BY TimeEffects
<1>2. Spent' \subseteq Spent /\ OnceInv' /\ PendingInv'
  BY <1>1, NothingUsed DEF OnceParts
<1>3. clock.wall \in Phases /\ clock'.wall \in Phases /\ clock.wall <= clock'.wall
  BY <1>1, ScheduleAssumption DEF TypeOK, Clocks, Phases
<1>4. /\ Latest(clock.wall) <= Latest(clock'.wall)
      /\ Latest(clock'.wall) \in 0 .. MaxOccurrences
  BY <1>3, LatestTyped
<1>5. /\ Latest(clock.wall) \in Nat /\ Latest(clock'.wall) \in Nat
      /\ sched.entry \in Nat /\ Spent \subseteq Nat
  BY <1>4, NumbersTyped, ScheduleAssumption
<1>6. ASSUME NEW k \in Spent'
      PROVE  /\ k <= Latest(clock'.wall) /\ k <= sched'.handled
             /\ sched'.entry = 0 \/ k < sched'.entry
  <2>1. k \in Spent /\ k \in Nat /\ k <= Latest(clock.wall) /\ k <= sched.handled
    BY <1>2, <1>5 DEF OnceParts, SpentInv
  <2> QED
    BY <1>1, <1>4, <1>5, <2>1
<1>7. thread'["cron"].pc # "fire" /\ \A t \in Threads : thread'[t].pc # "act"
  BY <1>1 DEF Threads
<1> QED
  BY <1>2, <1>6, <1>7 DEF OnceParts, SpentInv

\* A step back of the wall clock gives up what comes again.
LEMMA WallStep ==
    ASSUME TypeOK, OccurrenceInv, OnceParts, NEW phase \in Phases, WallSteps(phase)
    PROVE  OnceParts'
<1>1. /\ thread["cron"].pc # "fire" \/ phase >= clock.wall
      /\ sched'.pending = Adrift(sched.pending)
      /\ sched'.handled = sched.handled /\ sched'.entry = sched.entry
      /\ sched'.cooling = sched.cooling /\ clock'.wall = phase
      /\ history'.sent = history.sent
      /\ history.overtaken \subseteq history'.overtaken /\ thread' = thread
      /\ \/ phase >= clock.wall
         \/ \A k \in Occurrences : k > Latest(phase) => k \in history'.overtaken
  BY WallEffects
<1>2. sched'.pending # NoTarget => /\ sched.pending # NoTarget
                                   /\ sched'.pending.occurrence = sched.pending.occurrence
  <2>1. sched.pending \in [occurrence : 0 .. MaxOccurrences,
                           basis : {"none", "mono", "wall", "adrift", "late"}]
    BY DEF TypeOK, Schedulers
  <2> QED
    BY <1>1, <2>1, TargetsTyped
<1>3. Spent' \subseteq Spent /\ OnceInv' /\ PendingInv'
  BY <1>1, <1>2, NothingUsed DEF OnceParts
<1>4. /\ clock.wall \in Phases /\ Latest(clock.wall) \in Nat
      /\ Spent \subseteq Nat /\ Occurrences \subseteq Nat
      /\ \A t \in Threads : thread[t].occurrence \in Nat
  BY NumbersTyped DEF TypeOK, Clocks
<1>5. /\ Latest(phase) \in 0 .. MaxOccurrences
      /\ clock.wall <= phase => Latest(clock.wall) <= Latest(phase)
  BY <1>4, LatestTyped
<1>6. Latest(phase) \in Nat /\ (clock.wall <= phase <=> phase >= clock.wall)
  BY <1>4, <1>5, ScheduleAssumption DEF Phases
<1>7. ASSUME NEW k \in Occurrences, k \notin history'.overtaken, k <= Latest(clock.wall)
      PROVE  k <= Latest(phase)
  <2>1. k \in Nat
    BY <1>4
  <2> QED
    BY <1>1, <1>4, <1>5, <1>6, <1>7, <2>1
<1>8. ASSUME NEW k \in Spent'
      PROVE  /\ k <= Latest(clock'.wall) /\ k <= sched'.handled
             /\ sched'.cooling \/ sched'.entry = 0 \/ k < sched'.entry
             /\ thread'["cron"].pc = "fire" /\ ~sched'.cooling => k < Latest(clock'.wall)
             /\ \A u \in Threads : thread'[u].pc = "act" => k < thread'[u].occurrence
  <2>1. k \in Spent /\ k \in Occurrences /\ k \notin history'.overtaken
    BY <1>3 DEF Spent
  <2>2. /\ k <= Latest(clock.wall) /\ k <= sched.handled
        /\ sched.cooling \/ sched.entry = 0 \/ k < sched.entry
        /\ thread["cron"].pc = "fire" /\ ~sched.cooling => k < Latest(clock.wall)
        /\ \A u \in Threads : thread[u].pc = "act" => k < thread[u].occurrence
    BY <2>1 DEF OnceParts, SpentInv
  <2>3. thread["cron"].pc = "fire" /\ ~sched.cooling => k < Latest(phase)
    BY <1>1, <1>4, <1>5, <1>6, <2>1, <2>2
  <2> QED
    BY <1>1, <1>7, <2>1, <2>2, <2>3
<1>9. ASSUME NEW u \in Threads, thread'[u].pc = "act",
             thread'[u].occurrence \notin history'.overtaken
      PROVE  thread'[u].occurrence <= Latest(clock'.wall)
  <2>1. thread[u].occurrence <= Latest(clock.wall) /\ thread[u].occurrence \in Occurrences
    BY <1>1, <1>9 DEF OnceParts, SpentInv, OccurrenceInv
  <2> QED
    BY <1>1, <1>7, <1>9, <2>1
<1> QED
  BY <1>1, <1>3, <1>8, <1>9 DEF OnceParts, SpentInv

\* Every step keeps what is spent behind the schedule, and spent once.
LEMMA OnceStep ==
    ASSUME TypeOK, OccurrenceInv, OnceParts, [Next]_vars
    PROVE  OnceParts'
<1>1. ASSUME NEW t \in Threads, NEW written \in BOOLEAN, Send(t, written)
      PROVE  OnceParts'
  <2>1. Spent' \subseteq Spent /\ OnceInv' /\ PendingInv'
    BY <1>1, SendStep DEF OnceParts
  <2>2. /\ thread'[t].pc \in {"idle", "dispatch"}
        /\ \A u \in Threads \ {t} : thread'[u] = thread[u]
        /\ history'.overtaken = history.overtaken /\ sched' = sched /\ clock' = clock
    BY <1>1, SendEffects
  <2>3. /\ \A u \in Threads : thread'[u].pc = "act" =>
              thread[u].pc = "act" /\ thread'[u].occurrence = thread[u].occurrence
        /\ thread'["cron"].pc = "fire" => thread["cron"].pc = "fire"
    BY <2>2 DEF Threads
  <2>4. /\ Latest(clock'.wall) = Latest(clock.wall)
        /\ sched'.entry \in {sched.entry, 0, Latest(clock.wall) + 1}
        /\ sched'.handled = sched.handled /\ sched'.cooling = sched.cooling
        /\ history.overtaken \subseteq history'.overtaken
    BY <2>2
  <2>5. SpentInv'
    BY <2>1, <2>3, <2>4, SpentKept DEF OnceParts
  <2> QED
    BY <2>1, <2>5 DEF OnceParts
<1>2. ASSUME NEW t \in Threads, CatchUpReads(t)
      PROVE  OnceParts'
  BY <1>2, ReadsStep
<1>3. ASSUME NEW t \in Threads, CatchUpActs(t)
      PROVE  OnceParts'
  BY <1>3, ActsStep
<1>4. CASE fire
  BY <1>4, FireStep
<1>5. CASE dispatchPending
  <2>0. "monitor" \in Threads
    BY DEF Threads
  <2>1. /\ thread["monitor"].pc # "send"
        /\ \A u \in Threads \ {"monitor"} : thread'[u] = thread[u]
        /\ sched'.entry = sched.entry /\ sched'.handled = sched.handled
        /\ sched'.cooling = sched.cooling /\ clock' = clock /\ history' = history
    BY <1>5, DispatchEffects
  <2>2. CASE TakesPending("monitor")
    BY <2>0, <2>1, <2>2, TakenStep
  <2>3. CASE thread'["monitor"].pc = "idle" /\ sched' = sched
    BY <2>0, <2>1, <2>3, PlainStep
  <2> QED
    BY <1>5, <2>2, <2>3, DispatchEffects
<1>6. ASSUME NEW standby \in BOOLEAN, OnVehicleStateChanged(standby)
      PROVE  OnceParts'
  <2>0. "vehicle" \in Threads
    BY DEF Threads
  <2>1. /\ thread["vehicle"].pc # "send"
        /\ \A u \in Threads \ {"vehicle"} : thread'[u] = thread[u]
        /\ sched'.entry = sched.entry /\ sched'.handled = sched.handled
        /\ sched'.cooling = sched.cooling /\ clock' = clock /\ history' = history
    BY <1>6, VehicleEffects
  <2>2. CASE TakesPending("vehicle")
    BY <2>0, <2>1, <2>2, TakenStep
  <2>3. CASE thread' = thread /\ sched'.pending \in {sched.pending, NoTarget}
    BY <2>0, <2>1, <2>3, PlainStep
  <2> QED
    BY <1>6, <2>2, <2>3, VehicleEffects
<1>7. CASE CronFires
  BY <1>7, CronStep
<1>8. CASE pollForTimeSync
  <2>0. "poll" \in Threads
    BY DEF Threads
  <2>1. /\ sched'.pending = sched.pending /\ sched'.handled = sched.handled
        /\ sched'.cooling = sched.cooling
        /\ sched'.entry \in {sched.entry, 0, Latest(clock.wall) + 1}
        /\ clock'.wall = clock.wall /\ history'.sent = history.sent
        /\ history'.overtaken = history.overtaken
    BY <1>8, PollEffects
  <2>2. /\ \A u \in Threads \ {"poll"} : thread'[u] = thread[u]
        /\ thread'["poll"] = thread["poll"] \/ thread'["poll"].pc = "catch-up"
    BY <1>8, PollEffects
  <2> QED
    BY <2>0, <2>1, <2>2, PlainStep
<1>9. CASE checkClockJump
  <2>0. "monitor" \in Threads
    BY DEF Threads
  <2>1. /\ sched'.pending \in {sched.pending, NoTarget}
        /\ sched'.handled = sched.handled /\ sched'.cooling = sched.cooling
        /\ sched'.entry \in {sched.entry, 0, Latest(clock.wall) + 1}
        /\ clock'.wall = clock.wall /\ history' = history
        /\ \A u \in Threads \ {"monitor"} : thread'[u] = thread[u]
        /\ thread'["monitor"].pc \in {"idle", "catch-up"}
    BY <1>9, JumpEffects
  <2> QED
    BY <2>0, <2>1, PlainStep
<1>10. CASE SetEnabled \/ SetCron \/ SetDuration
  <2>0. "cron" \in Threads
    BY DEF Threads
  <2>1. /\ sched'.pending = sched.pending /\ sched'.handled = sched.handled
        /\ sched'.cooling = sched.cooling
        /\ sched'.entry \in {sched.entry, 0, Latest(clock.wall) + 1}
        /\ clock' = clock /\ history'.sent = history.sent
        /\ history'.overtaken = history.overtaken /\ thread' = thread
    BY <1>10, SettingsEffects
  <2> QED
    BY <2>0, <2>1, PlainStep
<1>11. CASE TimePasses \/ CooldownEnds \/ StartupCooldownEnds \/ ClockFallsBehind
  BY <1>11, TimeStep
<1>12. ASSUME NEW phase \in Phases, WallSteps(phase)
       PROVE  OnceParts'
  BY <1>12, WallStep
<1>13. ASSUME NEW phase \in Phases, NEW hibernated \in BOOLEAN, NEW removed \in BOOLEAN,
              Starts(phase, hibernated, removed)
       PROVE  OnceParts'
  <2>1. /\ sched'.pending = NoTarget /\ history'.sent = {}
        /\ \A t \in Threads : thread'[t].pc = "idle"
    BY <1>13, StartsEffects
  <2>2. Spent' = {}
    BY <2>1 DEF Spent, Used, Dispatching
  <2> QED
    BY <2>1, <2>2 DEF OnceParts, SpentInv, OnceInv, PendingInv, Dispatching
<1>15. CASE WallSlews
  BY <1>15, SlewEffects, PlainStep DEF Threads
<1>14. CASE UNCHANGED vars
  BY <1>14 DEF vars, OnceParts, SpentInv, OnceInv, PendingInv, Dispatching, Spent, Used
<1> QED
  BY <1>1, <1>2, <1>3, <1>4, <1>5, <1>6, <1>7, <1>8, <1>9, <1>10, <1>11, <1>12,
     <1>13, <1>14, <1>15, StepCases, Zenon

-----------------------------------------------------------------------------
(* The theorems.                                                           *)

\* What the proofs rest on: types, the gate and the cooldown, and that what has
\* been sent, is being sent or waits for stand-by is behind the schedule.
THEOREM ScheduleInvariant == Spec => []SInv
<1>1. Init => SInv
  <2> SUFFICES ASSUME Init PROVE SInv
    OBVIOUS
  <2>1. /\ TypeOK /\ sched.pending = NoTarget /\ sched.handled = 0 /\ ~sched.suppressed
        /\ \A t \in Threads : thread[t].pc = "idle" /\ thread[t].then = "idle"
        /\ history.sent = {} /\ ~history.woken
    BY InitTyped
  <2>2. OccurrenceInv
    BY <2>1 DEF OccurrenceInv, Threads
  <2>3. CalmInv
    BY <2>1 DEF CalmInv, Calm
  <2>4. Spent = {}
    BY <2>1 DEF Spent, Used, Dispatching
  <2>5. SpentInv /\ OnceInv /\ PendingInv
    BY <2>1, <2>4 DEF SpentInv, OnceInv, PendingInv, Dispatching
  <2> QED
    BY <2>1, <2>2, <2>3, <2>5 DEF SInv
<1>2. SInv /\ [Next]_vars => SInv'
  <2> SUFFICES ASSUME SInv, [Next]_vars PROVE SInv'
    OBVIOUS
  <2>1. TypeOK' /\ OccurrenceInv'
    BY OccurrenceStep DEF SInv
  <2>2. CalmInv'
    BY CalmStep DEF SInv
  <2>3. OnceParts'
    BY OnceStep DEF SInv, OnceParts
  <2> QED
    BY <2>1, <2>2, <2>3 DEF SInv, OnceParts
<1> QED
  BY <1>1, <1>2, PTL DEF Spec

\* Every variable of the scheduler has its type in every reachable state.
THEOREM ScheduleTypeTheorem == Spec => []TypeOK
<1>1. SInv => TypeOK
  BY DEF SInv
<1> QED
  BY <1>1, ScheduleInvariant, PTL

\* Before SetTimeSynced has opened the gate, nothing has been recorded or deferred
\* and nothing is being sent (scheduler.go:38).
THEOREM GateTheorem == Spec => []GateHolds
<1>1. SInv => GateHolds
  BY DEF SInv, CalmInv, Calm, GateHolds, Dispatching
<1> QED
  BY <1>1, ScheduleInvariant, PTL

\* A board that woke from a scheduled hibernation less than fifteen minutes ago is
\* not put down by the schedule, if its marker could be written and removed.
THEOREM NoLoopTheorem == Spec => []NoHibernateLoop
<1>1. SInv => NoHibernateLoop
  BY DEF SInv, CalmInv, Calm, NoHibernateLoop, Dispatching
<1> QED
  BY <1>1, ScheduleInvariant, PTL

\* An occurrence hibernates the board at most once, for any number of occurrences,
\* steps of the clock, changes and restarts, unless it was overtaken.
THEOREM OnceTheorem == Spec => []OncePerOccurrence
<1>1. SInv => OncePerOccurrence
  BY DEF SInv, OnceInv, OncePerOccurrence
<1> QED
  BY <1>1, ScheduleInvariant, PTL

\* A target is set only by fire, which has just asked, and by the second half of a
\* catch-up, which asks again.
THEOREM DeferralTheorem == Spec => DeferralIsWanted
<1> DEFINE Wanted == sched'.pending \notin {sched.pending, Adrift(sched.pending), NoTarget} =>
                        sched.enabled /\ sched.synced
<1>1. SInv /\ [Next]_vars => Wanted
  <2> SUFFICES ASSUME TypeOK, OccurrenceInv, [Next]_vars PROVE Wanted
    BY DEF SInv
  <2>1. ASSUME NEW t \in Threads, NEW written \in BOOLEAN, Send(t, written)
        PROVE  Wanted
    BY <2>1, SendEffects
  <2>2. ASSUME NEW t \in Threads, CatchUpReads(t)
        PROVE  Wanted
    BY <2>2, ReadsEffects
  <2>3. ASSUME NEW t \in Threads, CatchUpActs(t)
        PROVE  Wanted
    BY <2>3, ActsEffects DEF CatchUpSends, CatchUpDefers
  <2>4. CASE fire
    BY <2>4, FireEffects DEF FireUses
  <2>5. CASE dispatchPending
    BY <2>5, DispatchEffects DEF TakesPending
  <2>6. ASSUME NEW standby \in BOOLEAN, OnVehicleStateChanged(standby)
        PROVE  Wanted
    BY <2>6, VehicleEffects DEF TakesPending
  <2>7. CASE CronFires
    BY <2>7, CronEffects
  <2>8. CASE pollForTimeSync
    BY <2>8, PollEffects
  <2>9. CASE checkClockJump
    BY <2>9, JumpEffects
  <2>10. CASE SetEnabled \/ SetCron \/ SetDuration
    BY <2>10, SettingsEffects
  <2>11. CASE TimePasses \/ CooldownEnds \/ StartupCooldownEnds \/ ClockFallsBehind
    BY <2>11, TimeEffects
  <2>12. ASSUME NEW phase \in Phases, WallSteps(phase)
         PROVE  Wanted
    BY <2>12, WallEffects
  <2>13. ASSUME NEW phase \in Phases, NEW hibernated \in BOOLEAN, NEW removed \in BOOLEAN,
                Starts(phase, hibernated, removed)
         PROVE  Wanted
    BY <2>13, StartsEffects
  <2>15. CASE WallSlews
    BY <2>15, SlewEffects
  <2>14. CASE UNCHANGED vars
    BY <2>14 DEF vars
  <2> QED
    BY <2>1, <2>2, <2>3, <2>4, <2>5, <2>6, <2>7, <2>8, <2>9, <2>10, <2>11, <2>12,
       <2>13, <2>14, <2>15, StepCases, Zenon
<1> QED
  BY <1>1, ScheduleInvariant, PTL DEF Spec, DeferralIsWanted
=============================================================================
