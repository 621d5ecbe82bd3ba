------------------------------ MODULE Inhibitors ------------------------------
(***************************************************************************)
(* The inhibitor manager (internal/inhibitor): a goroutine for every       *)
(* connection to the local socket, and the listener that mirrors the Redis *)
(* hash power:inhibits.  Each changes the inhibitors under a mutex and     *)
(* calls onInhibitorsChanged after it has let go of the mutex: the busy    *)
(* services are published, then the FSM is sent an event.  The delay       *)
(* inhibitor of the service blocks nothing and is left to PowerManager.    *)
(***************************************************************************)
EXTENDS Naturals

CONSTANTS Conns,        \* connections to the socket, one for each client
          Ids,          \* fields of the hash power:inhibits
          HashValues,   \* what clients write into a field
          MaxChanges,   \* bound on the changes of the hash
          MaxFailures   \* bound on the calls of Redis that fail

ASSUME InhibitorAssumption ==
    /\ MaxChanges \in Nat /\ MaxFailures \in Nat
    /\ "redis" \notin Conns /\ "absent" \in HashValues

VARIABLES
    client,         \* external: the other end of each connection
    handler,        \* where handleConnection is
    inhibitors,     \* the connections that are registered
    manual,         \* the manual inhibitors mirrored from Redis
    note,           \* where each caller of onInhibitorsChanged is
    busy,           \* the published busy services, and whether they may lag
    hash,           \* external: power:inhibits, its publications
    listener,       \* where StartRedisListener is
    fsm,            \* the power FSM, as far as it waits for inhibitors
    left            \* the bounds that are left

connVars == <<client, handler, inhibitors>>
vars == <<client, handler, inhibitors, manual, note, busy, hash, listener, fsm,
          left>>

-----------------------------------------------------------------------------
(* What blocks what.                                                       *)

InhibitorTypes == {"block", "delay", "suspend-only"}

\* A field of the hash is "absent", "garbled" if its value does not parse, or known
\* by the type in its value.
Unreadable == {"absent", "garbled"}

Targets == {"suspend", "hibernate"}

IsHibernatePath(target) == target = "hibernate"

Blocks(type, target) ==
    type = "block" \/ (type = "suspend-only" /\ ~IsHibernatePath(target))

\* Every connection is a block inhibitor.
HasBlockingInhibitors(target) ==
    \/ \E c \in inhibitors : Blocks("block", target)
    \/ \E i \in Ids : Blocks(manual[i], target)

-----------------------------------------------------------------------------
(* onInhibitorsChanged.                                                    *)

Callers == Conns \cup {"redis"}

\* GetInhibitors, as publishInhibitors names them: the connections share one name.
Summary == [connections |-> inhibitors # {}, manual |-> manual]

Summaries == [connections : BOOLEAN, manual : [Ids -> InhibitorTypes \cup {"absent"}]]

\* The steps of a call, and the summary it will publish; overtaken if another
\* call has read the inhibitors since.
Notes == [pc : {"idle", "read", "publish", "send"}, summary : Summaries,
          overtaken : BOOLEAN]

Nothing == [connections |-> FALSE, manual |-> [i \in Ids |-> "absent"]]

Idle == [pc |-> "idle", summary |-> Nothing, overtaken |-> FALSE]

\* The call that follows a change of the inhibitors.
Called == [Idle EXCEPT !.pc = "read"]

Silent(a) == note[a].pc = "idle"

Calls(a) == note' = [note EXCEPT ![a] = Called]

\* publishInhibitors reads the inhibitors under the lock.
GetInhibitors(a) ==
    /\ note[a].pc = "read"
    /\ note' = [b \in Callers |->
                  IF b = a THEN [pc |-> "publish", summary |-> Summary, overtaken |-> FALSE]
                  ELSE IF note[b].pc = "publish" THEN [note[b] EXCEPT !.overtaken = TRUE]
                  ELSE note[b]]
    /\ UNCHANGED <<connVars, manual, busy, hash, listener, fsm, left>>

\* ReplaceAll, without the lock; a failure is logged and forgotten.
ReplaceAll(a, ok) ==
    /\ note[a].pc = "publish"
    /\ ok \/ left.failures > 0
    /\ left' = IF ok THEN left ELSE [left EXCEPT !.failures = @ - 1]
    /\ note' = [note EXCEPT ![a] = [Idle EXCEPT !.pc = "send"]]
    /\ busy' = IF ok THEN [summary |-> note[a].summary, lags |-> note[a].overtaken]
               ELSE [busy EXCEPT !.lags = TRUE]
    /\ UNCHANGED <<connVars, manual, hash, listener, fsm>>

\* The event follows, unless there is no FSM yet.
SendInhibitorsChanged(a) ==
    /\ note[a].pc = "send"
    /\ note' = [note EXCEPT ![a] = Idle]
    /\ fsm' = [fsm EXCEPT !.event = @ \/ fsm.stage # "none"]
    /\ UNCHANGED <<connVars, manual, busy, hash, listener, left>>

onInhibitorsChanged(a) ==
    \/ GetInhibitors(a)
    \/ \E ok \in BOOLEAN : ReplaceAll(a, ok)
    \/ SendInhibitorsChanged(a)

-----------------------------------------------------------------------------
(* handleConnection.                                                       *)

\* external: a client connects and may go away at any time.
Connect(c) ==
    /\ handler[c] = "none" /\ Silent(c)
    /\ client' = [client EXCEPT ![c] = "open"]
    /\ handler' = [handler EXCEPT ![c] = "accepted"]
    /\ UNCHANGED <<inhibitors, manual, note, busy, hash, listener, fsm, left>>

Disconnect(c) ==
    /\ client[c] \in {"open", "acknowledged"}
    /\ client' = [client EXCEPT ![c] = "gone"]
    /\ UNCHANGED <<handler, inhibitors, manual, note, busy, hash, listener, fsm,
                   left>>

Register(c) ==
    /\ handler[c] = "accepted"
    /\ handler' = [handler EXCEPT ![c] = "registered"]
    /\ inhibitors' = inhibitors \cup {c}
    /\ UNCHANGED <<client, manual, note, busy, hash, listener, fsm, left>>

\* Mutant: a connection that has not been registered is acknowledged.
AcknowledgeableEarly == {"accepted", "registered"}

Acknowledgeable == {"registered"}

\* The acknowledgement, and the call that follows it.  A client that is gone does
\* not get it, though the write may succeed.
Acknowledge(c) ==
    /\ handler[c] \in Acknowledgeable /\ client[c] \in {"open", "gone"}
    /\ client' = [client EXCEPT ![c] = IF @ = "open" THEN "acknowledged" ELSE @]
    /\ handler' = [handler EXCEPT ![c] = "reading"]
    /\ Calls(c)
    /\ UNCHANGED <<inhibitors, manual, busy, hash, listener, fsm, left>>

\* The acknowledgement or a read fails; the deferred function takes the connection
\* out and calls.
Unregister(c) ==
    /\ handler[c] = "registered" \/ (handler[c] = "reading" /\ Silent(c))
    /\ client[c] = "gone" /\ client' = [client EXCEPT ![c] = "none"]
    /\ handler' = [handler EXCEPT ![c] = "none"]
    /\ inhibitors' = inhibitors \ {c}
    /\ Calls(c)
    /\ UNCHANGED <<manual, busy, hash, listener, fsm, left>>

handleConnection(c) == Register(c) \/ Acknowledge(c) \/ Unregister(c)

-----------------------------------------------------------------------------
(* The mirror of power:inhibits.                                           *)

\* external: a client changes a field of the hash, then publishes on the channel.
\* What is published before the listener subscribes is lost.
HashChanges(i, value) ==
    /\ left.changes > 0 /\ left' = [left EXCEPT !.changes = @ - 1]
    /\ hash.fields[i] # value
    /\ hash' = [hash EXCEPT !.fields[i] = value, !.owed = TRUE]
    /\ UNCHANGED <<connVars, manual, note, busy, listener, fsm>>

HashPublishes ==
    /\ hash.owed
    /\ hash' = [hash EXCEPT !.owed = FALSE, !.message = @ \/ listener.subscribed]
    /\ listener' = [listener EXCEPT !.missed = @ \/ ~listener.subscribed]
    /\ UNCHANGED <<connVars, manual, note, busy, fsm, left>>

\* syncRedisInhibitors reads the hash before it takes the lock; a read that fails
\* is not repeated.
SyncReads(ok) ==
    /\ listener.pc = "read"
    /\ ok \/ left.failures > 0
    /\ left' = IF ok THEN left ELSE [left EXCEPT !.failures = @ - 1]
    /\ listener' = IF ok THEN [listener EXCEPT !.pc = "apply", !.entries = hash.fields,
                                               !.missed = FALSE]
                   ELSE [listener EXCEPT !.pc = "next", !.missed = TRUE]
    /\ UNCHANGED <<connVars, manual, note, busy, hash, fsm>>

\* Mutant: a type is taken as it is written.
InhibitorTypeAsIs(value) == value

\* Whatever is not one of the other types is a block.
InhibitorType(value) == IF value \in {"delay", "suspend-only"} THEN value ELSE "block"

\* Mutant: an inhibitor that is known stays.
SyncedKeeping(i) ==
    IF manual[i] # "absent" THEN manual[i]
    ELSE IF listener.entries[i] \in Unreadable THEN "absent"
    ELSE InhibitorType(listener.entries[i])

\* An inhibitor that is known keeps its type.
Synced(i) ==
    IF listener.entries[i] \in Unreadable THEN "absent"
    ELSE IF manual[i] # "absent" THEN manual[i]
    ELSE InhibitorType(listener.entries[i])

\* Mutant: only an inhibitor that was added is a change.
ChangedByAdding(mirror) == \E i \in Ids : manual[i] = "absent" /\ mirror[i] # "absent"

Changed(mirror) == mirror # manual

NoEntries == [i \in Ids |-> "absent"]

SyncApplies ==
    LET mirror == [i \in Ids |-> Synced(i)]
    IN /\ listener.pc = "apply"
       /\ manual' = mirror
       /\ note' = [note EXCEPT !["redis"] = IF Changed(mirror) THEN Called ELSE @]
       /\ listener' = [listener EXCEPT !.pc = "next", !.entries = NoEntries]
       /\ UNCHANGED <<connVars, busy, hash, fsm, left>>

\* After the first synchronisation; a subscription that fails ends the listener.
Subscribe(ok) ==
    /\ listener.pc = "next" /\ Silent("redis") /\ ~listener.subscribed
    /\ ok \/ left.failures > 0
    /\ left' = IF ok THEN left ELSE [left EXCEPT !.failures = @ - 1]
    /\ listener' = IF ok THEN [listener EXCEPT !.subscribed = TRUE]
                   ELSE [listener EXCEPT !.pc = "failed"]
    /\ UNCHANGED <<connVars, manual, note, busy, hash, fsm>>

\* Messages are handled one at a time; those that are waiting count as one.
TakeMessage ==
    /\ listener.pc = "next" /\ Silent("redis") /\ listener.subscribed
    /\ hash.message
    /\ hash' = [hash EXCEPT !.message = FALSE]
    /\ listener' = [listener EXCEPT !.pc = "read"]
    /\ UNCHANGED <<connVars, manual, note, busy, fsm, left>>

\* The listener is started after the FSM.
StartRedisListener ==
    /\ fsm.stage # "none"
    /\ \/ \E ok \in BOOLEAN : SyncReads(ok) \/ Subscribe(ok)
       \/ SyncApplies \/ TakeMessage

-----------------------------------------------------------------------------
(* The FSM.                                                                *)

FsmMoves(next) ==
    /\ fsm' = next
    /\ UNCHANGED <<connVars, manual, note, busy, hash, listener, left>>

StartMachine == fsm.stage = "none" /\ FsmMoves([fsm EXCEPT !.stage = "elsewhere"])

\* Mutant: the state waits for a change even if nothing blocks.
EntryEventNever(target) == FALSE

\* An entry that finds nothing blocking sends the event itself.
EntryEvent(target) == ~HasBlockingInhibitors(target)

EnterWaitingInhibitors(target) ==
    /\ fsm.stage = "elsewhere"
    /\ FsmMoves([stage |-> "waiting", target |-> target,
                 event |-> fsm.event \/ EntryEvent(target)])

\* More than one event may be waiting.
InhibitorsChanged ==
    /\ fsm.event /\ fsm.stage \in {"elsewhere", "waiting", "issuing"}
    /\ \E more \in BOOLEAN :
          FsmMoves([fsm EXCEPT !.event = more,
                               !.stage = IF @ = "waiting" /\ ~HasBlockingInhibitors(fsm.target)
                                         THEN "issuing" ELSE @])

\* Any other event of the FSM, its timeout included: see PowerManager.
LeaveWaiting ==
    /\ fsm.stage \in {"waiting", "issuing"}
    /\ FsmMoves([fsm EXCEPT !.stage = "elsewhere", !.target = "suspend"])

-----------------------------------------------------------------------------
Init ==
    /\ client = [c \in Conns |-> "none"] /\ handler = [c \in Conns |-> "none"]
    /\ inhibitors = {} /\ manual = NoEntries
    /\ note = [a \in Callers |-> Idle]
    /\ busy = [summary |-> Summary, lags |-> FALSE]
    /\ \E fields \in [Ids -> HashValues] :
          hash = [fields |-> fields, owed |-> FALSE, message |-> FALSE]
    /\ listener = [pc |-> "read", subscribed |-> FALSE, entries |-> NoEntries,
                   missed |-> FALSE]
    /\ fsm = [stage |-> "none", target |-> "suspend", event |-> FALSE]
    /\ left = [changes |-> MaxChanges, failures |-> MaxFailures]

Next ==
    \/ \E a \in Callers : onInhibitorsChanged(a)
    \/ \E c \in Conns : Connect(c) \/ Disconnect(c) \/ handleConnection(c)
    \/ \E i \in Ids, value \in HashValues : HashChanges(i, value)
    \/ HashPublishes \/ StartRedisListener
    \/ StartMachine \/ InhibitorsChanged \/ LeaveWaiting
    \/ \E target \in Targets : EnterWaitingInhibitors(target)

\* The Go scheduler runs every goroutine that can go on, and the FSM takes the
\* events that are queued.
Fairness ==
    /\ \A a \in Callers : WF_vars(onInhibitorsChanged(a))
    /\ WF_vars(InhibitorsChanged)

Spec == Init /\ [][Next]_vars /\ Fairness

-----------------------------------------------------------------------------
TypeOK ==
    /\ client \in [Conns -> {"none", "open", "acknowledged", "gone"}]
    /\ handler \in [Conns -> {"none", "accepted", "registered", "reading"}]
    /\ inhibitors \subseteq Conns
    /\ manual \in [Ids -> InhibitorTypes \cup {"absent"}]
    /\ note \in [Callers -> Notes]
    /\ busy \in [summary : Summaries, lags : BOOLEAN]
    /\ hash \in [fields : [Ids -> HashValues], owed : BOOLEAN, message : BOOLEAN]
    /\ listener \in [pc : {"read", "apply", "next", "failed"}, subscribed : BOOLEAN,
                     entries : [Ids -> HashValues], missed : BOOLEAN]
    /\ fsm \in [stage : {"none", "elsewhere", "waiting", "issuing"},
                target : Targets, event : BOOLEAN]
    /\ left \in [changes : 0 .. MaxChanges, failures : 0 .. MaxFailures]

\* A client that has its acknowledgement, and so may be doing what must not be
\* interrupted, blocks every target until it disconnects (inhibitor.go:111, "The
\* client may start its protected work").
ProtectedWorkBlocks ==
    \A c \in Conns : client[c] = "acknowledged" =>
        \A target \in Targets : HasBlockingInhibitors(target)

\* Every change of power:inhibits has been published, and every message handled.
HashSettled ==
    /\ listener.pc = "next" /\ listener.subscribed
    /\ ~hash.owed /\ ~hash.message

\* The mirror has an inhibitor for the fields that parse, and for no others.
MirrorHasFields == \A i \in Ids : manual[i] = "absent" <=> hash.fields[i] \in Unreadable

\* Once the hash has settled, every field that parses is mirrored and every other
\* is gone from the mirror, whatever changed while the hash was read and applied,
\* provided that the last publication found the subscription in place and that
\* the last read succeeded (redis.go:43).  It says nothing of the types.
MirrorTracksFields == HashSettled /\ ~listener.missed => MirrorHasFields

\* Every change has been announced by a call of onInhibitorsChanged.
Announced ==
    /\ \A a \in Callers : Silent(a)
    /\ \A c \in Conns : handler[c] # "registered"

\* When every change has been announced, the published busy services are the
\* inhibitors that are held, provided that the last publication neither failed nor
\* was one overtaken by a later reading (service.go:1997).
BusyServicesAreCurrent == Announced /\ ~busy.lags => busy.summary = Summary

Gate == INSTANCE InhibitorGate WITH
            stage <- fsm.stage, target <- fsm.target,
            blocked <- {t \in Targets : HasBlockingInhibitors(t)}

\* By its event inhibitors-changed the FSM goes on to issuing-low-power only when
\* nothing blocks its target, and it does go on when nothing does: every change
\* that frees it is followed by an event (definition.go:359; the timeout past the
\* modem is part of PowerManager).
GatesTheFSM == Gate!Spec

-----------------------------------------------------------------------------
(* Claims that the code does not keep.                                     *)

\* redis.go:43: synchronisation makes the manual inhibitors of Redis authoritative.
\* So once the hash has settled and was read, every inhibitor has the type its
\* field asks for.
MirrorIsAuthoritative ==
    HashSettled /\ ~listener.missed =>
        \A i \in Ids : manual[i] = IF hash.fields[i] \in Unreadable THEN "absent"
                                   ELSE InhibitorType(hash.fields[i])
=============================================================================
