--------------------------- MODULE InhibitorProofs ---------------------------
(***************************************************************************)
(* Proofs about the inhibitor manager, for any number of connections and   *)
(* manual inhibitors, and any number of changes and failures.              *)
(***************************************************************************)
EXTENDS Inhibitors, TLAPS

-----------------------------------------------------------------------------
(* The inductive invariant.                                                *)

\* A client has its acknowledgement only while its connection is being read, and
\* every connection that is past its registration is registered.
ConnInv ==
    \A c \in Conns :
        /\ client[c] = "acknowledged" => handler[c] = "reading"
        /\ c \in inhibitors <=> handler[c] \in {"registered", "reading"}

\* The mirror holds the fields that parse.
Mirrors(fields) == \A i \in Ids : manual[i] = "absent" <=> fields[i] \in Unreadable

\* While no publication is owed or waiting, what was read of the hash is the hash.
MirrorInv ==
    ~listener.missed /\ ~hash.owed /\ ~hash.message =>
        /\ listener.pc = "apply" => listener.entries = hash.fields
        /\ listener.pc = "next" => Mirrors(hash.fields)

\* A change has not been read yet by a caller of onInhibitorsChanged: the caller
\* is about to, or will be called.
Pending ==
    \/ \E a \in Callers : note[a].pc = "read"
    \/ \E c \in Conns : handler[c] = "registered"

\* The caller that read the inhibitors last and has not published them.
Latest(a) == note[a].pc = "publish" /\ ~note[a].overtaken

\* Once every change has been read, the caller that read last holds the
\* inhibitors, and what it has published is the inhibitors.
AnnounceInv ==
    ~Pending =>
        /\ \A a \in Callers : Latest(a) => note[a].summary = Summary
        /\ ~busy.lags /\ (\A a \in Callers : ~Latest(a)) => busy.summary = Summary

IInv == TypeOK /\ ConnInv /\ MirrorInv /\ AnnounceInv

-----------------------------------------------------------------------------
(* The pieces of the state.                                                *)

\* A note that has been called, is idle, or carries a summary is a note.
LEMMA NotesTyped ==
    ASSUME TypeOK
    PROVE  /\ Idle \in Notes /\ Called \in Notes /\ Summary \in Summaries
           /\ Idle.pc = "idle" /\ Called.pc = "read"
           /\ NoEntries \in [Ids -> HashValues]
<1>1. Nothing \in Summaries
  BY DEF Nothing, Summaries
<1>2. Idle \in Notes /\ Idle.pc = "idle"
  BY <1>1 DEF Idle, Notes
<1>3. Called \in Notes /\ Called.pc = "read"
  BY <1>2 DEF Called, Notes
<1>4. Summary \in Summaries
  BY DEF Summary, Summaries, TypeOK
<1>5. NoEntries \in [Ids -> HashValues]
  BY InhibitorAssumption DEF NoEntries
<1> QED
  BY <1>2, <1>3, <1>4, <1>5

\* A call leaves a pending note, and changes no other.
LEMMA CallPends ==
    ASSUME TypeOK, NEW a \in Callers, Calls(a)
    PROVE  /\ note' \in [Callers -> Notes]
           /\ \E b \in Callers : note'[b].pc = "read"
<1>1. Called \in Notes /\ Called.pc = "read"
  BY NotesTyped
<1>2. note' = [note EXCEPT ![a] = Called] /\ note \in [Callers -> Notes]
  BY DEF Calls, TypeOK
<1>3. note'[a] = Called
  BY <1>2
<1> QED
  BY <1>1, <1>2, <1>3

\* What the mirror becomes.
LEMMA SyncedTyped ==
    ASSUME TypeOK, NEW i \in Ids
    PROVE  /\ Synced(i) \in InhibitorTypes \cup {"absent"}
           /\ Synced(i) = "absent" <=> listener.entries[i] \in Unreadable
<1>1. InhibitorType(listener.entries[i]) \in InhibitorTypes
  BY DEF InhibitorType, InhibitorTypes
<1>2. manual[i] \in InhibitorTypes \cup {"absent"}
  BY DEF TypeOK
<1>3. "absent" \notin InhibitorTypes
  BY DEF InhibitorTypes
<1> QED
  BY <1>1, <1>2, <1>3 DEF Synced

\* The manual inhibitors and the connections make up what is published.
LEMMA SummaryFrame ==
    UNCHANGED <<inhibitors, manual>> => Summary' = Summary
BY DEF Summary

-----------------------------------------------------------------------------
(* The invariant, action by action.                                        *)

\* The connections are left alone by whoever does not handle one,
LEMMA ConnFrame ==
    ASSUME ConnInv, UNCHANGED connVars
    PROVE  ConnInv'
BY DEF ConnInv, connVars

\* the mirror by whoever is not the listener,
LEMMA MirrorFrame ==
    ASSUME MirrorInv, UNCHANGED <<manual, hash, listener>>
    PROVE  MirrorInv'
BY DEF MirrorInv, Mirrors

\* and what is announced by whoever changes no inhibitor.
LEMMA AnnounceFrame ==
    ASSUME AnnounceInv, UNCHANGED <<note, busy, manual, inhibitors, handler>>
    PROVE  AnnounceInv'
<1>1. Summary' = Summary
  BY SummaryFrame
<1> QED
  BY <1>1 DEF AnnounceInv, Pending, Latest

\* Whoever calls onInhibitorsChanged will announce the change.
LEMMA AnnouncePending ==
    Pending' => AnnounceInv'
BY DEF AnnounceInv

\* A caller reads the inhibitors: it has the latest word, and every other caller
\* that has read has been overtaken.
LEMMA GetInhibitorsInv ==
    ASSUME IInv, NEW a \in Callers, GetInhibitors(a)
    PROVE  IInv'
<1> DEFINE n == [pc |-> "publish", summary |-> Summary, overtaken |-> FALSE]
<1>t. TypeOK /\ note \in [Callers -> Notes]
  BY DEF IInv, TypeOK
<1>a. /\ note' = [b \in Callers |->
                    IF b = a THEN n
                    ELSE IF note[b].pc = "publish" THEN [note[b] EXCEPT !.overtaken = TRUE]
                    ELSE note[b]]
      /\ UNCHANGED <<connVars, manual, busy, hash, listener, fsm, left>>
  BY DEF GetInhibitors
<1>1. n \in Notes /\ n.summary = Summary /\ n.pc = "publish"
  BY <1>t, NotesTyped DEF Notes
<1>2. ASSUME NEW b \in Callers
      PROVE  /\ [note[b] EXCEPT !.overtaken = TRUE] \in Notes
             /\ [note[b] EXCEPT !.overtaken = TRUE].overtaken = TRUE
  <2>1. note[b] \in Notes
    BY <1>t
  <2> QED
    BY <2>1 DEF Notes
<1>3. TypeOK'
  <2>1. note' \in [Callers -> Notes]
    <3> HIDE DEF n
    <3> QED
      BY <1>a, <1>1, <1>2, <1>t
  <2> QED
    BY <1>a, <2>1, <1>t DEF TypeOK, connVars
<1>4. AnnounceInv'
  <2>1. Summary' = Summary
    BY <1>a, SummaryFrame DEF connVars
  <2> HIDE DEF n
  <2>2. note'[a] = n
    BY <1>a
  <2>3. Latest(a)' /\ note'[a].summary = Summary'
    BY <2>1, <2>2, <1>1 DEF Latest, n
  <2>4. ASSUME NEW b \in Callers, b # a
        PROVE  ~Latest(b)'
    <3>1. CASE note[b].pc = "publish"
      BY <1>a, <2>4, <3>1, <1>2 DEF Latest
    <3>2. CASE note[b].pc # "publish"
      BY <1>a, <2>4, <3>2 DEF Latest
    <3> QED
      BY <3>1, <3>2
  <2> QED
    BY <2>3, <2>4 DEF AnnounceInv
<1> QED
  BY <1>a, <1>3, <1>4, ConnFrame, MirrorFrame DEF IInv, connVars

\* A caller publishes what it read; what an overtaken caller publishes may lag.
LEMMA ReplaceAllInv ==
    ASSUME IInv, NEW a \in Callers, NEW ok \in BOOLEAN, ReplaceAll(a, ok)
    PROVE  IInv'
<1> DEFINE n == [Idle EXCEPT !.pc = "send"]
<1>t. TypeOK /\ note \in [Callers -> Notes] /\ note[a] \in Notes
  BY DEF IInv, TypeOK
<1>a. /\ note[a].pc = "publish" /\ note' = [note EXCEPT ![a] = n]
      /\ busy' = IF ok THEN [summary |-> note[a].summary, lags |-> note[a].overtaken]
                 ELSE [busy EXCEPT !.lags = TRUE]
      /\ left' = left \/ (left.failures > 0 /\ left' = [left EXCEPT !.failures = @ - 1])
      /\ UNCHANGED <<connVars, manual, hash, listener, fsm>>
  BY DEF ReplaceAll
<1>i. n \in Notes /\ n.pc = "send"
  BY <1>t, NotesTyped DEF Notes
<1> HIDE DEF n
<1>b. /\ busy' \in [summary : Summaries, lags : BOOLEAN]
      /\ busy'.lags \/ (busy'.summary = note[a].summary /\ ~note[a].overtaken)
  <2>1. CASE ok
    BY <1>a, <1>t, <2>1 DEF Notes
  <2>2. CASE ~ok
    <3>1. busy' = [busy EXCEPT !.lags = TRUE] /\ busy \in [summary : Summaries, lags : BOOLEAN]
      BY <1>a, <2>2, <1>t DEF TypeOK
    <3> QED
      BY <3>1
  <2> QED
    BY <2>1, <2>2
<1>1. TypeOK'
  <2>1. note' \in [Callers -> Notes]
    BY <1>a, <1>i, <1>t
  <2>3. left' \in [changes : 0 .. MaxChanges, failures : 0 .. MaxFailures]
    BY <1>a, <1>t, InhibitorAssumption DEF TypeOK
  <2> QED
    BY <1>a, <1>b, <1>t, <2>1, <2>3 DEF TypeOK, connVars
<1>2. AnnounceInv'
  <2>1. Summary' = Summary
    BY <1>a, SummaryFrame DEF connVars
  <2>2. note'[a] = n /\ \A b \in Callers : b # a => note'[b] = note[b]
    BY <1>a, <1>t
  <2>3. Pending' <=> Pending
    BY <2>2, <1>a, <1>i DEF Pending, connVars
  <2>4. ~Latest(a)' /\ \A b \in Callers : b # a => (Latest(b)' <=> Latest(b))
    BY <2>2, <1>i DEF Latest
  <2>5. ~Pending /\ ~busy'.lags => busy'.summary = Summary
    BY <1>a, <1>b DEF IInv, AnnounceInv, Latest
  <2>6. ~Pending => \A b \in Callers : Latest(b)' => note'[b].summary = Summary
    BY <2>2, <2>4 DEF IInv, AnnounceInv
  <2> QED
    BY <2>1, <2>3, <2>5, <2>6 DEF AnnounceInv
<1> QED
  BY <1>a, <1>1, <1>2, ConnFrame, MirrorFrame DEF IInv, connVars

\* The event that follows changes no inhibitor.
LEMMA SendChangedInv ==
    ASSUME IInv, NEW a \in Callers, SendInhibitorsChanged(a)
    PROVE  IInv'
<1>t. TypeOK /\ note \in [Callers -> Notes] /\ note[a] \in Notes
  BY DEF IInv, TypeOK
<1>a. /\ note[a].pc = "send" /\ note' = [note EXCEPT ![a] = Idle]
      /\ fsm' = [fsm EXCEPT !.event = @ \/ fsm.stage # "none"]
      /\ UNCHANGED <<connVars, manual, busy, hash, listener, left>>
  BY DEF SendInhibitorsChanged
<1>i. Idle \in Notes /\ Idle.pc = "idle"
  BY <1>t, NotesTyped
<1>1. TypeOK'
  <2>1. note' \in [Callers -> Notes]
    BY <1>a, <1>i, <1>t
  <2>2. fsm' \in [stage : {"none", "elsewhere", "waiting", "issuing"},
                  target : Targets, event : BOOLEAN]
    BY <1>a, <1>t DEF TypeOK
  <2> QED
    BY <1>a, <1>t, <2>1, <2>2 DEF TypeOK, connVars
<1>2. AnnounceInv'
  <2>1. Summary' = Summary
    BY <1>a, SummaryFrame DEF connVars
  <2>2. note'[a] = Idle /\ \A b \in Callers : b # a => note'[b] = note[b]
    BY <1>a, <1>t
  <2>3. Pending' <=> Pending
    BY <2>2, <1>a, <1>i DEF Pending, connVars
  <2>4. /\ ~Latest(a)' /\ ~Latest(a)
        /\ \A b \in Callers : b # a => (Latest(b)' <=> Latest(b))
    BY <2>2, <1>a, <1>i DEF Latest
  <2> QED
    BY <1>a, <2>1, <2>2, <2>3, <2>4 DEF IInv, AnnounceInv
<1> QED
  BY <1>a, <1>1, <1>2, ConnFrame, MirrorFrame DEF IInv, connVars

\* A connection comes, is registered, is acknowledged, goes away.
LEMMA ConnectionInv ==
    ASSUME IInv, NEW c \in Conns, Connect(c) \/ Disconnect(c) \/ handleConnection(c)
    PROVE  IInv'
<1>t. /\ TypeOK /\ c \in Callers
      /\ client \in [Conns -> {"none", "open", "acknowledged", "gone"}]
      /\ handler \in [Conns -> {"none", "accepted", "registered", "reading"}]
      /\ inhibitors \subseteq Conns
  BY DEF IInv, TypeOK, Callers
<1>m. MirrorInv'
  BY MirrorFrame DEF IInv, Connect, Disconnect, handleConnection, Register, Acknowledge, Unregister
<1>u. UNCHANGED <<manual, busy, hash, listener, fsm, left>>
  BY DEF Connect, Disconnect, handleConnection, Register, Acknowledge, Unregister
<1>1. CASE Connect(c)
  <2>1. /\ handler[c] = "none" /\ handler' = [handler EXCEPT ![c] = "accepted"]
        /\ client' = [client EXCEPT ![c] = "open"] /\ UNCHANGED <<note, inhibitors>>
    BY <1>1 DEF Connect
  <2>2. TypeOK' /\ ConnInv'
    BY <1>t, <1>u, <2>1 DEF TypeOK, IInv, ConnInv
  <2>3. Pending' <=> Pending
    BY <1>t, <2>1 DEF Pending
  <2>4. AnnounceInv'
    BY <1>u, <2>1, <2>3, SummaryFrame DEF IInv, AnnounceInv, Latest
  <2> QED
    BY <1>m, <2>2, <2>4 DEF IInv
<1>2. CASE Disconnect(c)
  <2>1. /\ client' = [client EXCEPT ![c] = "gone"] /\ UNCHANGED <<handler, note, inhibitors>>
    BY <1>2 DEF Disconnect
  <2>2. TypeOK' /\ ConnInv'
    BY <1>t, <1>u, <2>1 DEF TypeOK, IInv, ConnInv
  <2> QED
    BY <1>m, <1>u, <2>1, <2>2, AnnounceFrame DEF IInv
<1>3. CASE Register(c)
  <2>1. /\ handler[c] = "accepted" /\ handler' = [handler EXCEPT ![c] = "registered"]
        /\ inhibitors' = inhibitors \cup {c} /\ UNCHANGED <<client, note>>
    BY <1>3 DEF Register
  <2>2. TypeOK' /\ ConnInv'
    BY <1>t, <1>u, <2>1 DEF TypeOK, IInv, ConnInv
  <2>3. Pending'
    BY <1>t, <2>1 DEF Pending
  <2> QED
    BY <1>m, <2>2, <2>3, AnnouncePending DEF IInv
<1>4. CASE Acknowledge(c)
  <2>1. /\ handler[c] = "registered" /\ handler' = [handler EXCEPT ![c] = "reading"]
        /\ client' = [client EXCEPT ![c] = IF @ = "open" THEN "acknowledged" ELSE @]
        /\ Calls(c) /\ UNCHANGED inhibitors
    BY <1>4 DEF Acknowledge, Acknowledgeable
  <2>2. note' \in [Callers -> Notes] /\ Pending'
    BY <1>t, <2>1, CallPends DEF Pending
  <2>3. TypeOK' /\ ConnInv'
    BY <1>t, <1>u, <2>1, <2>2 DEF TypeOK, IInv, ConnInv
  <2> QED
    BY <1>m, <2>2, <2>3, AnnouncePending DEF IInv
<1>5. CASE Unregister(c)
  <2>1. /\ handler' = [handler EXCEPT ![c] = "none"] /\ client' = [client EXCEPT ![c] = "none"]
        /\ inhibitors' = inhibitors \ {c} /\ Calls(c)
    BY <1>5 DEF Unregister
  <2>2. note' \in [Callers -> Notes] /\ Pending'
    BY <1>t, <2>1, CallPends DEF Pending
  <2>3. TypeOK' /\ ConnInv'
    BY <1>t, <1>u, <2>1, <2>2 DEF TypeOK, IInv, ConnInv
  <2> QED
    BY <1>m, <2>2, <2>3, AnnouncePending DEF IInv
<1> QED
  BY <1>1, <1>2, <1>3, <1>4, <1>5 DEF handleConnection

\* A client changes the hash and publishes: until the message is handled, or has
\* been missed, the mirror owes nothing.
LEMMA HashInv ==
    ASSUME IInv, HashPublishes \/ \E i \in Ids, value \in HashValues : HashChanges(i, value)
    PROVE  IInv'
<1>t. /\ TypeOK
      /\ hash \in [fields : [Ids -> HashValues], owed : BOOLEAN, message : BOOLEAN]
      /\ listener \in [pc : {"read", "apply", "next", "failed"}, subscribed : BOOLEAN,
                       entries : [Ids -> HashValues], missed : BOOLEAN]
      /\ left \in [changes : 0 .. MaxChanges, failures : 0 .. MaxFailures]
  BY DEF IInv, TypeOK
<1>1. ASSUME NEW i \in Ids, NEW value \in HashValues, HashChanges(i, value)
      PROVE  IInv'
  <2>1. /\ hash' = [hash EXCEPT !.fields[i] = value, !.owed = TRUE]
        /\ left.changes > 0 /\ left' = [left EXCEPT !.changes = @ - 1]
        /\ UNCHANGED <<connVars, manual, note, busy, listener, fsm>>
    BY <1>1 DEF HashChanges
  <2>2. /\ hash' \in [fields : [Ids -> HashValues], owed : BOOLEAN, message : BOOLEAN]
        /\ hash'.owed
    BY <1>t, <2>1
  <2>3. left' \in [changes : 0 .. MaxChanges, failures : 0 .. MaxFailures]
    BY <1>t, <2>1, InhibitorAssumption
  <2>4. TypeOK'
    BY <1>t, <2>1, <2>2, <2>3 DEF TypeOK, connVars
  <2>5. MirrorInv'
    BY <2>2 DEF MirrorInv
  <2> QED
    BY <2>1, <2>4, <2>5, ConnFrame, AnnounceFrame DEF IInv, connVars
<1>2. CASE HashPublishes
  <2>1. /\ hash' = [hash EXCEPT !.owed = FALSE, !.message = @ \/ listener.subscribed]
        /\ listener' = [listener EXCEPT !.missed = @ \/ ~listener.subscribed]
        /\ UNCHANGED <<connVars, manual, note, busy, fsm, left>>
    BY <1>2 DEF HashPublishes
  <2>2. /\ hash' \in [fields : [Ids -> HashValues], owed : BOOLEAN, message : BOOLEAN]
        /\ hash'.message <=> hash.message \/ listener.subscribed
    BY <1>t, <2>1
  <2>3. /\ listener' \in [pc : {"read", "apply", "next", "failed"}, subscribed : BOOLEAN,
                          entries : [Ids -> HashValues], missed : BOOLEAN]
        /\ listener'.missed <=> listener.missed \/ ~listener.subscribed
    BY <1>t, <2>1
  <2>4. TypeOK'
    BY <1>t, <2>1, <2>2, <2>3 DEF TypeOK, connVars
  <2>5. MirrorInv'
    BY <2>2, <2>3 DEF MirrorInv
  <2> QED
    BY <2>1, <2>4, <2>5, ConnFrame, AnnounceFrame DEF IInv, connVars
<1> QED
  BY <1>1, <1>2

\* The listener reads the hash, subscribes, takes a message and applies what it
\* has read.
LEMMA ListenerInv ==
    ASSUME IInv, StartRedisListener
    PROVE  IInv'
<1> DEFINE Listeners == [pc : {"read", "apply", "next", "failed"}, subscribed : BOOLEAN,
                         entries : [Ids -> HashValues], missed : BOOLEAN]
           Lefts == [changes : 0 .. MaxChanges, failures : 0 .. MaxFailures]
<1>t. /\ TypeOK /\ listener \in Listeners /\ left \in Lefts
      /\ hash \in [fields : [Ids -> HashValues], owed : BOOLEAN, message : BOOLEAN]
      /\ NoEntries \in [Ids -> HashValues] /\ "redis" \in Callers
  BY NotesTyped DEF IInv, TypeOK, Callers
<1>f. left.failures > 0 /\ left' = [left EXCEPT !.failures = @ - 1] => left' \in Lefts
  BY <1>t, InhibitorAssumption
<1>1. ASSUME NEW ok \in BOOLEAN, SyncReads(ok) PROVE IInv'
  <2>1. /\ UNCHANGED <<connVars, manual, note, busy, hash, fsm>> /\ left' \in Lefts
        /\ \/ listener' = [listener EXCEPT !.pc = "apply", !.entries = hash.fields,
                                           !.missed = FALSE]
           \/ listener' = [listener EXCEPT !.pc = "next", !.missed = TRUE]
    BY <1>1, <1>f, <1>t DEF SyncReads
  <2>2. /\ listener' \in Listeners
        /\ \/ listener'.missed
           \/ listener'.pc = "apply" /\ listener'.entries = hash.fields
    BY <1>t, <2>1
  <2>3. TypeOK'
    BY <1>t, <2>1, <2>2 DEF TypeOK, connVars
  <2>4. MirrorInv'
    BY <2>1, <2>2 DEF MirrorInv
  <2> QED
    BY <2>1, <2>3, <2>4, ConnFrame, AnnounceFrame DEF IInv, connVars
<1>2. ASSUME NEW ok \in BOOLEAN, Subscribe(ok) PROVE IInv'
  <2>1. /\ UNCHANGED <<connVars, manual, note, busy, hash, fsm>> /\ left' \in Lefts
        /\ \/ listener' = [listener EXCEPT !.subscribed = TRUE]
           \/ listener' = [listener EXCEPT !.pc = "failed"]
    BY <1>2, <1>f, <1>t DEF Subscribe
  <2>2. /\ listener' \in Listeners /\ listener'.missed = listener.missed
        /\ listener'.entries = listener.entries /\ listener'.pc \in {listener.pc, "failed"}
    BY <1>t, <2>1
  <2>3. TypeOK'
    BY <1>t, <2>1, <2>2 DEF TypeOK, connVars
  <2>4. MirrorInv'
    BY <2>1, <2>2 DEF IInv, MirrorInv, Mirrors
  <2> QED
    BY <2>1, <2>3, <2>4, ConnFrame, AnnounceFrame DEF IInv, connVars
<1>3. CASE TakeMessage
  <2>1. /\ UNCHANGED <<connVars, manual, note, busy, fsm, left>>
        /\ hash' = [hash EXCEPT !.message = FALSE]
        /\ listener' = [listener EXCEPT !.pc = "read"]
    BY <1>3 DEF TakeMessage
  <2>2. listener' \in Listeners /\ listener'.pc = "read"
    BY <1>t, <2>1
  <2>3. TypeOK'
    BY <1>t, <2>1, <2>2 DEF TypeOK, connVars
  <2>4. MirrorInv'
    BY <2>2 DEF MirrorInv
  <2> QED
    BY <2>1, <2>3, <2>4, ConnFrame, AnnounceFrame DEF IInv, connVars
<1>4. CASE SyncApplies
  <2> DEFINE mirror == [i \in Ids |-> Synced(i)]
  <2>1. /\ listener.pc = "apply" /\ manual' = mirror
        /\ note' = [note EXCEPT !["redis"] = IF Changed(mirror) THEN Called ELSE @]
        /\ listener' = [listener EXCEPT !.pc = "next", !.entries = NoEntries]
        /\ UNCHANGED <<connVars, busy, hash, fsm, left>>
    BY <1>4 DEF SyncApplies
  <2>2. /\ mirror \in [Ids -> InhibitorTypes \cup {"absent"}]
        /\ \A i \in Ids : mirror[i] = "absent" <=> listener.entries[i] \in Unreadable
    BY <1>t, SyncedTyped
  <2> HIDE DEF mirror
  <2>3. listener' \in Listeners /\ listener'.missed = listener.missed /\ listener'.pc = "next"
    BY <1>t, <2>1
  <2>4. note \in [Callers -> Notes] /\ Called \in Notes /\ Called.pc = "read"
    BY <1>t, NotesTyped DEF TypeOK
  <2>5. note' \in [Callers -> Notes]
    BY <1>t, <2>1, <2>4
  <2>6. TypeOK'
    BY <1>t, <2>1, <2>2, <2>3, <2>5 DEF TypeOK, connVars
  <2>7. MirrorInv'
    BY <2>1, <2>2, <2>3 DEF IInv, MirrorInv, Mirrors
  <2>8. CASE mirror = manual
    <3>1. note' = note
      BY <1>t, <2>1, <2>4, <2>8 DEF Changed
    <3> QED
      BY <2>1, <2>6, <2>7, <2>8, <3>1, ConnFrame, AnnounceFrame DEF IInv, connVars
  <2>9. CASE mirror # manual
    <3>1. note'["redis"] = Called
      BY <1>t, <2>1, <2>4, <2>9 DEF Changed
    <3>2. Pending'
      BY <1>t, <3>1, <2>4 DEF Pending
    <3> QED
      BY <2>1, <2>6, <2>7, <3>2, ConnFrame, AnnouncePending DEF IInv
  <2> QED
    BY <2>8, <2>9
<1> QED
  BY <1>1, <1>2, <1>3, <1>4 DEF StartRedisListener

\* The FSM only looks at the inhibitors.
LEMMA MachineInv ==
    ASSUME IInv,
           \/ StartMachine \/ InhibitorsChanged \/ LeaveWaiting
           \/ \E target \in Targets : EnterWaitingInhibitors(target)
    PROVE  IInv'
<1> DEFINE Machines == [stage : {"none", "elsewhere", "waiting", "issuing"},
                        target : Targets, event : BOOLEAN]
<1>t. TypeOK /\ fsm \in Machines /\ "suspend" \in Targets
  BY DEF IInv, TypeOK, Targets
<1>1. UNCHANGED <<connVars, manual, note, busy, hash, listener, left>>
  BY DEF StartMachine, InhibitorsChanged, LeaveWaiting, EnterWaitingInhibitors, FsmMoves
<1>2. fsm' \in Machines
  <2>1. CASE StartMachine
    BY <1>t, <2>1 DEF StartMachine, FsmMoves
  <2>2. CASE InhibitorsChanged
    BY <1>t, <2>2 DEF InhibitorsChanged, FsmMoves
  <2>3. CASE LeaveWaiting
    BY <1>t, <2>3 DEF LeaveWaiting, FsmMoves
  <2>4. ASSUME NEW target \in Targets, EnterWaitingInhibitors(target) PROVE fsm' \in Machines
    <3>1. fsm' = [stage |-> "waiting", target |-> target,
                  event |-> fsm.event \/ EntryEvent(target)]
      BY <2>4 DEF EnterWaitingInhibitors, FsmMoves
    <3>2. (fsm.event \/ EntryEvent(target)) \in BOOLEAN
      BY <1>t
    <3> QED
      BY <3>1, <3>2
  <2> QED
    BY <2>1, <2>2, <2>3, <2>4
<1>3. TypeOK'
  BY <1>t, <1>1, <1>2 DEF TypeOK, connVars
<1> QED
  BY <1>1, <1>3, ConnFrame, MirrorFrame, AnnounceFrame DEF IInv, connVars

\* Before anything has happened nobody is registered and nothing is mirrored.
LEMMA InitInv == Init => IInv
<1> SUFFICES ASSUME Init PROVE IInv
  OBVIOUS
<1>a. /\ client = [c \in Conns |-> "none"] /\ handler = [c \in Conns |-> "none"]
      /\ inhibitors = {} /\ manual = NoEntries /\ note = [a \in Callers |-> Idle]
      /\ busy = [summary |-> Summary, lags |-> FALSE]
      /\ \E fields \in [Ids -> HashValues] :
            hash = [fields |-> fields, owed |-> FALSE, message |-> FALSE]
      /\ listener = [pc |-> "read", subscribed |-> FALSE, entries |-> NoEntries,
                     missed |-> FALSE]
      /\ fsm = [stage |-> "none", target |-> "suspend", event |-> FALSE]
      /\ left = [changes |-> MaxChanges, failures |-> MaxFailures]
  BY DEF Init
<1>1. manual \in [Ids -> InhibitorTypes \cup {"absent"}] /\ NoEntries \in [Ids -> HashValues]
  BY <1>a, InhibitorAssumption DEF NoEntries
<1>2. Nothing \in Summaries
  BY DEF Nothing, Summaries
<1>3. Idle \in Notes /\ Idle.pc = "idle"
  BY <1>2 DEF Idle, Notes
<1>4. Summary \in Summaries
  BY <1>1 DEF Summary, Summaries
<1>5. TypeOK
  <2>1. note \in [Callers -> Notes]
    BY <1>a, <1>3
  <2>2. busy \in [summary : Summaries, lags : BOOLEAN]
    BY <1>a, <1>4
  <2>3. hash \in [fields : [Ids -> HashValues], owed : BOOLEAN, message : BOOLEAN]
    BY <1>a
  <2>4. listener \in [pc : {"read", "apply", "next", "failed"}, subscribed : BOOLEAN,
                      entries : [Ids -> HashValues], missed : BOOLEAN]
    BY <1>a, <1>1
  <2>5. fsm \in [stage : {"none", "elsewhere", "waiting", "issuing"},
                 target : Targets, event : BOOLEAN]
    BY <1>a DEF Targets
  <2>6. left \in [changes : 0 .. MaxChanges, failures : 0 .. MaxFailures]
    BY <1>a, InhibitorAssumption
  <2> QED
    BY <1>a, <1>1, <2>1, <2>2, <2>3, <2>4, <2>5, <2>6 DEF TypeOK
<1>6. ConnInv
  BY <1>a DEF ConnInv
<1>7. MirrorInv
  BY <1>a DEF MirrorInv
<1>8. AnnounceInv
  BY <1>a, <1>3 DEF AnnounceInv, Latest
<1> QED
  BY <1>5, <1>6, <1>7, <1>8 DEF IInv

\* Every interleaving of the connections, the listener and the callers of
\* onInhibitorsChanged keeps the invariant.
THEOREM InhibitorInvariant == Spec => []IInv
<1>1. IInv /\ [Next]_vars => IInv'
  <2> SUFFICES ASSUME IInv, [Next]_vars PROVE IInv'
    OBVIOUS
  <2>1. CASE UNCHANGED vars
    <3>1. TypeOK'
      BY <2>1 DEF vars, IInv, TypeOK
    <3> QED
      BY <2>1, <3>1, ConnFrame, MirrorFrame, AnnounceFrame DEF IInv, vars, connVars
  <2>2. CASE Next
    BY <2>2, GetInhibitorsInv, ReplaceAllInv, SendChangedInv, ConnectionInv, HashInv,
       ListenerInv, MachineInv DEF Next, onInhibitorsChanged
  <2> QED
    BY <2>1, <2>2
<1> QED
  BY <1>1, InitInv, PTL DEF Spec

\* The type invariant of the inhibitor manager.
THEOREM InhibitorTypeTheorem == Spec => []TypeOK
<1>1. IInv => TypeOK
  BY DEF IInv
<1> QED
  BY <1>1, InhibitorInvariant, PTL

\* A client that has its acknowledgement blocks every target until it goes away
\* (handleConnection registers before it acknowledges).
THEOREM ProtectedWorkTheorem == Spec => []ProtectedWorkBlocks
<1>1. IInv => ProtectedWorkBlocks
  BY DEF IInv, ConnInv, ProtectedWorkBlocks, HasBlockingInhibitors, Blocks
<1> QED
  BY <1>1, InhibitorInvariant, PTL

\* Once no message is owed or waiting, the mirror has an inhibitor for each field
\* that parses and for no other, whatever changed between a read of the hash and
\* its application, if no message was published before the subscription and the
\* last read did not fail (syncRedisInhibitors).  Types are not compared.
THEOREM MirrorTheorem == Spec => []MirrorTracksFields
<1>1. IInv => MirrorTracksFields
  BY DEF IInv, MirrorInv, Mirrors, MirrorTracksFields, HashSettled, MirrorHasFields
<1> QED
  BY <1>1, InhibitorInvariant, PTL

\* Once nobody has a change left to announce, the published busy services are the
\* inhibitors, unless the last publication failed or came from a caller that
\* another had overtaken in reading (onInhibitorsChanged, publishInhibitors).
THEOREM BusyServicesTheorem == Spec => []BusyServicesAreCurrent
<1>1. IInv => BusyServicesAreCurrent
  BY DEF IInv, AnnounceInv, Pending, Latest, Silent, Announced, BusyServicesAreCurrent
<1> QED
  BY <1>1, InhibitorInvariant, PTL

\* The targets that are blocked.
BlockedTargets == {t \in Targets : HasBlockingInhibitors(t)}

\* Every step is one of the gate's, or none.
LEMMA GateSteps ==
    ASSUME IInv, [Next]_vars
    PROVE  [Gate!Next]_(Gate!vars)
<1>t. fsm \in [stage : {"none", "elsewhere", "waiting", "issuing"},
               target : Targets, event : BOOLEAN]
  BY DEF IInv, TypeOK
<1>b. BlockedTargets' \in SUBSET Targets
  BY DEF BlockedTargets
<1>u. UNCHANGED <<inhibitors, manual>> => BlockedTargets' = BlockedTargets
  BY DEF BlockedTargets, HasBlockingInhibitors
<1>1. CASE fsm'.stage = fsm.stage /\ fsm'.target = fsm.target
  BY <1>1, <1>b DEF Gate!Next, Gate!Change, BlockedTargets
<1>2. CASE StartMachine
  <2>1. fsm.stage = "none" /\ fsm'.stage = "elsewhere" /\ fsm'.target = fsm.target
        /\ BlockedTargets' = BlockedTargets
    BY <1>2, <1>t, <1>u DEF StartMachine, FsmMoves, connVars
  <2> QED
    BY <2>1 DEF Gate!Next, Gate!Start, BlockedTargets
<1>3. CASE InhibitorsChanged
  <2>1. /\ fsm'.target = fsm.target /\ BlockedTargets' = BlockedTargets
        /\ \/ fsm'.stage = fsm.stage
           \/ fsm.stage = "waiting" /\ fsm'.stage = "issuing"
              /\ ~HasBlockingInhibitors(fsm.target)
    BY <1>3, <1>t, <1>u DEF InhibitorsChanged, FsmMoves, connVars
  <2>2. CASE fsm.stage = "waiting" /\ fsm'.stage = "issuing"
             /\ ~HasBlockingInhibitors(fsm.target)
    BY <2>1, <2>2 DEF Gate!Next, Gate!Proceed, BlockedTargets
  <2> QED
    BY <2>1, <2>2, <1>1
<1>4. CASE LeaveWaiting
  <2>1. fsm.stage \in {"waiting", "issuing"} /\ fsm'.stage = "elsewhere"
        /\ fsm'.target \in Targets /\ BlockedTargets' = BlockedTargets
    BY <1>4, <1>t, <1>u DEF LeaveWaiting, FsmMoves, Targets, connVars
  <2> QED
    BY <2>1 DEF Gate!Next, Gate!Leave, BlockedTargets
<1>5. ASSUME NEW target \in Targets, EnterWaitingInhibitors(target)
      PROVE  [Gate!Next]_(Gate!vars)
  <2>1. fsm.stage = "elsewhere" /\ fsm'.stage = "waiting" /\ fsm'.target \in Targets
        /\ BlockedTargets' = BlockedTargets
    BY <1>5, <1>t, <1>u DEF EnterWaitingInhibitors, FsmMoves, connVars
  <2> QED
    BY <2>1 DEF Gate!Next, Gate!Wait, BlockedTargets
<1>6. ASSUME NEW a \in Callers, SendInhibitorsChanged(a)
      PROVE  fsm'.stage = fsm.stage /\ fsm'.target = fsm.target
  BY <1>6, <1>t DEF SendInhibitorsChanged
<1>7. ASSUME \/ \E a \in Callers : GetInhibitors(a) \/ \E ok \in BOOLEAN : ReplaceAll(a, ok)
             \/ \E c \in Conns : Connect(c) \/ Disconnect(c) \/ handleConnection(c)
             \/ \E i \in Ids, value \in HashValues : HashChanges(i, value)
             \/ HashPublishes \/ StartRedisListener \/ UNCHANGED vars
      PROVE  UNCHANGED fsm
  BY <1>7 DEF GetInhibitors, ReplaceAll, Connect, Disconnect, handleConnection, Register, Acknowledge,
     Unregister, HashChanges, HashPublishes, StartRedisListener, SyncReads, Subscribe,
     SyncApplies, TakeMessage, vars
<1> QED
  BY <1>1, <1>2, <1>3, <1>4, <1>5, <1>6, <1>7 DEF Next, onInhibitorsChanged

\* The safety of the gate: by inhibitors-changed the FSM goes on to
\* issuing-low-power only while nothing blocks its target.
THEOREM GateTheorem == Spec => Gate!Init /\ [][Gate!Next]_(Gate!vars)
<1>1. Init => Gate!Init
  BY DEF Init, Gate!Init, Targets
<1>2. IInv /\ [Next]_vars => [Gate!Next]_(Gate!vars)
  BY GateSteps
<1> QED
  BY <1>1, <1>2, InhibitorInvariant, PTL DEF Spec
=============================================================================
