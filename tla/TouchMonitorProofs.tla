------------------------ MODULE TouchMonitorProofs ------------------------
(***************************************************************************)
(* Theorems about TouchMonitor for any number of interfaces, channels and  *)
(* readers.                                                                *)
(***************************************************************************)
EXTENDS TouchMonitor, FiniteSetTheorems, TLAPS

States == {"none", "same", "touched", "gone"}

Readers == [state : States, tracker : Trackers, active : BOOLEAN]

SmallTracker(t) == t \in Trackers /\ Cardinality(DOMAIN t) <= MaxChannels

\* A reader knows what its tracker says, and one without a handle is empty.
ReaderOK(r) ==
    /\ r \in Readers
    /\ SmallTracker(r.tracker)
    /\ r.active = Active(r.tracker)
    /\ r.state = "none" => r = NoReader

ReadersOK(R) == R \in [Path -> Readers] /\ \A p \in Path : ReaderOK(R[p])

Waiting(R) == {p \in Path : R[p].active}

\* The part of TypeOK that does not speak of readers.
PlacesOK ==
    /\ node \in [Path -> AllKinds]
    /\ waits \in [Path -> SUBSET Channel]
    /\ late \in [Path -> SUBSET Channel] /\ \A p \in Path : late[p] \subseteq waits[p]
    /\ todo \subseteq Path /\ seen \subseteq Path
    /\ hup \subseteq todo /\ turn \in todo \cup {NoPath}
    /\ pc \in {"top", "scan", "poll", "handle", "over"}
    /\ burst \in 0..MaxBurst /\ scanIn \in 0..ScanEvery

\* MonitorInv made inductive: what a round still has to look at is open, and
\* nothing is left of a round outside of it.
WatchInv ==
    /\ PlacesOK
    /\ ReadersOK(reader)
    /\ sink = Waiting(reader)
    /\ Cardinality(Open(reader)) <= MaxDevices
    /\ pc = "handle" => todo \subseteq Open(reader)
    /\ pc # "handle" => hup = {} /\ turn = NoPath
    /\ pc = "over" => Open(reader) = {} /\ ~covered

---------------------------------------------------------------------------
(* Trackers.                                                               *)

LEMMA TrackerMeans ==
  ASSUME NEW t
  PROVE  t \in Trackers <=> \E S \in SUBSET Channel : t \in [S -> 0..StaleAfter]
  BY DEF Trackers

LEMMA DomainIsFinite ==
  ASSUME NEW t \in Trackers
  PROVE  /\ DOMAIN t \subseteq Channel /\ IsFiniteSet(DOMAIN t)
         /\ Cardinality(DOMAIN t) \in Nat
         /\ t \in [DOMAIN t -> 0..StaleAfter]
  <1>1. PICK S \in SUBSET Channel : t \in [S -> 0..StaleAfter]
    BY TrackerMeans
  <1>2. DOMAIN t = S
    BY <1>1
  <1> QED
    BY <1>1, <1>2, TrackerAssumption, FS_Subset, FS_CardinalityType

\* Whatever forgets channels or ages them.
LEMMA Shrinks ==
  ASSUME NEW t, SmallTracker(t), NEW S \in SUBSET DOMAIN t,
         NEW u \in [S -> 0..StaleAfter]
  PROVE  SmallTracker(u)
  <1>1. t \in Trackers /\ Cardinality(DOMAIN t) <= MaxChannels
    BY DEF SmallTracker
  <1>2. DOMAIN t \subseteq Channel /\ IsFiniteSet(DOMAIN t)
    BY <1>1, DomainIsFinite
  <1>3. /\ Cardinality(S) <= Cardinality(DOMAIN t)
        /\ Cardinality(S) \in Nat /\ Cardinality(DOMAIN t) \in Nat
    BY <1>2, FS_Subset, FS_CardinalityType
  <1>4. S \in SUBSET Channel
    BY <1>2
  <1>5. u \in Trackers
    BY <1>4, TrackerMeans
  <1>6. DOMAIN u = S
    OBVIOUS
  <1> QED
    BY <1>1, <1>3, <1>5, <1>6, TrackerAssumption DEF SmallTracker

LEMMA NewTrackerSmall == SmallTracker(NewTracker) /\ ~Active(NewTracker)
  <1>1. DOMAIN NewTracker = {}
    BY DEF NewTracker
  <1>2. NewTracker \in [{} -> 0..StaleAfter]
    BY DEF NewTracker
  <1>3. NewTracker \in Trackers
    BY <1>2, TrackerMeans
  <1> QED
    BY <1>1, <1>3, FS_EmptySet, TrackerAssumption DEF SmallTracker, Active

LEMMA RefreshedSmall ==
  ASSUME NEW t, SmallTracker(t), NEW c \in Channel, Tracks(t, c) \/ HasRoom(t)
  PROVE  SmallTracker(Refreshed(t, c))
  <1> DEFINE T == DOMAIN t \cup {c}
  <1>1. t \in Trackers /\ Cardinality(DOMAIN t) <= MaxChannels
    BY DEF SmallTracker
  <1>2. /\ DOMAIN t \subseteq Channel /\ IsFiniteSet(DOMAIN t)
        /\ Cardinality(DOMAIN t) \in Nat /\ t \in [DOMAIN t -> 0..StaleAfter]
    BY <1>1, DomainIsFinite
  <1>3. Refreshed(t, c) \in [T -> 0..StaleAfter]
    BY <1>2, TrackerAssumption DEF Refreshed
  <1>4. T \in SUBSET Channel
    BY <1>2
  <1>5. Refreshed(t, c) \in Trackers
    BY <1>3, <1>4, TrackerMeans
  <1>6. Cardinality(T) <= MaxChannels
    <2>1. CASE c \in DOMAIN t
      <3>1. T = DOMAIN t
        BY <2>1
      <3> QED
        BY <1>1, <3>1
    <2>2. CASE c \notin DOMAIN t
      <3>1. Cardinality(T) = Cardinality(DOMAIN t) + 1
        BY <1>2, <2>2, FS_AddElement
      <3>2. Cardinality(DOMAIN t) < MaxChannels
        BY <2>2 DEF Tracks, HasRoom
      <3> QED
        BY <1>2, <3>1, <3>2, TrackerAssumption
    <2> QED
      BY <2>1, <2>2
  <1>7. DOMAIN Refreshed(t, c) = T
    BY <1>3
  <1> QED
    BY <1>5, <1>6, <1>7 DEF SmallTracker

\* A tracker keeps its limit whatever a device sends on whatever channel.
LEMMA ReportSmall ==
  ASSUME NEW t, SmallTracker(t), NEW r, r.channel \in Channel \cup {Broadcast}
  PROVE  SmallTracker(Report(t, r))
  <1>1. CASE r.channel = Broadcast
    BY <1>1 DEF Report
  <1>2. CASE r.channel # Broadcast /\ r.command = "keepalive"
    <2>1. SmallTracker(Keepalive(t, r))
      BY <1>2, RefreshedSmall DEF Keepalive
    <2> QED
      BY <1>2, <2>1 DEF Report, Completes
  <1>3. CASE r.channel # Broadcast /\ r.command # "keepalive" /\ Completes(r)
    <2> DEFINE S == DOMAIN t \ {r.channel}
    <2>1. t \in [DOMAIN t -> 0..StaleAfter]
      BY DomainIsFinite DEF SmallTracker
    <2>2. Without(t, r.channel) \in [S -> 0..StaleAfter]
      BY <2>1 DEF Without
    <2>3. SmallTracker(Without(t, r.channel))
      BY <2>2, Shrinks
    <2> QED
      BY <1>3, <2>3 DEF Report
  <1>4. CASE r.channel # Broadcast /\ r.command # "keepalive" /\ ~Completes(r)
    BY <1>4 DEF Report
  <1> QED
    BY <1>1, <1>2, <1>3, <1>4

LEMMA ExpireSmall ==
  ASSUME NEW t, SmallTracker(t)
  PROVE  SmallTracker(Expire(t))
  <1> DEFINE S == {d \in DOMAIN t : t[d] > 0}
  <1>1. t \in [DOMAIN t -> 0..StaleAfter]
    BY DomainIsFinite DEF SmallTracker
  <1>2. Expire(t) \in [S -> 0..StaleAfter]
    BY <1>1 DEF Expire
  <1> QED
    BY <1>2, Shrinks

LEMMA OlderSmall ==
  ASSUME NEW t, SmallTracker(t)
  PROVE  SmallTracker(Older(t)) /\ DOMAIN Older(t) = DOMAIN t
  <1>1. t \in [DOMAIN t -> 0..StaleAfter]
    BY DomainIsFinite DEF SmallTracker
  <1>2. Older(t) \in [DOMAIN t -> 0..StaleAfter]
    BY <1>1, TrackerAssumption DEF Older
  <1>3. DOMAIN Older(t) = DOMAIN t
    BY <1>2
  <1> QED
    BY <1>2, <1>3, Shrinks

---------------------------------------------------------------------------
(* Readers.                                                                *)

LEMMA NoReaderOK == ReaderOK(NoReader) /\ NoReader.active = FALSE
  <1>1. SmallTracker(NewTracker) /\ ~Active(NewTracker) /\ NewTracker \in Trackers
    BY NewTrackerSmall DEF SmallTracker
  <1> QED
    BY <1>1 DEF ReaderOK, NoReader, Readers, States, Active

LEMMA NewReaderOK ==
  ReaderOK(NewReader) /\ NewReader.active = FALSE /\ NewReader # NoReader
  <1>1. SmallTracker(NewTracker) /\ ~Active(NewTracker) /\ NewTracker \in Trackers
    BY NewTrackerSmall DEF SmallTracker
  <1> QED
    BY <1>1 DEF ReaderOK, NewReader, NoReader, Readers, States, Active

\* A handle has a state, and the reverse.
LEMMA OpenMeans ==
  ASSUME NEW r, ReaderOK(r)
  PROVE  r # NoReader <=> r.state # "none"
  BY DEF ReaderOK, NoReader

\* An open reader gets another tracker, and the sink what follows from it.
LEMMA TrackedOK ==
  ASSUME NEW r, ReaderOK(r), r # NoReader, NEW t, SmallTracker(t)
  PROVE  LET u == [r EXCEPT !.tracker = t, !.active = Active(t)]
         IN ReaderOK(u) /\ u # NoReader /\ u.active = Active(t)
  <1> DEFINE u == [r EXCEPT !.tracker = t, !.active = Active(t)]
  <1>1. r \in Readers /\ r.state # "none" /\ t \in Trackers
    BY OpenMeans DEF ReaderOK, SmallTracker
  <1>2. u \in Readers
    BY <1>1 DEF Readers, Active
  <1>3. u.state = r.state /\ u.tracker = t /\ u.active = Active(t)
    BY <1>1 DEF Readers
  <1>4. u # NoReader
    BY <1>1, <1>3 DEF NoReader
  <1> QED
    BY <1>1, <1>2, <1>3, <1>4 DEF ReaderOK

\* Time passes, or the world changes under a reader.
LEMMA OlderOK ==
  ASSUME NEW r, ReaderOK(r)
  PROVE  LET u == [r EXCEPT !.tracker = Older(r.tracker)]
         IN ReaderOK(u) /\ (u = NoReader <=> r = NoReader) /\ u.active = r.active
  <1> DEFINE u == [r EXCEPT !.tracker = Older(r.tracker)]
  <1> SUFFICES ReaderOK(u) /\ (u = NoReader <=> r = NoReader) /\ u.active = r.active
    OBVIOUS
  <1>1. r \in Readers /\ SmallTracker(r.tracker) /\ r.active = Active(r.tracker)
    BY DEF ReaderOK
  <1>2. SmallTracker(Older(r.tracker)) /\ DOMAIN Older(r.tracker) = DOMAIN r.tracker
    BY <1>1, OlderSmall
  <1>3. u.state = r.state /\ u.tracker = Older(r.tracker) /\ u.active = r.active
    BY <1>1 DEF Readers
  <1>4. u \in Readers
    BY <1>1, <1>2 DEF Readers, SmallTracker
  <1>5. u.active = Active(u.tracker)
    BY <1>1, <1>2, <1>3 DEF Active
  <1>6. CASE r = NoReader
    <2>1. Older(NewTracker) = NewTracker
      BY DEF Older, NewTracker
    <2>2. r.tracker = NewTracker
      BY <1>6 DEF NoReader
    <2>3. Older(r.tracker) = r.tracker
      BY <2>1, <2>2
    <2>4. u = r
      BY <1>1, <2>3 DEF Readers
    <2> QED
      BY <1>6, <2>4
  <1>7. CASE r # NoReader
    <2>1. r.state # "none"
      BY <1>7, OpenMeans
    <2>2. u # NoReader
      BY <1>3, <2>1 DEF NoReader
    <2> QED
      BY <1>2, <1>3, <1>4, <1>5, <1>7, <2>1, <2>2 DEF ReaderOK
  <1> QED
    BY <1>6, <1>7

LEMMA ChangedOK ==
  ASSUME NEW r, ReaderOK(r), r # NoReader, NEW state \in {"touched", "gone"}
  PROVE  LET u == [r EXCEPT !.state = state]
         IN ReaderOK(u) /\ u # NoReader /\ u.active = r.active
  <1> DEFINE u == [r EXCEPT !.state = state]
  <1>1. r \in Readers
    BY DEF ReaderOK
  <1>2. u \in Readers
    BY <1>1 DEF Readers, States
  <1>3. u.state = state /\ u.tracker = r.tracker /\ u.active = r.active
    BY <1>1 DEF Readers
  <1>4. u # NoReader
    BY <1>3 DEF NoReader
  <1> QED
    BY <1>2, <1>3, <1>4 DEF ReaderOK

LEMMA OpenIsFinite ==
  ASSUME NEW R
  PROVE  Open(R) \subseteq Path /\ IsFiniteSet(Open(R)) /\ Cardinality(Open(R)) \in Nat
  <1>1. Open(R) \subseteq Path
    BY DEF Open
  <1> QED
    BY <1>1, MonitorAssumption, FS_Subset, FS_CardinalityType

\* remove: what is closed is closed in the sink.
LEMMA Removed ==
  ASSUME ReadersOK(reader), sink = Waiting(reader), NEW P \in SUBSET Path
  PROVE  /\ ReadersOK(ReaderAfter(P))
         /\ SinkAfter(P) = Waiting(ReaderAfter(P))
         /\ Open(ReaderAfter(P)) = Open(reader) \ P
         /\ Cardinality(Open(ReaderAfter(P))) <= Cardinality(Open(reader))
  <1>1. \A p \in Path : ReaderAfter(P)[p] = IF p \in P THEN NoReader ELSE reader[p]
    BY DEF ReaderAfter
  <1>2. NoReader \in Readers /\ reader \in [Path -> Readers]
    BY NoReaderOK DEF ReaderOK, ReadersOK
  <1>3. ReaderAfter(P) \in [Path -> Readers]
    BY <1>2 DEF ReaderAfter
  <1>4. \A p \in Path : ReaderOK(ReaderAfter(P)[p])
    BY <1>1, NoReaderOK DEF ReadersOK
  <1>5. SinkAfter(P) = Waiting(ReaderAfter(P))
    BY <1>1, NoReaderOK DEF SinkAfter, Waiting
  <1>6. Open(ReaderAfter(P)) = Open(reader) \ P
    BY <1>1 DEF Open
  <1>7. Cardinality(Open(ReaderAfter(P))) <= Cardinality(Open(reader))
    BY <1>6, OpenIsFinite, FS_Subset
  <1> QED
    BY <1>3, <1>4, <1>5, <1>6, <1>7 DEF ReadersOK

LEMMA Tracked ==
  ASSUME ReadersOK(reader), sink = Waiting(reader),
         NEW p \in Open(reader), NEW t, SmallTracker(t), Track(p, t)
  PROVE  /\ ReadersOK(reader') /\ sink' = Waiting(reader')
         /\ Open(reader') = Open(reader)
  <1> DEFINE u == [reader[p] EXCEPT !.tracker = t, !.active = Active(t)]
  <1>1. p \in Path /\ reader[p] # NoReader /\ ReaderOK(reader[p])
    BY DEF Open, ReadersOK
  <1>2. ReaderOK(u) /\ u # NoReader /\ u.active = Active(t)
    BY <1>1, TrackedOK
  <1>3. reader' = [reader EXCEPT ![p] = u]
    BY DEF Track, ReadersOK
  <1>4. u \in Readers
    BY <1>2 DEF ReaderOK
  <1> HIDE DEF u
  <1>5. \A q \in Path : reader'[q] = IF q = p THEN u ELSE reader[q]
    BY <1>3 DEF ReadersOK
  <1>6. ReadersOK(reader')
    BY <1>2, <1>3, <1>4, <1>5 DEF ReadersOK
  <1>7. Open(reader') = Open(reader)
    BY <1>1, <1>2, <1>5 DEF Open
  <1>8. sink' = IF Active(t) = reader[p].active THEN sink
                ELSE IF Active(t) THEN sink \cup {p} ELSE sink \ {p}
    BY DEF Track
  <1>9. reader[p].active \in BOOLEAN /\ Active(t) \in BOOLEAN
    BY <1>1 DEF ReaderOK, Readers, Active
  <1>10. sink' = Waiting(reader')
    BY <1>1, <1>2, <1>5, <1>8, <1>9 DEF Waiting
  <1> QED
    BY <1>6, <1>7, <1>10

---------------------------------------------------------------------------
(* The invariant.                                                          *)

LEMMA WatchInvImplies == WatchInv => MonitorInv
  <1> SUFFICES ASSUME WatchInv PROVE MonitorInv
    OBVIOUS
  <1>1. \A p \in Path : ReaderOK(reader[p])
    BY DEF WatchInv, ReadersOK
  <1>2. sink \subseteq Open(reader)
    BY NoReaderOK DEF WatchInv, Waiting, Open
  <1>3. SinkWithinLimit
    <2>1. Cardinality(sink) <= Cardinality(Open(reader)) /\ Cardinality(sink) \in Nat
      BY <1>2, OpenIsFinite, FS_Subset, FS_CardinalityType
    <2> QED
      BY <2>1, OpenIsFinite, MonitorAssumption DEF WatchInv, SinkWithinLimit
  <1>4. SinkAgrees
    BY <1>1 DEF WatchInv, Waiting, SinkAgrees, ReaderOK
  <1>5. \A p \in Path : /\ reader[p].state \in {"none", "same", "touched", "gone"}
                        /\ reader[p].tracker \in Trackers
                        /\ Cardinality(DOMAIN reader[p].tracker) <= MaxChannels
    BY <1>1 DEF ReaderOK, SmallTracker, Readers, States
  <1>6. TypeOK
    BY <1>2, <1>5, OpenIsFinite DEF WatchInv, PlacesOK, TypeOK
  <1>7. ShutdownClears
    BY <1>2 DEF WatchInv, ShutdownClears
  <1> QED
    BY <1>3, <1>4, <1>6, <1>7 DEF MonitorInv

LEMMA WatchInitial == Init => WatchInv
  <1> SUFFICES ASSUME Init PROVE WatchInv
    OBVIOUS
  <1>1. ReadersOK(reader)
    BY NoReaderOK DEF Init, ReadersOK, ReaderOK
  <1>2. Waiting(reader) = {} /\ Open(reader) = {}
    BY NoReaderOK DEF Init, Waiting, Open
  <1>3. Cardinality(Open(reader)) <= MaxDevices
    BY <1>2, FS_EmptySet, MonitorAssumption
  <1>4. 0 \in 0..MaxBurst /\ 0 \in 0..ScanEvery
    BY MonitorAssumption
  <1>5. PlacesOK
    BY <1>4 DEF Init, PlacesOK
  <1> QED
    BY <1>1, <1>2, <1>3, <1>5 DEF Init, WatchInv

\* A step that leaves readers and sink alone.
LEMMA Leaves ==
  ASSUME WatchInv, PlacesOK', UNCHANGED <<reader, sink>>,
         covered' => covered \/ pc' # "over",
         pc' = "over" => pc = "over",
         pc' = "handle" => todo' \subseteq Open(reader),
         pc' # "handle" => hup' = {} /\ turn' = NoPath
  PROVE  WatchInv'
  BY DEF WatchInv, ReadersOK, Waiting, Open

\* A step that closes the readers in P.
LEMMA Closes ==
  ASSUME WatchInv, PlacesOK', NEW P \in SUBSET Path,
         reader' = ReaderAfter(P), sink' = SinkAfter(P),
         pc' = "over" => Open(reader) \ P = {} /\ ~covered',
         pc' = "handle" => todo' \subseteq Open(reader) \ P,
         pc' # "handle" => hup' = {} /\ turn' = NoPath
  PROVE  WatchInv'
  <1>1. /\ ReadersOK(reader') /\ sink' = Waiting(reader')
        /\ Open(reader') = Open(reader) \ P
        /\ Cardinality(Open(reader')) <= Cardinality(Open(reader))
    BY Removed DEF WatchInv
  <1>2. Cardinality(Open(reader')) <= MaxDevices
    BY <1>1, OpenIsFinite, MonitorAssumption DEF WatchInv
  <1> QED
    BY <1>1, <1>2 DEF WatchInv, ReadersOK, Waiting, Open

\* A step that reads p or gives it time.
LEMMA Reads ==
  ASSUME WatchInv, PlacesOK', pc' = pc, pc = "handle",
         NEW p \in todo, NEW t, SmallTracker(t), Track(p, t),
         todo' \subseteq todo
  PROVE  WatchInv'
  <1>1. p \in Open(reader)
    BY DEF WatchInv
  <1>2. /\ ReadersOK(reader') /\ sink' = Waiting(reader')
        /\ Open(reader') = Open(reader)
    BY <1>1, Tracked DEF WatchInv
  <1> QED
    BY <1>2 DEF WatchInv, ReadersOK, Waiting, Open

\* A reader is replaced or opened, if there is room without its predecessor.
LEMMA WatchStep ==
  ASSUME WatchInv, PlacesOK', NEW p \in Path, Watch(p),
         pc' = "scan", hup' = {}, turn' = NoPath
  PROVE  WatchInv'
  <1> DEFINE P == {p} \cap Open(reader)
             R == ReaderAfter(P)
  <1>1. P \in SUBSET Path
    OBVIOUS
  <1>2. /\ ReadersOK(R) /\ SinkAfter(P) = Waiting(R)
        /\ Open(R) = Open(reader) \ P
        /\ Cardinality(Open(R)) <= Cardinality(Open(reader))
    BY <1>1, Removed DEF WatchInv
  <1>3. sink' = SinkAfter(P)
    BY DEF Watch
  <1>4. p \notin Open(R)
    BY <1>2
  <1>5. CASE reader' = R
    BY <1>1, <1>3, <1>5, Closes
  <1>6. CASE ~Crowded(R) /\ reader' = [R EXCEPT ![p] = NewReader]
    <2> HIDE DEF R
    <2>1. NewReader \in Readers
      BY NewReaderOK DEF ReaderOK
    <2>2. \A q \in Path : reader'[q] = IF q = p THEN NewReader ELSE R[q]
      BY <1>2, <1>6 DEF ReadersOK
    <2>3. ReadersOK(reader')
      BY <1>2, <1>6, <2>1, <2>2, NewReaderOK DEF ReadersOK
    <2>4. ~R[p].active
      BY <1>4, NoReaderOK DEF Open
    <2>5. Waiting(reader') = Waiting(R)
      BY <2>2, <2>4, NewReaderOK DEF Waiting
    <2>6. Open(reader') = Open(R) \cup {p}
      BY <2>2, NewReaderOK DEF Open
    <2>7. Cardinality(Open(reader')) = Cardinality(Open(R)) + 1
      BY <1>4, <2>6, OpenIsFinite, FS_AddElement
    <2>8. Cardinality(Open(reader')) <= MaxDevices
      BY <1>6, <2>7, OpenIsFinite, MonitorAssumption DEF Crowded
    <2> QED
      BY <1>2, <1>3, <2>3, <2>5, <2>8 DEF WatchInv, ReadersOK, Waiting, Open
  <1> QED
    BY <1>5, <1>6 DEF Watch

LEMMA ScanStep ==
  ASSUME WatchInv, NEW p \in Path, ScanPath(p)
  PROVE  WatchInv'
  <1>1. /\ pc = "scan" /\ pc' = "scan" /\ hup = {} /\ hup' = {}
        /\ turn = NoPath /\ turn' = NoPath /\ todo' \subseteq todo
    BY DEF ScanPath, WatchInv, round
  <1>2. seen' \subseteq Path
    BY DEF ScanPath, PassBy, Keep, Watch, WatchInv, PlacesOK
  <1>3. PlacesOK'
    BY <1>1, <1>2 DEF ScanPath, WatchInv, PlacesOK, world, round
  <1>4. CASE PassBy(p) \/ Keep(p)
    BY <1>1, <1>3, <1>4, Leaves DEF PassBy, Keep
  <1>5. CASE Watch(p)
    BY <1>1, <1>3, <1>5, WatchStep
  <1> QED
    BY <1>4, <1>5 DEF ScanPath

\* The steps of a round at p.
LEMMA RoundStep ==
  ASSUME WatchInv, NEW p \in Path, InTurn(p),
         Lose(p) \/ Settle(p)
  PROVE  WatchInv'
  <1>1. /\ pc = "handle" /\ pc' = "handle" /\ p \in todo /\ todo \subseteq Open(reader)
        /\ todo' = todo \ {p}
    BY DEF InTurn, Lose, Settle, Served, WatchInv
  <1>2. 0 \in 0..MaxBurst
    BY MonitorAssumption
  <1>3. PlacesOK'
    BY <1>1, <1>2 DEF Lose, Settle, Served, WatchInv, PlacesOK, world, scan
  <1>4. CASE Lose(p)
    <2>1. reader' = ReaderAfter({p}) /\ sink' = SinkAfter({p})
      BY <1>4 DEF Lose
    <2>2. todo' \subseteq Open(reader) \ {p}
      BY <1>1
    <2> QED
      BY <1>1, <1>3, <2>1, <2>2, Closes
  <1>5. CASE Settle(p)
    <2>1. SmallTracker(reader[p].tracker)
      BY DEF WatchInv, ReadersOK, ReaderOK
    <2>2. Track(p, Expire(reader[p].tracker))
      BY <1>5 DEF Settle
    <2> QED
      BY <1>1, <1>3, <2>1, <2>2, ExpireSmall, Reads
  <1> QED
    BY <1>4, <1>5

LEMMA ReadStep ==
  ASSUME WatchInv, NEW p \in Path, NEW r, ReadReport(p, r),
         r.channel \in Channel \cup {Broadcast}
  PROVE  WatchInv'
  <1>1. pc = "handle" /\ pc' = "handle" /\ p \in todo /\ todo' = todo
    BY DEF ReadReport, InTurn
  <1>2. burst + 1 \in 0..MaxBurst
    BY MonitorAssumption DEF ReadReport, WatchInv, PlacesOK
  <1>3. PlacesOK'
    BY <1>1, <1>2 DEF ReadReport, WatchInv, PlacesOK, world, scan
  <1>4. SmallTracker(reader[p].tracker)
    BY DEF WatchInv, ReadersOK, ReaderOK
  <1>5. Track(p, Report(reader[p].tracker, r))
    BY DEF ReadReport
  <1> QED
    BY <1>1, <1>3, <1>4, <1>5, ReportSmall, Reads

LEMMA DeviceSpeaks ==
  ASSUME WatchInv, NEW p \in Path,
         SaysOther(p) \/ \E c \in Talks[p] : AsksForTouch(p, c)
  PROVE  WatchInv'
  <1>1. /\ waits[p] \subseteq Channel /\ Talks[p] \subseteq Channel
        /\ late[p] \subseteq waits[p]
    BY MonitorAssumption DEF WatchInv, PlacesOK
  <1>2. \A c, command, length, status : Header(c, command, length, status).channel = c
    BY DEF Header
  <1>3. ASSUME NEW c \in Channel \cup {Broadcast}, NEW command, NEW length, NEW status,
               ReadReport(p, Header(c, command, length, status))
        PROVE  WatchInv'
    BY <1>2, <1>3, ReadStep
  <1> QED
    BY <1>1, <1>3 DEF SaysOther, AsksForTouch

LEMMA ChangesStep ==
  ASSUME WatchInv, NEW p \in Path, NEW kind \in AllKinds,
         NEW state \in {"touched", "gone"}, Changes(p, kind, state)
  PROVE  WatchInv'
  <1>1. PlacesOK'
    BY DEF Changes, WatchInv, PlacesOK, scan, round
  <1>2. CASE p \in Open(reader) /\ reader[p].state # "gone"
    <2> DEFINE u == [reader[p] EXCEPT !.state = state]
    <2>1. p \in Path /\ reader[p] # NoReader /\ ReaderOK(reader[p])
      BY <1>2 DEF Open, WatchInv, ReadersOK
    <2>2. ReaderOK(u) /\ u # NoReader /\ u.active = reader[p].active
      BY <2>1, ChangedOK
    <2>3. reader' = [reader EXCEPT ![p] = u]
      BY <1>2 DEF Changes, WatchInv, ReadersOK
    <2>4. u \in Readers
      BY <2>2 DEF ReaderOK
    <2> HIDE DEF u
    <2>5. \A q \in Path : reader'[q] = IF q = p THEN u ELSE reader[q]
      BY <2>3 DEF WatchInv, ReadersOK
    <2>6. ReadersOK(reader')
      BY <2>2, <2>3, <2>4, <2>5 DEF WatchInv, ReadersOK
    <2>7. Open(reader') = Open(reader)
      BY <2>1, <2>2, <2>5 DEF Open
    <2>8. Waiting(reader') = Waiting(reader)
      BY <2>2, <2>5 DEF Waiting
    <2> QED
      BY <1>1, <2>6, <2>7, <2>8
         DEF Changes, WatchInv, ReadersOK, Waiting, Open, round
  <1>3. CASE ~(p \in Open(reader) /\ reader[p].state # "gone")
    <2>1. UNCHANGED <<reader, sink, covered, pc, todo, hup, turn>>
      BY <1>3 DEF Changes, round
    <2> QED
      BY <1>1, <2>1, Leaves DEF WatchInv
  <1> QED
    BY <1>2, <1>3

LEMMA TickStep == ASSUME WatchInv, Tick PROVE WatchInv'
  <1>1. scanIn' \in 0..ScanEvery
    <2>1. scanIn \in 0..ScanEvery /\ ScanEvery \in Nat
      BY MonitorAssumption DEF WatchInv, PlacesOK
    <2>2. scanIn' = IF scanIn = 0 THEN 0 ELSE scanIn - 1
      BY DEF Tick
    <2> QED
      BY <2>1, <2>2
  <1>2. PlacesOK'
    BY <1>1 DEF Tick, WatchInv, PlacesOK, world, round
  <1>3. reader \in [Path -> Readers] /\ \A p \in Path : ReaderOK(reader[p])
    BY DEF WatchInv, ReadersOK
  <1>4. \A p \in Path : reader'[p] = [reader[p] EXCEPT !.tracker = Older(reader[p].tracker)]
    BY DEF Tick
  <1>5. \A p \in Path : /\ ReaderOK(reader'[p])
                        /\ reader'[p] = NoReader <=> reader[p] = NoReader
                        /\ reader'[p].active = reader[p].active
    BY <1>3, <1>4, OlderOK
  <1>6. reader' = [p \in Path |-> reader'[p]]
    BY DEF Tick
  <1>7. ReadersOK(reader')
    BY <1>5, <1>6 DEF ReadersOK, ReaderOK
  <1>8. Open(reader') = Open(reader) /\ Waiting(reader') = Waiting(reader)
    BY <1>5 DEF Open, Waiting
  <1> QED
    BY <1>2, <1>7, <1>8 DEF Tick, WatchInv, ReadersOK, Waiting, Open, round

LEMMA MonitorStep == WatchInv /\ [Next]_vars => WatchInv'
  <1> SUFFICES ASSUME WatchInv, [Next]_vars PROVE WatchInv'
    OBVIOUS
  <1> USE MonitorAssumption
  <1>1. CASE StartScan
    <2>1. PlacesOK' /\ hup' = {} /\ turn' = NoPath /\ pc' = "scan"
      BY <1>1 DEF StartScan, WatchInv, PlacesOK, world, round
    <2> QED
      BY <1>1, <2>1, Leaves DEF StartScan
  <1>2. CASE SkipScan
    <2>1. PlacesOK' /\ hup' = {} /\ turn' = NoPath /\ pc' = "poll"
      BY <1>2 DEF SkipScan, WatchInv, PlacesOK, world, scan, round
    <2> QED
      BY <1>2, <2>1, Leaves DEF SkipScan
  <1>3. CASE EndScan
    <2> DEFINE P == Open(reader) \ seen
    <2>1. PlacesOK' /\ hup' = {} /\ turn' = NoPath /\ pc' = "poll"
      BY <1>3 DEF EndScan, WatchInv, PlacesOK, world, round
    <2>2. P \in SUBSET Path /\ reader' = ReaderAfter(P) /\ sink' = SinkAfter(P)
      BY <1>3, OpenIsFinite DEF EndScan
    <2> QED
      BY <2>1, <2>2, Closes
  <1>4. CASE Poll
    <2>1. hup' \subseteq todo' /\ todo' = Open(reader) /\ pc' = "handle"
      BY <1>4 DEF Poll
    <2>2. PlacesOK'
      BY <1>4, <2>1, OpenIsFinite DEF Poll, WatchInv, PlacesOK, world, scan
    <2> QED
      BY <1>4, <2>1, <2>2, Leaves DEF Poll
  <1>5. CASE EndRound
    <2>1. hup' = {} /\ turn' = NoPath /\ pc' = "top"
      BY <1>5 DEF EndRound, WatchInv, PlacesOK, round
    <2>2. PlacesOK'
      BY <1>5, <2>1 DEF EndRound, WatchInv, PlacesOK, world, scan, round
    <2> QED
      BY <1>5, <2>1, <2>2, Leaves DEF EndRound
  <1>6. CASE Leave
    <2>1. PlacesOK' /\ hup' = {} /\ turn' = NoPath /\ pc' = "over" /\ ~covered'
      BY <1>6 DEF Leave, WatchInv, PlacesOK, world, scan, round
    <2>2. /\ Open(reader) \in SUBSET Path
          /\ reader' = ReaderAfter(Open(reader)) /\ sink' = SinkAfter(Open(reader))
      BY <1>6, OpenIsFinite DEF Leave
    <2> QED
      BY <2>1, <2>2, Closes
  <1>7. ASSUME NEW p \in Path, ScanPath(p) \/ Lose(p) \/ Settle(p)
        PROVE  WatchInv'
    BY <1>7, ScanStep, RoundStep DEF Lose, Settle
  <1>8. ASSUME NEW p \in Path,
               SaysOther(p) \/ \E c \in Talks[p] : AsksForTouch(p, c)
        PROVE  WatchInv'
    BY <1>8, DeviceSpeaks
  <1>9. ASSUME NEW p \in Path, NEW c \in Talks[p],
               BeginWaiting(p, c) \/ StopWaiting(p, c)
        PROVE  WatchInv'
    <2>1. c \in Channel
      OBVIOUS
    <2>2. UNCHANGED <<reader, sink, covered, pc, todo, hup, turn>>
      BY <1>9 DEF BeginWaiting, StopWaiting, round
    <2>3. PlacesOK'
      BY <1>9, <2>1 DEF BeginWaiting, StopWaiting, WatchInv, PlacesOK, scan, round
    <2> QED
      BY <2>2, <2>3, Leaves DEF WatchInv
  <1>10. ASSUME NEW p \in Path, Plug(p) \/ Unplug(p) \/ ChangeAccess(p)
         PROVE  WatchInv'
    <2>1. \E kind \in AllKinds, state \in {"touched", "gone"} : Changes(p, kind, state)
      BY <1>10 DEF Plug, Unplug, ChangeAccess, AllKinds
    <2> QED
      BY <2>1, ChangesStep
  <1>11. CASE Tick
    BY <1>11, TickStep
  <1>12. CASE Cancel \/ UNCHANGED vars
    <2>1. UNCHANGED <<reader, sink, covered, pc, todo, hup, turn>>
      BY <1>12 DEF Cancel, vars, round
    <2>2. PlacesOK'
      BY <1>12 DEF Cancel, vars, WatchInv, PlacesOK, world, scan, round
    <2> QED
      BY <2>1, <2>2, Leaves DEF WatchInv
  <1> QED
    BY <1>1, <1>2, <1>3, <1>4, <1>5, <1>6, <1>7, <1>8, <1>9, <1>10, <1>11, <1>12
       DEF Next, RunStep

\* Whatever comes, goes and is said on however many interfaces: the sink
\* believes what the open readers last saw, never about more devices than it
\* has room for, and nothing is open or waiting after shutdown.
THEOREM MonitorInvariant == Spec => []MonitorInv
  BY WatchInitial, MonitorStep, WatchInvImplies, PTL DEF Spec

---------------------------------------------------------------------------
(* What is covered is watched.                                             *)

\* A complete scan has looked at what has not changed since.
LookedAt ==
    /\ known \in [Path -> {"changed", "looked", "known"}]
    /\ pc # "scan" => \A p \in Path : known[p] # "looked"
    /\ pc = "scan" =>
          \A p \in Path : known[p] # "changed" /\ node[p] # "absent"
                             => p \in todo \/ p \in seen \/ missed \/ PassedSilently(p)

\* A handle whose device is the same is a key's, no scan overlooks it, and
\* poll has reported a hangup only of readers that have lost their device.
HandlesOK ==
    /\ \A p \in Path : reader[p].state = "same" => node[p] = "fido" /\ IsKey(p)
    /\ pc = "scan" => \A p \in Path : reader[p].state = "same"
                                         => p \in todo \/ p \in seen
    /\ \A p \in hup : reader[p].state = "gone"

CoverInv == LookedAt /\ HandlesOK /\ CoveredMeansWatched

LEMMA PassedStays ==
  \A p : node'[p] = node[p] => (PassedSilently(p)' <=> PassedSilently(p))
  BY DEF PassedSilently, IsKey

\* The states of the readers after those in P are closed.
LEMMA ClosedStates ==
  ASSUME NEW P
  PROVE  /\ \A p \in Path : ReaderAfter(P)[p].state =
                               IF p \in P THEN "none" ELSE reader[p].state
         /\ Open(ReaderAfter(P)) = Open(reader) \ P
  <1>1. \A p \in Path : ReaderAfter(P)[p] = IF p \in P THEN NoReader ELSE reader[p]
    BY DEF ReaderAfter
  <1>2. NoReader.state = "none"
    BY DEF NoReader
  <1> QED
    BY <1>1, <1>2 DEF Open

LEMMA OpenedStates ==
  ASSUME NEW R, ReadersOK(R), NEW p \in Path
  PROVE  /\ \A q \in Path : [R EXCEPT ![p] = NewReader][q].state =
                               IF q = p THEN "same" ELSE R[q].state
         /\ Open([R EXCEPT ![p] = NewReader]) = Open(R) \cup {p}
  <1>1. \A q \in Path : [R EXCEPT ![p] = NewReader][q] =
                           IF q = p THEN NewReader ELSE R[q]
    BY DEF ReadersOK
  <1>2. NewReader.state = "same" /\ NewReader # NoReader
    BY NewReaderOK DEF NewReader, NoReader
  <1> QED
    BY <1>1, <1>2 DEF Open

LEMMA TrackedStates ==
  ASSUME ReadersOK(reader), NEW p \in Path, NEW t, Track(p, t)
  PROVE  \A q \in Path : reader'[q].state = reader[q].state
  <1>1. reader \in [Path -> Readers]
    BY DEF ReadersOK
  <1>2. \A q \in Path \ {p} : reader'[q] = reader[q]
    BY <1>1 DEF Track
  <1>3. reader'[p] = [reader[p] EXCEPT !.tracker = t, !.active = Active(t)]
    BY <1>1 DEF Track
  <1>4. reader'[p].state = reader[p].state
    BY <1>1, <1>3 DEF Readers
  <1> QED
    BY <1>2, <1>4

\* A step that neither scans nor changes what is there, nor opens a handle,
\* and closes some only outside of coverage.
LEMMA CoverageStays ==
  ASSUME CoverInv, UNCHANGED <<node, seen, missed, known>>,
         pc' = "scan" => pc = "scan" /\ todo' = todo,
         pc = "scan" => pc' = "scan",
         covered' => covered /\ Open(reader) \subseteq Open(reader'),
         \A p \in Path : reader'[p].state \in {reader[p].state, "none"},
         hup' \subseteq Path,
         \A p \in hup' : reader'[p].state = "gone"
  PROVE  CoverInv'
  <1>1. LookedAt'
    BY PassedStays DEF CoverInv, LookedAt
  <1>2. HandlesOK'
    BY DEF CoverInv, HandlesOK, IsKey
  <1>3. CoveredMeansWatched'
    BY PassedStays DEF CoverInv, CoveredMeansWatched
  <1> QED
    BY <1>1, <1>2, <1>3 DEF CoverInv


LEMMA CoverInitial == Init => CoverInv
  <1> SUFFICES ASSUME Init PROVE CoverInv
    OBVIOUS
  <1>1. \A p \in Path : reader[p].state = "none"
    BY DEF Init, NoReader
  <1> QED
    BY <1>1 DEF Init, CoverInv, LookedAt, HandlesOK, CoveredMeansWatched

LEMMA StartCovers == ASSUME WatchInv, CoverInv, StartScan PROVE CoverInv'
  <1>1. /\ pc = "top" /\ pc' = "scan" /\ hup' = hup
        /\ UNCHANGED <<node, reader, covered, known>>
        /\ todo' = {p \in Path : node[p] # "absent"}
    BY DEF StartScan, world, round
  <1>2. "fido" # "absent"
    OBVIOUS
  <1>3. LookedAt'
    BY <1>1 DEF CoverInv, LookedAt
  <1>4. HandlesOK'
    BY <1>1, <1>2 DEF CoverInv, HandlesOK, IsKey
  <1>5. CoveredMeansWatched'
    BY <1>1, PassedStays DEF CoverInv, CoveredMeansWatched
  <1> QED
    BY <1>3, <1>4, <1>5 DEF CoverInv

\* The scan looks at p: a key is found, what may be one is missed.
LEMMA ScanCovers ==
  ASSUME WatchInv, CoverInv, NEW p \in Path, ScanPath(p)
  PROVE  CoverInv'
  <1> USE DEF WatchInv
  <1>1. /\ pc = "scan" /\ pc' = "scan" /\ p \in todo /\ todo' = todo \ {p}
        /\ UNCHANGED node
        /\ known' = [known EXCEPT ![p] = IF @ = "changed" THEN "looked" ELSE @]
        /\ hup = {} /\ hup' = {}
    BY DEF ScanPath, world, round
  <1>2. /\ known' \in [Path -> {"changed", "looked", "known"}]
        /\ \A q \in Path \ {p} : known'[q] = known[q]
        /\ known'[p] = "known" => known[p] = "known"
    BY <1>1 DEF CoverInv, LookedAt
  <1>3. \/ IsKey(p) /\ seen' = seen \cup {p}
        \/ ~IsKey(p) /\ seen' = seen /\ missed' = (missed \/ ~LayoutOf[node[p]].ok)
    BY DEF ScanPath, PassBy, Keep, Watch
  <1>4. missed => missed'
    BY DEF ScanPath, PassBy, Keep, Watch
  <1>5. p \in seen' \/ missed' \/ PassedSilently(p)
    BY <1>3 DEF PassedSilently
  <1>6. LookedAt'
    BY <1>1, <1>2, <1>3, <1>4, <1>5, PassedStays DEF CoverInv, LookedAt
  <1>7. CASE UNCHANGED <<reader, covered>>
    <2>1. reader[p].state = "same" => IsKey(p)
      BY DEF CoverInv, HandlesOK
    <2>2. HandlesOK'
      BY <1>1, <1>3, <1>7, <2>1 DEF CoverInv, HandlesOK, IsKey
    <2>3. CoveredMeansWatched'
      BY <1>1, <1>2, <1>7, PassedStays DEF CoverInv, CoveredMeansWatched
    <2> QED
      BY <1>6, <2>2, <2>3 DEF CoverInv
  <1>8. CASE Watch(p)
    <2> DEFINE P == {p} \cap Open(reader)
               R == ReaderAfter(P)
    <2>1. IsKey(p) /\ p \in seen' /\ covered' = CoverageAfter(P)
      BY <1>8 DEF Watch
    <2>2. /\ ReadersOK(R)
          /\ \A q \in Path : R[q].state = IF q \in P THEN "none" ELSE reader[q].state
          /\ Open(R) = Open(reader) \ P
      BY Removed, ClosedStates
    <2>3. \/ reader' = R
          \/ node[p] = "fido" /\ reader' = [R EXCEPT ![p] = NewReader]
      BY <1>8 DEF Watch
    <2> HIDE DEF R
    <2>4. /\ \A q \in Path \ {p} : reader'[q].state = reader[q].state
          /\ reader'[p].state = "same" => node[p] = "fido"
      <3>1. CASE reader' = R
        <4>1. reader[p].state = "same" => node[p] = "fido"
          BY DEF CoverInv, HandlesOK
        <4> QED
          BY <2>2, <3>1, <4>1
      <3>2. CASE node[p] = "fido" /\ reader' = [R EXCEPT ![p] = NewReader]
        BY <2>2, <3>2, OpenedStates
      <3> QED
        BY <2>3, <3>1, <3>2
    <2>5. covered' => covered /\ Open(reader) \subseteq Open(reader')
      <3>1. covered' => covered /\ P = {}
        BY <2>1 DEF CoverageAfter
      <3>2. CASE reader' = R
        BY <2>2, <3>1, <3>2
      <3>3. CASE reader' = [R EXCEPT ![p] = NewReader]
        <4>1. Open(reader') = Open(R) \cup {p}
          BY <2>2, <3>3, OpenedStates
        <4> QED
          BY <2>2, <3>1, <4>1
      <3> QED
        BY <2>3, <3>2, <3>3
    <2>6. HandlesOK'
      <3>1. \A q \in Path : reader'[q].state = "same" => node[q] = "fido" /\ IsKey(q)
        BY <2>1, <2>4 DEF CoverInv, HandlesOK
      <3>2. \A q \in Path : reader'[q].state = "same" => q \in todo' \/ q \in seen'
        BY <1>1, <1>3, <2>1, <2>4 DEF CoverInv, HandlesOK
      <3> QED
        BY <1>1, <3>1, <3>2 DEF HandlesOK, IsKey
    <2>7. CoveredMeansWatched'
      BY <1>1, <1>2, <2>5, PassedStays DEF CoverInv, CoveredMeansWatched
    <2> QED
      BY <1>6, <2>6, <2>7 DEF CoverInv
  <1> QED
    BY <1>7, <1>8 DEF ScanPath, PassBy, Keep

\* A scan that missed nothing has found every key there is.
LEMMA EndCovers == ASSUME WatchInv, CoverInv, EndScan PROVE CoverInv'
  <1> DEFINE P == Open(reader) \ seen
  <1>1. /\ pc = "scan" /\ todo = {} /\ pc' = "poll" /\ node' = node
        /\ reader' = ReaderAfter(P) /\ hup' = {}
        /\ covered' = (seen # {} /\ Open(reader') = seen /\ ~missed)
        /\ known' = [p \in Path |-> IF known[p] = "looked" THEN "known" ELSE known[p]]
    BY DEF EndScan, world, round, WatchInv
  <1>2. /\ known' \in [Path -> {"changed", "looked", "known"}]
        /\ \A p \in Path : known'[p] # "looked"
        /\ \A p \in Path : known'[p] = "known" => known[p] # "changed"
    BY <1>1 DEF CoverInv, LookedAt
  <1>3. LookedAt'
    BY <1>1, <1>2 DEF LookedAt
  <1>4. \A p \in Path : reader'[p].state = IF p \in P THEN "none" ELSE reader[p].state
    BY <1>1, ClosedStates
  <1>5. HandlesOK'
    BY <1>1, <1>4 DEF CoverInv, HandlesOK, IsKey
  <1>6. CoveredMeansWatched'
    BY <1>1, <1>2, PassedStays DEF CoverInv, LookedAt, CoveredMeansWatched
  <1> QED
    BY <1>3, <1>5, <1>6 DEF CoverInv

LEMMA ChangesCovers ==
  ASSUME WatchInv, CoverInv, NEW p \in Path, NEW kind \in AllKinds,
         NEW state \in {"touched", "gone"}, Changes(p, kind, state)
  PROVE  CoverInv'
  <1>1. /\ known' = [known EXCEPT ![p] = "changed"] /\ node' = [node EXCEPT ![p] = kind]
        /\ UNCHANGED <<covered, pc, todo, seen, missed, hup>>
    BY DEF Changes, scan, round
  <1>2. /\ known' \in [Path -> {"changed", "looked", "known"}]
        /\ known'[p] = "changed"
        /\ \A q \in Path \ {p} : known'[q] = known[q] /\ node'[q] = node[q]
    BY <1>1 DEF CoverInv, LookedAt, WatchInv, PlacesOK
  <1>3. LookedAt'
    BY <1>1, <1>2, PassedStays DEF CoverInv, LookedAt
  <1>4. /\ Open(reader') = Open(reader)
        /\ \A q \in Path \ {p} : reader'[q].state = reader[q].state
        /\ reader'[p].state # "same"
        /\ reader[p].state = "gone" => reader'[p].state = "gone"
    <2>1. reader \in [Path -> Readers] /\ \A q \in Path : ReaderOK(reader[q])
      BY DEF WatchInv, ReadersOK
    <2>2. CASE p \in Open(reader) /\ reader[p].state # "gone"
      <3> DEFINE u == [reader[p] EXCEPT !.state = state]
      <3>1. reader[p] # NoReader /\ ReaderOK(reader[p])
        BY <2>1, <2>2 DEF Open
      <3>2. u # NoReader /\ u.state = state
        BY <2>1, <3>1, ChangedOK DEF Readers
      <3>3. reader' = [reader EXCEPT ![p] = u]
        BY <2>2 DEF Changes
      <3> HIDE DEF u
      <3>4. \A q \in Path : reader'[q] = IF q = p THEN u ELSE reader[q]
        BY <2>1, <3>3
      <3> QED
        BY <2>2, <3>1, <3>2, <3>4 DEF Open
    <2>3. CASE ~(p \in Open(reader) /\ reader[p].state # "gone")
      <3>1. reader' = reader
        BY <2>3 DEF Changes
      <3>2. reader[p].state # "same"
        BY <2>1, <2>3, OpenMeans DEF Open
      <3> QED
        BY <3>1, <3>2
    <2> QED
      BY <2>2, <2>3
  <1>5. HandlesOK'
    <2>1. \A q \in Path : reader'[q].state = "same" => q # p /\ node'[q] = node[q]
                                                       /\ reader[q].state = "same"
      BY <1>2, <1>4
    <2>2. \A q \in hup' : q \in hup /\ reader'[q].state = "gone"
      BY <1>1, <1>4 DEF CoverInv, HandlesOK, WatchInv, PlacesOK
    <2> QED
      BY <1>1, <2>1, <2>2 DEF CoverInv, HandlesOK, IsKey
  <1>6. CoveredMeansWatched'
    BY <1>1, <1>2, <1>4, PassedStays DEF CoverInv, CoveredMeansWatched
  <1> QED
    BY <1>3, <1>5, <1>6 DEF CoverInv


\* A reader is closed because it is lost, or all are at shutdown.
LEMMA CloseCovers ==
  ASSUME WatchInv, CoverInv, NEW P \in SUBSET Path, P \subseteq Open(reader),
         reader' = ReaderAfter(P), covered' => covered /\ P = {},
         UNCHANGED <<node, seen, missed, known>>, pc # "scan", pc' # "scan",
         hup' \subseteq hup \ P
  PROVE  CoverInv'
  <1>1. /\ \A p \in Path : reader'[p].state =
                              IF p \in P THEN "none" ELSE reader[p].state
        /\ Open(reader') = Open(reader) \ P
    BY ClosedStates
  <1>2. hup' \subseteq Path /\ \A p \in hup' : reader'[p].state = "gone"
    BY <1>1 DEF CoverInv, HandlesOK, WatchInv, PlacesOK
  <1> QED
    BY <1>1, <1>2, CoverageStays

\* A reader is read, or what it knows gets older.
LEMMA TrackCovers ==
  ASSUME WatchInv, CoverInv, NEW p \in todo, NEW t, SmallTracker(t), Track(p, t),
         pc = "handle", UNCHANGED <<node, covered, pc, seen, missed, known>>,
         hup' \subseteq hup
  PROVE  CoverInv'
  <1>1. p \in Open(reader) /\ p \in Path /\ ReadersOK(reader) /\ sink = Waiting(reader)
    BY DEF WatchInv, Open
  <1>2. Open(reader') = Open(reader)
    BY <1>1, Tracked
  <1>3. \A q \in Path : reader'[q].state = reader[q].state
    BY <1>1, TrackedStates
  <1>4. hup' \subseteq Path /\ \A q \in hup' : reader'[q].state = "gone"
    BY <1>3 DEF CoverInv, HandlesOK, WatchInv, PlacesOK
  <1> QED
    BY <1>2, <1>3, <1>4, CoverageStays

LEMMA ReadCovers ==
  ASSUME WatchInv, CoverInv, NEW p \in Path, NEW r, ReadReport(p, r),
         r.channel \in Channel \cup {Broadcast}
  PROVE  CoverInv'
  <1>1. SmallTracker(Report(reader[p].tracker, r))
    BY ReportSmall DEF WatchInv, ReadersOK, ReaderOK
  <1>2. /\ pc = "handle" /\ p \in todo /\ hup' = hup
        /\ UNCHANGED <<node, covered, pc, seen, missed, known>>
        /\ Track(p, Report(reader[p].tracker, r))
    BY DEF ReadReport, InTurn, world, scan
  <1> QED
    BY <1>1, <1>2, TrackCovers

LEMMA DeviceCovers ==
  ASSUME WatchInv, CoverInv, NEW p \in Path,
         SaysOther(p) \/ \E c \in Talks[p] : AsksForTouch(p, c)
  PROVE  CoverInv'
  <1>1. /\ waits[p] \subseteq Channel /\ Talks[p] \subseteq Channel
        /\ late[p] \subseteq waits[p]
    BY MonitorAssumption DEF WatchInv, PlacesOK
  <1>2. \A c, command, length, status : Header(c, command, length, status).channel = c
    BY DEF Header
  <1>3. ASSUME NEW c \in Channel \cup {Broadcast}, NEW command, NEW length, NEW status,
               ReadReport(p, Header(c, command, length, status))
        PROVE  CoverInv'
    BY <1>2, <1>3, ReadCovers
  <1> QED
    BY <1>1, <1>3 DEF SaysOther, AsksForTouch

LEMMA CoverStep == WatchInv /\ CoverInv /\ [Next]_vars => CoverInv'
  <1> SUFFICES ASSUME WatchInv, CoverInv, [Next]_vars PROVE CoverInv'
    OBVIOUS
  <1>0. hup \subseteq Path /\ \A p \in hup : reader[p].state = "gone"
    BY DEF WatchInv, PlacesOK, CoverInv, HandlesOK
  <1>1. CASE StartScan
    BY <1>1, StartCovers
  <1>2. CASE SkipScan \/ EndRound \/ Cancel \/ UNCHANGED vars
    <2>1. /\ UNCHANGED <<node, reader, covered, seen, missed, hup, known>>
          /\ \/ pc' = pc /\ todo' = todo
             \/ pc # "scan" /\ pc' # "scan"
      BY <1>2 DEF SkipScan, EndRound, Cancel, vars, world, scan, round
    <2> QED
      BY <1>0, <2>1, CoverageStays
  <1>3. CASE EndScan
    BY <1>3, EndCovers
  <1>4. CASE Poll
    <2>1. /\ UNCHANGED <<node, reader, seen, missed, known>>
          /\ pc # "scan" /\ pc' # "scan"
          /\ covered' => covered
      BY <1>4 DEF Poll, world, scan
    <2>2. hup' \subseteq Path /\ \A p \in hup' : reader'[p].state = "gone"
      BY <1>4, <2>1 DEF Poll, Open
    <2> QED
      BY <2>1, <2>2, CoverageStays
  <1>5. CASE Leave
    <2>1. /\ UNCHANGED <<node, seen, missed, known>> /\ pc = "top" /\ pc' = "over"
          /\ reader' = ReaderAfter(Open(reader)) /\ ~covered' /\ hup' = {}
      BY <1>5 DEF Leave, world, scan, round, WatchInv
    <2> QED
      BY <2>1, OpenIsFinite, CloseCovers
  <1>6. ASSUME NEW p \in Path, ScanPath(p) PROVE CoverInv'
    BY <1>6, ScanCovers
  <1>7. ASSUME NEW p \in Path, Lose(p) PROVE CoverInv'
    <2>1. /\ pc = "handle" /\ pc' = "handle" /\ p \in todo /\ hup' = hup \ {p}
          /\ UNCHANGED <<node, seen, missed, known>>
          /\ reader' = ReaderAfter({p}) /\ covered' = CoverageAfter({p})
      BY <1>7 DEF Lose, InTurn, Served, world, scan
    <2>2. {p} \subseteq Open(reader) /\ ~covered'
      BY <2>1 DEF WatchInv, CoverageAfter
    <2> QED
      BY <2>1, <2>2, CloseCovers
  <1>8. ASSUME NEW p \in Path, Settle(p) PROVE CoverInv'
    <2>1. SmallTracker(Expire(reader[p].tracker))
      BY ExpireSmall DEF WatchInv, ReadersOK, ReaderOK
    <2>2. /\ pc = "handle" /\ p \in todo /\ hup' = hup \ {p}
          /\ UNCHANGED <<node, covered, pc, seen, missed, known>>
          /\ Track(p, Expire(reader[p].tracker))
      BY <1>8 DEF Settle, InTurn, Served, world, scan
    <2> QED
      BY <2>1, <2>2, TrackCovers
  <1>9. ASSUME NEW p \in Path,
               SaysOther(p) \/ \E c \in Talks[p] : AsksForTouch(p, c)
        PROVE  CoverInv'
    BY <1>9, DeviceCovers
  <1>10. ASSUME NEW p \in Path, NEW c \in Talks[p],
                BeginWaiting(p, c) \/ StopWaiting(p, c)
         PROVE  CoverInv'
    <2>1. UNCHANGED <<node, reader, covered, pc, todo, seen, missed, hup, known>>
      BY <1>10 DEF BeginWaiting, StopWaiting, scan, round
    <2> QED
      BY <1>0, <2>1, CoverageStays
  <1>11. ASSUME NEW p \in Path, Plug(p) \/ Unplug(p) \/ ChangeAccess(p)
         PROVE  CoverInv'
    <2>1. \E kind \in AllKinds, state \in {"touched", "gone"} : Changes(p, kind, state)
      BY <1>11, MonitorAssumption DEF Plug, Unplug, ChangeAccess, AllKinds
    <2> QED
      BY <2>1, ChangesCovers
  <1>12. CASE Tick
    <2>1. UNCHANGED <<node, covered, pc, todo, seen, missed, hup, known>>
      BY <1>12 DEF Tick, world, round
    <2>2. \A p \in Path : /\ reader'[p] = [reader[p] EXCEPT
                                              !.tracker = Older(reader[p].tracker)]
                          /\ reader[p] \in Readers /\ ReaderOK(reader[p])
      BY <1>12 DEF Tick, WatchInv, ReadersOK
    <2>3. \A p \in Path : /\ reader'[p].state = reader[p].state
                          /\ (reader'[p] = NoReader <=> reader[p] = NoReader)
      <3> SUFFICES ASSUME NEW p \in Path
                   PROVE  /\ reader'[p].state = reader[p].state
                          /\ reader'[p] = NoReader <=> reader[p] = NoReader
        OBVIOUS
      <3>1. reader'[p].state = reader[p].state
        BY <2>2 DEF Readers
      <3>2. reader'[p] = NoReader <=> reader[p] = NoReader
        BY <2>2, OlderOK
      <3> QED
        BY <3>1, <3>2
    <2>4. Open(reader') = Open(reader)
      BY <2>3 DEF Open
    <2> QED
      BY <1>0, <2>1, <2>3, <2>4, CoverageStays
  <1> QED
    BY <1>1, <1>2, <1>3, <1>4, <1>5, <1>6, <1>7, <1>8, <1>9, <1>10, <1>11, <1>12
       DEF Next, RunStep

\* While the popups believe that the security keys are covered, every interface
\* that has not changed since the latest scan has an open reader, whatever came,
\* went or was replaced in the meantime, except one with a descriptor that is
\* understood and has no input report of a key alone.  That is no key's or, with
\* the code's coverage still claimed, one of a key that shares its report.
THEOREM CoveredIsWatched == Spec => []CoveredMeansWatched
  <1>1. Init => WatchInv /\ CoverInv
    BY WatchInitial, CoverInitial
  <1>2. WatchInv /\ CoverInv /\ [Next]_vars => (WatchInv /\ CoverInv)'
    BY MonitorStep, CoverStep
  <1>3. CoverInv => CoveredMeansWatched
    BY DEF CoverInv
  <1> QED
    BY <1>1, <1>2, <1>3, PTL DEF Spec


---------------------------------------------------------------------------
(* An episode ends for a reason.                                           *)

\* What NotClosedEarly says of one path.
EndsRightly(p) ==
    \/ stop
    \/ reader[p].state # "same"
    \/ \A c \in (waits[p] \ late[p]) \cap DOMAIN reader[p].tracker :
          reader[p].tracker[c] = 0

\* What ends the waiting of a tracker: the answer on its only channel.
LEMMA ReportEnds ==
  ASSUME NEW t, NEW r, Active(t), ~Active(Report(t, r))
  PROVE  Completes(r) /\ DOMAIN t \subseteq {r.channel}
  <1>1. Active(Keepalive(t, r))
    <2>1. Active(Refreshed(t, r.channel))
      BY DEF Refreshed, Active
    <2> QED
      BY <2>1 DEF Keepalive
  <1>2. Completes(r) /\ Report(t, r) = Without(t, r.channel)
    BY <1>1 DEF Report
  <1>3. DOMAIN Without(t, r.channel) = DOMAIN t \ {r.channel}
    BY DEF Without
  <1> QED
    BY <1>2, <1>3 DEF Active

LEMMA ExpireEnds ==
  ASSUME NEW t \in Trackers, ~Active(Expire(t))
  PROVE  \A c \in DOMAIN t : t[c] = 0
  <1>1. DOMAIN Expire(t) = {c \in DOMAIN t : t[c] > 0}
    BY DEF Expire
  <1>2. \A c \in DOMAIN t : ~(t[c] > 0)
    BY <1>1 DEF Active
  <1>3. \A c \in DOMAIN t : t[c] \in Nat
    BY TrackerMeans, TrackerAssumption
  <1> QED
    BY <1>2, <1>3

\* Only the path that is read can end, and only if its tracker does.
LEMMA TrackEnds ==
  ASSUME ReadersOK(reader), sink = Waiting(reader), NEW p \in Path, NEW t,
         Track(p, t), NEW q \in sink \ sink'
  PROVE  q = p /\ ~Active(t) /\ Active(reader[p].tracker)
  <1>1. sink' = IF Active(t) = reader[p].active THEN sink
                ELSE IF Active(t) THEN sink \cup {p} ELSE sink \ {p}
    BY DEF Track
  <1>2. ~Active(t) /\ q = p
    BY <1>1
  <1>3. reader[p].active /\ reader[p].active = Active(reader[p].tracker)
    BY <1>2 DEF Waiting, ReadersOK, ReaderOK
  <1> QED
    BY <1>2, <1>3

LEMMA ReadEnds ==
  ASSUME WatchInv, NEW p \in Path, NEW r, ReadReport(p, r),
         Completes(r) => r.channel \notin waits[p] \ late[p],
         NEW q \in sink \ sink'
  PROVE  EndsRightly(q)
  <1> DEFINE t == reader[p].tracker
  <1>1. q = p /\ ~Active(Report(t, r)) /\ Active(t)
    BY TrackEnds DEF ReadReport, WatchInv
  <1>2. Completes(r) /\ DOMAIN t \subseteq {r.channel}
    BY <1>1, ReportEnds
  <1>3. (waits[p] \ late[p]) \cap DOMAIN t = {}
    BY <1>2
  <1> QED
    BY <1>1, <1>3 DEF EndsRightly

LEMMA DeviceEnds ==
  ASSUME WatchInv, NEW p \in Path,
         SaysOther(p) \/ \E c \in Talks[p] : AsksForTouch(p, c),
         NEW q \in sink \ sink'
  PROVE  EndsRightly(q)
  <1>1. \A c, command, length, status :
           /\ Header(c, command, length, status).channel = c
           /\ Header(c, command, length, status).command = command
    BY DEF Header
  <1>2. \A c, length, status : /\ ~Completes(Header(c, "keepalive", length, status))
                               /\ ~Completes(Header(c, "other", length, status))
    BY <1>1 DEF Completes
  <1>3. waits[p] \subseteq Channel /\ Broadcast \notin waits[p]
    BY TrackerAssumption DEF WatchInv, PlacesOK
  <1>4. ASSUME NEW c, NEW command, NEW length, NEW status,
               c \notin waits[p] \ late[p] \/ command \in {"keepalive", "other"},
               ReadReport(p, Header(c, command, length, status))
        PROVE  EndsRightly(q)
    BY <1>1, <1>2, <1>4, ReadEnds
  <1> QED
    BY <1>3, <1>4 DEF SaysOther, AsksForTouch

LEMMA RunEnds ==
  ASSUME WatchInv, CoverInv, RunStep, NEW q \in sink \ sink'
  PROVE  EndsRightly(q)
  <1>1. \A P : SinkAfter(P) = sink \ {p \in P : reader[p].active}
    BY DEF SinkAfter
  <1>2. CASE EndScan
    <2>1. q \notin seen /\ pc = "scan" /\ todo = {} /\ q \in Path
      BY <1>1, <1>2 DEF EndScan, WatchInv, Waiting
    <2> QED
      BY <2>1 DEF CoverInv, HandlesOK, EndsRightly
  <1>3. CASE Leave
    BY <1>3 DEF Leave, EndsRightly
  <1>4. ASSUME NEW p \in Path, ScanPath(p) PROVE EndsRightly(q)
    <2>1. Watch(p)
      BY <1>4 DEF ScanPath, PassBy, Keep
    <2>2. q = p /\ reader[p].state # "same"
      BY <1>1, <2>1 DEF Watch
    <2> QED
      BY <2>2 DEF EndsRightly
  <1>5. ASSUME NEW p \in Path, Lose(p) PROVE EndsRightly(q)
    <2>1. q = p
      BY <1>1, <1>5 DEF Lose
    <2>2. reader[p].state = "gone"
      BY <1>5 DEF Lose, CoverInv, HandlesOK
    <2> QED
      BY <2>1, <2>2 DEF EndsRightly
  <1>6. ASSUME NEW p \in Path, Settle(p) PROVE EndsRightly(q)
    <2>1. q = p /\ ~Active(Expire(reader[p].tracker))
      BY <1>6, TrackEnds DEF Settle, WatchInv
    <2>2. reader[p].tracker \in Trackers
      BY DEF WatchInv, ReadersOK, ReaderOK, SmallTracker
    <2>3. \A c \in DOMAIN reader[p].tracker : reader[p].tracker[c] = 0
      BY <2>1, <2>2, ExpireEnds
    <2> QED
      BY <2>1, <2>3 DEF EndsRightly
  <1>7. StartScan \/ SkipScan \/ Poll \/ EndRound => sink' = sink
    BY DEF StartScan, SkipScan, Poll, EndRound
  <1> QED
    BY <1>2, <1>3, <1>4, <1>5, <1>6, <1>7 DEF RunStep

LEMMA StepEnds ==
  ASSUME WatchInv, CoverInv, [Next]_vars, NEW q \in sink \ sink'
  PROVE  EndsRightly(q)
  <1>1. CASE RunStep
    BY <1>1, RunEnds
  <1>2. ASSUME NEW p \in Path,
               SaysOther(p) \/ \E c \in Talks[p] : AsksForTouch(p, c)
        PROVE  EndsRightly(q)
    BY <1>2, DeviceEnds
  <1>3. ASSUME NEW p \in Path, Plug(p) \/ Unplug(p) \/ ChangeAccess(p)
                               \/ \E c \in Talks[p] : \/ BeginWaiting(p, c)
                                                      \/ StopWaiting(p, c)
        PROVE  EndsRightly(q)
    BY <1>3 DEF Plug, Unplug, ChangeAccess, Changes, BeginWaiting, StopWaiting
  <1>4. CASE Tick \/ Cancel \/ UNCHANGED vars
    BY <1>4 DEF Tick, Cancel, vars
  <1> QED
    BY <1>1, <1>2, <1>3, <1>4 DEF Next

\* A device stops being reported only at shutdown, because its reader has lost
\* it or its permissions were touched, or because on no channel it waits on a
\* keepalive still counts, but for a channel on which the answer to an older
\* wait is unread: neither the answer on another channel nor a scan that finds
\* the device unchanged ends it.
THEOREM NoEpisodeEndsEarly == Spec => NotClosedEarly
  <1>1. Init => WatchInv /\ CoverInv
    BY WatchInitial, CoverInitial
  <1>2. WatchInv /\ CoverInv /\ [Next]_vars => (WatchInv /\ CoverInv)'
    BY MonitorStep, CoverStep
  <1>3. WatchInv /\ CoverInv /\ [Next]_vars
           => [\A p \in sink \ sink' :
                  \/ stop
                  \/ reader[p].state # "same"
                  \/ \A c \in (waits[p] \ late[p]) \cap DOMAIN reader[p].tracker :
                        reader[p].tracker[c] = 0]_vars
    BY StepEnds DEF EndsRightly
  <1> QED
    BY <1>1, <1>2, <1>3, PTL DEF Spec, NotClosedEarly

===========================================================================
